------------------------------- MODULE Lights --------------------------------
(***************************************************************************)
(* The lights HAL (liblight/lights.c).                                     *)
(*                                                                         *)
(* The attention, notification and battery lights share one RGB LED: the   *)
(* first of them that is lit is shown.  The LED is written file by file,   *)
(* the files of a blinking LED being others than those of a steady one, so *)
(* what was written for an earlier light stays where it is not written     *)
(* over.  Every call holds g_lock and is one step.                         *)
(*                                                                         *)
(* A light state is [alpha, rgb, mode, on, off]; rgb is a sequence of the  *)
(* three colors.  External: the LED driver, of which only the files are    *)
(* modelled; a write that fails is not.                                    *)
(***************************************************************************)
EXTENDS Naturals, Sequences

CONSTANT States         \* light_state_t: the states a light is set to

VARIABLES
  lights,               \* g_attention, g_notification, g_battery
  requested,            \* ghost: the state each of them was last set to
  rgb_blink,            \* RGB_BLINK_FILE
  led,                  \* by color: the brightness file
  blinkLed,             \* by color: the duty_pcts file and the timing files
  panel                 \* LCD_FILE and BUTTONS_FILE

vars == <<lights, requested, rgb_blink, led, blinkLed, panel>>

RGB == 1 .. 3
RAMP_SIZE == 8
BRIGHTNESS_RAMP == <<0, 12, 25, 37, 50, 72, 85, 100>>
RAMP_STEP_DURATION == 50

Off == [alpha |-> 0, rgb |-> <<0, 0, 0>>, mode |-> "NONE", on |-> 0, off |-> 0]
Steady == [duty |-> <<>>, lo |-> 0, hi |-> 0, step |-> 0]

Init ==
  /\ lights = [l \in {"attention", "notification", "battery"} |-> Off]
  /\ requested = lights
  /\ rgb_blink = 0
  /\ led = [c \in RGB |-> 0]
  /\ blinkLed = [c \in RGB |-> Steady]
  /\ panel = [p \in {"lcd", "buttons"} |-> 0]

-----------------------------------------------------------------------------
is_lit(state) == \E c \in RGB : state.rgb[c] # 0

rgb_to_brightness(state) ==
  (77 * state.rgb[1] + 150 * state.rgb[2] + 29 * state.rgb[3]) \div 256

get_scaled_duty_pcts(brightness) ==
  [i \in 1 .. RAMP_SIZE |-> (BRIGHTNESS_RAMP[i] * brightness) \div 255]

Blinks(state) == state.mode = "TIMED" /\ state.on > 0 /\ state.off > 0

\* Mutant: a short flash keeps the step of a long one.
RampOf_Long(on) ==
  [step |-> RAMP_STEP_DURATION,
   hi |-> IF 2 * RAMP_SIZE * RAMP_STEP_DURATION > on
          THEN 0 ELSE on - 2 * RAMP_SIZE * RAMP_STEP_DURATION]
\* The LED ramps up and down and stays on in between; a flash that is shorter than
\* the two ramps has quicker ones.
RampOf(on) ==
  IF 2 * RAMP_SIZE * RAMP_STEP_DURATION > on
  THEN [step |-> on \div (2 * RAMP_SIZE), hi |-> 0]
  ELSE [step |-> RAMP_STEP_DURATION, hi |-> on - 2 * RAMP_SIZE * RAMP_STEP_DURATION]

\* The three blink files of a dark LED are written 0, which they are already when
\* rgb_blink is.
set_speaker_light_locked(state) ==
  IF Blinks(state)
  THEN /\ rgb_blink' = 1
       /\ blinkLed' = [c \in RGB |-> [duty |-> get_scaled_duty_pcts(state.rgb[c]),
                                      lo |-> state.off, hi |-> RampOf(state.on).hi,
                                      step |-> RampOf(state.on).step]]
       /\ UNCHANGED led
  ELSE /\ rgb_blink' = 0
       /\ led' = state.rgb
       /\ UNCHANGED blinkLed

\* handle_speaker_light_locked
Shown(ls) ==
  IF is_lit(ls["attention"]) THEN ls["attention"]
  ELSE IF is_lit(ls["notification"]) THEN ls["notification"]
  ELSE ls["battery"]

\* set_light_notifications: the brightness the user asked for is applied to the
\* color.
Scaled(state) ==
  IF state.alpha \in 1 .. 254
  THEN [state EXCEPT !.rgb = [c \in RGB |-> (@[c] * state.alpha) \div 255], !.alpha = 0]
  ELSE state

\* set_light_attention, set_light_battery and set_light_notifications.
set_light(l, state) ==
  /\ lights' = [lights EXCEPT ![l] = IF l = "notification" THEN Scaled(state) ELSE state]
  /\ requested' = [requested EXCEPT ![l] = state]
  /\ set_speaker_light_locked(Shown(lights'))
  /\ UNCHANGED panel

\* set_light_backlight and set_light_buttons.
set_light_panel(p, state) ==
  /\ panel' = [panel EXCEPT ![p] = rgb_to_brightness(state)]
  /\ UNCHANGED <<lights, requested, rgb_blink, led, blinkLed>>

Next ==
  \/ \E l \in DOMAIN lights, state \in States : set_light(l, state)
  \/ \E p \in DOMAIN panel, state \in States : set_light_panel(p, state)

Spec == Init /\ [][Next]_vars

-----------------------------------------------------------------------------
(* Properties                                                              *)

\* The light the user should see, from what was asked for: the first that is lit,
\* a notification only if something of it is left at the brightness asked for.
Wanted ==
  LET visible(l) == \E c \in RGB :
        IF l = "notification" /\ requested[l].alpha \in 1 .. 254
        THEN requested[l].rgb[c] * requested[l].alpha >= 255 ELSE requested[l].rgb[c] > 0
  IN CHOOSE l \in DOMAIN lights :
       \/ l = "attention" /\ visible(l)
       \/ l = "notification" /\ visible(l) /\ ~visible("attention")
       \/ l = "battery" /\ ~visible("attention") /\ ~visible("notification")

\* What the LED shows does not depend on the lights before (lights.c 237-336): it
\* blinks exactly if the light on top asks for it, the flash then takes the time
\* asked for but for less than one step of each ramp, and a color that is not in
\* the light is dark.
LedShowsTopLight ==
  LET state == requested[Wanted]
      dark(c) == IF rgb_blink = 1 THEN \A i \in 1 .. RAMP_SIZE : blinkLed[c].duty[i] = 0
                 ELSE led[c] = 0
  IN
  /\ rgb_blink = 1 <=> Blinks(state)
  /\ \A c \in RGB : state.rgb[c] = 0 => dark(c)
  /\ rgb_blink = 1 =>
       \A c \in RGB :
         LET time == 2 * RAMP_SIZE * blinkLed[c].step + blinkLed[c].hi
         IN time <= state.on /\ state.on < time + 2 * RAMP_SIZE /\ blinkLed[c].lo = state.off
  /\ rgb_blink = 0 => \A c \in RGB : led[c] <= state.rgb[c]

=============================================================================
