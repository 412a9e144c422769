------------------------------- MODULE Reports -------------------------------
(***************************************************************************)
(* Reports of the engine to the clients (gps/gnss/GnssAdapter.cpp          *)
(* 193-330, 2030-2322 and 2482-2520; the callbacks of                      *)
(* gps/android/location_api/GnssAPIClient.cpp and the conversions of       *)
(* LocationUtil.cpp).                                                      *)
(*                                                                         *)
(* A position report is judged, delivered, and the satellites it used are  *)
(* kept for the satellite report that follows it, where they are flagged   *)
(* USED_IN_FIX.  With NMEA_PROVIDER_AP both give rise to NMEA sentences    *)
(* (module Nmea) while a session tracks.                                   *)
(*                                                                         *)
(* Events are handled in the order in which the engine reports them.  ULP, *)
(* which may take an event over, is not installed (UlpProxyBase).          *)
(***************************************************************************)
EXTENDS Nmea

CONSTANTS
  Fixes,             \* position reports: [status, tech, accurate, located, fields, used]
  SvReports,         \* satellite reports: sequences of [type, svId, used]
  INTERMEDIATE_POS,  \* mGps_conf: intermediate fixes are wanted
  NMEA_AP,           \* mGps_conf.NMEA_PROVIDER is NMEA_PROVIDER_AP
  MaxSvs             \* GnssMax::SVS_COUNT

VARIABLES
  callbacks,       \* the callbacks of the client: subset of {"tracking", "sv", "nmea"}
  tracking,        \* mTrackingSessions is not empty
  svUsedAvail,     \* mGnssSvIdUsedInPosAvail
  svUsed,          \* mGnssSvIdUsedInPosition
  location,        \* the fields of the last location the framework got
  svStatus,        \* the last satellite status the framework got
  nmea,            \* the sentences of the last report
  lastReport,      \* ghost: the last report of the engine, a fix or a satellite report
  used             \* ghost: the satellites of the last delivered fix, before it

vars == <<callbacks, tracking, svUsedAvail, svUsed, location, svStatus, nmea,
          lastReport, used>>

-----------------------------------------------------------------------------
NoneUsed == [c \in Constellation |-> {}]
NoReport == [kind |-> "none", sv |-> <<>>]

Init ==
  /\ callbacks \in SUBSET {"tracking", "sv", "nmea"}
  /\ tracking \in BOOLEAN
  /\ svUsedAvail = FALSE
  /\ svUsed = NoneUsed
  /\ location = {}
  /\ svStatus = <<>>
  /\ nmea = <<>>
  /\ lastReport = NoReport
  /\ used = NoneUsed

\* startTracking and stopTracking, as far as the reports go.
SetTracking ==
  /\ tracking' = ~tracking
  /\ UNCHANGED <<callbacks, svUsedAvail, svUsed, location, svStatus, nmea, lastReport, used>>

-----------------------------------------------------------------------------
(* Positions                                                               *)

\* A final fix of satellites or sensors; an intermediate one if it is wanted and
\* not known to be inaccurate.
needReport(fix) ==
  \/ fix.status = "SUCCESS" /\ fix.tech \in {"SATELLITE", "SENSORS", "HYBRID"}
  \/ fix.status = "INTERMEDIATE" /\ INTERMEDIATE_POS /\ fix.accurate

\* convertLocation, then convertGnssLocation for the framework: each field that
\* is flagged keeps its flag under the name of the next interface.
Field == {"LAT_LONG", "ALTITUDE", "SPEED", "BEARING", "ACCURACY", "VERTICAL_ACCURACY",
          "SPEED_ACCURACY", "BEARING_ACCURACY"}
convertLocation(fix) == fix.fields \cap Field
convertGnssLocation(fields) ==
  {IF f = "ACCURACY" THEN "HORIZONTAL_ACCURACY" ELSE f : f \in fields}

\* NMEA goes to the callback that is there.
NmeaTold(sentences) ==
  nmea' = IF NMEA_AP /\ tracking /\ "nmea" \in callbacks THEN sentences ELSE <<>>

\* Mutant: a fix that is not delivered leaves the satellites of the one before.
KeepSvUsed(fix) ==
  IF needReport(fix) /\ fix.used # NoneUsed
  THEN svUsedAvail' = TRUE /\ svUsed' = fix.used
  ELSE UNCHANGED <<svUsedAvail, svUsed>>
RememberSvUsed(fix) ==
  /\ svUsedAvail' = (needReport(fix) /\ fix.used # NoneUsed)
  /\ svUsed' = IF svUsedAvail' THEN fix.used ELSE svUsed

reportPosition(fix) ==
  /\ RememberSvUsed(fix)
  /\ location' = IF needReport(fix) /\ "tracking" \in callbacks
                 THEN convertGnssLocation(convertLocation(fix)) ELSE location
  /\ NmeaTold(generate_pos(fix, needReport(fix) /\ fix.located))
  /\ lastReport' = [NoReport EXCEPT !.kind = "fix"]
  /\ used' = IF needReport(fix) THEN fix.used ELSE NoneUsed
  /\ UNCHANGED <<callbacks, tracking, svStatus>>

-----------------------------------------------------------------------------
(* Satellites                                                              *)

\* 1 << (svId - 1) as a set of bit numbers.  The shift is that of a 32-bit int:
\* bit 32 is its sign, extended to 64 bits, and a shift by 32 or more is
\* undefined: the build either takes it modulo 32 or lets it be 0.
Bits(svId, wraps) ==
  IF svId < 32 THEN {svId}
  ELSE IF svId = 32 THEN 32 .. 64
  ELSE IF wraps THEN {1 + ((svId - 1) % 32)} ELSE {}

\* QZSS ids are moved to the numbers of the framework.
Numbered(sv) == [sv EXCEPT !.svId = IF sv.type = "QZSS" THEN @ + 192 ELSE @]

\* The satellite is flagged if it was used in the position, and keeps the flag
\* it came with: nothing clears it.
Flagged(sv, wraps) ==
  [Numbered(sv) EXCEPT
     !.used = @ \/ (svUsedAvail /\ svUsed[sv.type] \cap Bits(sv.svId, wraps) # {})]

\* convertGnssSvStatus: the framework's list is limited.
convertGnssSvStatus(svs) == SubSeq(svs, 1, IF Len(svs) > MaxSvs THEN MaxSvs ELSE Len(svs))

reportSv(svNotify) ==
  \E wraps \in BOOLEAN :
    /\ LET told == [k \in DOMAIN svNotify |-> Flagged(svNotify[k], wraps)] IN
       /\ svStatus' = IF "sv" \in callbacks THEN convertGnssSvStatus(told) ELSE svStatus
       /\ NmeaTold(generate_sv(told))
    /\ svUsedAvail' = FALSE
    /\ lastReport' = [NoReport EXCEPT !.kind = "sv", !.sv = svNotify]
    /\ used' = IF lastReport.kind = "fix" THEN used ELSE NoneUsed
    /\ UNCHANGED <<callbacks, tracking, svUsed, location>>

\* A sentence of the engine goes to the client, unless system status takes it.
reportNmea(debug) ==
  /\ nmea' = IF ~debug /\ "nmea" \in callbacks
             THEN <<[type |-> "engine", talker |-> "GP"]>> ELSE <<>>
  /\ lastReport' = [lastReport EXCEPT !.kind = IF @ = "sv" THEN "none" ELSE @]
  /\ UNCHANGED <<callbacks, tracking, svUsedAvail, svUsed, location, svStatus, used>>

Next ==
  \/ SetTracking
  \/ \E fix \in Fixes : reportPosition(fix)
  \/ \E svNotify \in SvReports : reportSv(svNotify)
  \/ \E debug \in BOOLEAN : reportNmea(debug)

Spec == Init /\ [][Next]_vars

-----------------------------------------------------------------------------
(* Properties                                                              *)

OfTalker(c) == Where(nmea, "talker", Talker(c))

\* A satellite that came without the flag gets it exactly if it was used in the fix
\* delivered just before its report: not in an older one, nor in a fix that was not
\* delivered.  One that came with the flag keeps it, used in the fix or not, although
\* the comment at GnssAdapter.cpp 2229 says that the flag is cleared.  (The ids are
\* those the 32-bit shift can express.)
FixFlagsSatellites ==
  lastReport.kind = "sv" /\ "sv" \in callbacks =>
    \A k \in DOMAIN svStatus :
      LET sv == lastReport.sv[k] IN
      sv.svId < 32 => (svStatus[k].used <=> sv.used \/ sv.svId \in used[sv.type])

\* The sentences name every satellite of the constellation in view once and in order,
\* number themselves and agree on how many there are.
IsSeries(sentences, c) ==
  LET svs == OfType([k \in DOMAIN lastReport.sv |-> Numbered(lastReport.sv[k])], c) IN
  /\ FlattenSeq([k \in DOMAIN sentences |-> sentences[k].svs]) =
       [k \in DOMAIN svs |-> svs[k].svId + SvIdOffset(c)]
  /\ \A k \in DOMAIN sentences :
       /\ sentences[k].number = k /\ sentences[k].of = Len(sentences)
       /\ sentences[k].inView = Len(svs)
       /\ svs # <<>> => sentences[k].svs # <<>>

\* The GSV sentences of GP, GL and GA, read in order, are a series each.  QZSS and BeiDou
\* share the talker PQ, which has two series, each numbered from 1: that of QZSS and behind
\* it that of BeiDou, so a reader who goes by talker and number takes one for the other.
GsvListsInView ==
  lastReport.kind = "sv" /\ nmea # <<>> =>
    /\ \A c \in {"GPS", "GLONASS", "GALILEO"} : IsSeries(OfTalker(c), c)
    /\ LET pq == OfTalker("QZSS") IN
       \E n \in 1 .. Len(pq) :
         IsSeries(SubSeq(pq, 1, n), "QZSS") /\ IsSeries(SubSeq(pq, n + 1, Len(pq)), "BEIDOU")

=============================================================================
