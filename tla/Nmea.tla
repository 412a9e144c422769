-------------------------------- MODULE Nmea ---------------------------------
(***************************************************************************)
(* The NMEA sentences that the AP generates (gps/utils/loc_nmea.cpp) from  *)
(* a position report and from a satellite report.                          *)
(*                                                                         *)
(* A sentence is the record of what a reader of it learns: its type, its   *)
(* talker, the system and the satellites it names, the numbers that count  *)
(* sentences and satellites, the mode of the solution and which fields are *)
(* there.  The values of the fields, the checksum and the limit of the     *)
(* sentence's length are left out.                                         *)
(*                                                                         *)
(* A position report has its fields, its technology and the satellites it  *)
(* used, by constellation; a satellite report is a sequence of             *)
(* [type, svId, used].                                                     *)
(***************************************************************************)
EXTENDS Naturals, Sequences, FiniteSets, SequencesExt

Constellation == {"GPS", "GLONASS", "GALILEO", "QZSS", "BEIDOU"}

\* The order in which the generators go through the constellations.
InOrder == <<"GPS", "GLONASS", "GALILEO", "QZSS", "BEIDOU">>

-----------------------------------------------------------------------------
(* loc_nmea_sv_meta_init                                                   *)

Talker(c) == CASE c = "GPS" -> "GP" [] c = "GLONASS" -> "GL" [] c = "GALILEO" -> "GA"
               [] OTHER -> "PQ"
SvIdOffset(c) == IF c = "GLONASS" THEN 64 ELSE 0
SystemId(c) == CHOOSE k \in 1 .. 5 : <<"GPS", "GLONASS", "GALILEO", "BEIDOU", "QZSS">>[k] = c

\* A solution of several constellations has the talker GN, if asked for.
CombinedTalker(masks, c, needCombine) ==
  IF needCombine /\ Cardinality({d \in Constellation : masks[d] # {}}) > 1
  THEN "GN" ELSE Talker(c)

-----------------------------------------------------------------------------
(* loc_nmea_generate_pos                                                   *)

\* sv_cache_info: 32 bits of each mask, those of QZSS and BeiDou exchanged.
UsedMasks(used) ==
  [c \in Constellation |->
    (CASE c = "QZSS" -> used["BEIDOU"] [] c = "BEIDOU" -> used["QZSS"] [] OTHER -> used[c])
      \cap (1 .. 32)]

\* loc_nmea_generate_GSA: the first twelve satellites of a constellation.  Only
\* GPS has a sentence that names none.
FixType(n) == IF n = 0 THEN 1 ELSE IF n <= 3 THEN 2 ELSE 3
GSA(masks, c) ==
  LET svs == SetToSortSeq(masks[c], LAMBDA a, b : a < b) IN
  IF svs = <<>> /\ c # "GPS" THEN <<>>
  ELSE <<[type |-> "GSA",
          talker |-> CombinedTalker(masks, c, c \in {"GPS", "GLONASS", "GALILEO"}),
          system |-> SystemId(c),
          fixType |-> FixType(Len(svs)),
          svs |-> [k \in 1 .. (IF Len(svs) > 12 THEN 12 ELSE Len(svs)) |->
                    svs[k] + SvIdOffset(c)]]>>

\* The talker of the other sentences is that of the last of GPS, GLONASS and
\* Galileo with a satellite.
PosTalker(masks) ==
  LET talkers == SelectSeq(<<"GPS", "GLONASS", "GALILEO">>, LAMBDA c : masks[c] # {}) IN
  IF talkers = <<>> THEN "GP" ELSE CombinedTalker(masks, Last(talkers), TRUE)

SvUsedCount(masks) ==
  LET n == Cardinality(masks["GPS"]) + Cardinality(masks["GLONASS"]) +
           Cardinality(masks["GALILEO"]) + Cardinality(masks["QZSS"]) +
           Cardinality(masks["BEIDOU"])
  IN IF n > 12 THEN 12 ELSE n

\* What a sentence says of the solution; GGA has a number for it.
Mode(fix) ==
  IF "LAT_LONG" \notin fix.fields THEN "none"
  ELSE IF "SBAS_CORRECTION" \in fix.fields THEN "differential"
  ELSE IF fix.tech = "SENSORS" THEN "estimated"
  ELSE "autonomous"

\* A sentence leaves the place of a field empty that the fix does not have.
VTG(fix, talker) ==
  [type |-> "VTG", talker |-> talker, mode |-> Mode(fix),
   has |-> fix.fields \cap {"BEARING", "SPEED"}]

RMC(fix, talker) ==
  [type |-> "RMC", talker |-> talker, mode |-> Mode(fix),
   has |-> fix.fields \cap {"LAT_LONG", "SPEED", "BEARING", "MAG_DEV"}]

\* The separation of the geoid needs both altitudes.
GGA(fix, talker, count) ==
  [type |-> "GGA", talker |-> talker, mode |-> Mode(fix), count |-> count,
   has |-> (fix.fields \cap {"LAT_LONG", "DOP", "ALTITUDE_MEAN_SEA_LEVEL"}) \union
           (IF {"ALTITUDE", "ALTITUDE_MEAN_SEA_LEVEL"} \subseteq fix.fields
            THEN {"SEPARATION"} ELSE {})]

\* A fix that is not final has sentences without a field.
Blank ==
  LET blank(type, talker) == [type |-> type, talker |-> talker, mode |-> "none", has |-> {}]
  IN <<blank("GSA", "GP"), blank("GSA", "GN"), blank("GSA", "PQ"),
       blank("VTG", "GP"), blank("RMC", "GP"), blank("GGA", "GP")>>

generate_pos(fix, generate_nmea) ==
  LET masks == UsedMasks(fix.used)
      talker == PosTalker(masks)
  IN
  IF generate_nmea
  THEN FlattenSeq([k \in 1 .. 5 |-> GSA(masks, InOrder[k])])
         \o <<VTG(fix, talker), RMC(fix, talker), GGA(fix, talker, SvUsedCount(masks))>>
  ELSE Blank

-----------------------------------------------------------------------------
(* loc_nmea_generate_sv                                                    *)

\* The records of a sequence that have this value in a field, in their order
Where(s, field, value) ==
  LET found[n \in 0 .. Len(s)] ==
        IF n = 0 THEN <<>>
        ELSE IF s[n][field] = value THEN Append(found[n - 1], s[n]) ELSE found[n - 1]
  IN  found[Len(s)]

OfType(svNotify, c) == Where(svNotify, "type", c)

\* Mutant: one sentence more than needed when the satellites fill the last one.
SentencesPlusOne(n) == n \div 4 + 1
SentenceCount(n) == n \div 4 + (IF n % 4 # 0 THEN 1 ELSE 0)

\* loc_nmea_generate_GSV: four satellites in a sentence, in the order of the
\* report.
GSV(svNotify, c) ==
  LET svs == OfType(svNotify, c)
      n == Len(svs)
      chunk(k) == SubSeq(svs, 4 * (k - 1) + 1, IF 4 * k > n THEN n ELSE 4 * k)
  IN
  IF n = 0
  THEN <<[type |-> "GSV", talker |-> Talker(c), of |-> 1, number |-> 1, inView |-> 0, svs |-> <<>>]>>
  ELSE [k \in 1 .. SentenceCount(n) |->
         [type |-> "GSV", talker |-> Talker(c), of |-> SentenceCount(n), number |-> k,
          inView |-> n,
          svs |-> [j \in DOMAIN chunk(k) |-> chunk(k)[j].svId + SvIdOffset(c)]]]

generate_sv(svNotify) == FlattenSeq([k \in 1 .. 5 |-> GSV(svNotify, InOrder[k])])

=============================================================================
