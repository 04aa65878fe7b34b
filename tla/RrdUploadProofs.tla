-------------------------- MODULE RrdUploadProofs ---------------------------
(***************************************************************************)
(* Proofs about what an upload is made of: rrd_config_load(), for whatever *)
(* the property files and DCMSettings.conf hold (RrdConfig), and           *)
(* rrd_archive_create(), for every directory tree, every change of a file  *)
(* meanwhile and every size of a block (RrdTar).                           *)
(***************************************************************************)
EXTENDS RrdConfig, RrdTar, RrdInduction

(***************************************************************************)
(* RrdConfig.  FInv says what is behind each step: the sources that were   *)
(* gone through, and that whatever one of them held for the server or the  *)
(* link has left a value there, if only because one was there before.      *)
(***************************************************************************)
From == {"none", "default", "include", "device", "rfc", "DCMSettings", "opt", "etc"}
Value == {"", "x", "prod", "dev", "HTTP", "x/cgi-bin/S3.cgi"}
Assignment == UNION {[F -> Value] : F \in SUBSET Field}
Held == UNION {[F -> {"", "null", "x", "prod", "dev"}] : F \in SUBSET Field}
Source == [from : From, text : Held]
Needed == {"LOG_SERVER", "HTTP_UPLOAD_LINK"}

Asked == {given[i].from : i \in 1..Len(given)}

ConfigType ==
  /\ given \in Seq(Source)
  /\ config \in [Field -> [from : From, value : Value]]
  /\ result \in {"none", "0", "-2", "-3"}

\* What a source held for a field that is needed was not lost.
LeavesValue ==
  \A i \in 1..Len(given), f \in Needed : Offered(given[i], f) => config[f].value # ""

GoneThrough ==
  /\ step # "include" => "include" \in Asked
  /\ step \notin {"include", "device"} => "device" \in Asked
  /\ step \in {"DCMSettings", "fallback", "validate", "loaded"} /\ ~override => "rfc" \in Asked
  /\ step \in {"fallback", "validate", "loaded"} /\ ~override => "DCMSettings" \in Asked
  /\ step \in {"validate", "loaded"} /\ NeedsFallback => {"opt", "etc"} \intersect Asked # {}

Judged ==
  /\ result # "none" => step = "loaded"
  /\ result = "-2" => ~IsSet("LOG_SERVER")
  /\ result = "-3" => ~IsSet("HTTP_UPLOAD_LINK")

FInv == ConfigType /\ LeavesValue /\ GoneThrough /\ Judged
-----------------------------------------------------------------------------
(***************************************************************************)
(* What the parsers assign, and what an assignment does.                   *)
(***************************************************************************)
NoEmpty(a) == \A f \in DOMAIN a : a[f] # ""

\* What text holds for a field that is needed is assigned, or there was a
\* value already.
Covers(a, text) ==
  \A f \in Needed : Offered([text |-> text], f) => f \in DOMAIN a \/ IsSet(f)

LEMMA TextIsHeld == ASSUME NEW text \in Text PROVE text \in Held
<1>1. PICK F \in SUBSET Field : text \in [F -> {"", "x", "prod", "dev"}]
  BY DEF Text
<1>2. text \in [F -> {"", "null", "x", "prod", "dev"}]
  BY <1>1
<1> QED BY <1>2 DEF Held

\* The lines of a file assign all that is not empty, and nothing that is.
LEMMA ParsedAssigns ==
  ASSUME NEW text \in Text
  PROVE  /\ ParsedProperties(text) \in Assignment
         /\ NoEmpty(ParsedProperties(text)) /\ Covers(ParsedProperties(text), text)
         /\ ParsedDcm(text) \in Assignment
         /\ NoEmpty(ParsedDcm(text)) /\ Covers(ParsedDcm(text), text)
<1>1. PICK F \in SUBSET Field : text \in [F -> {"", "x", "prod", "dev"}]
  BY DEF Text
<1>2. \A f \in F : text[f] \in Value
  BY <1>1 DEF Value
<1> DEFINE P == {g \in DOMAIN text : text[g] # ""}
           D == {g \in DOMAIN text : text[g] # "" \/ g = "UPLOAD_PROTOCOL"}
<1>3. P \in SUBSET Field /\ D \in SUBSET Field /\ P \subseteq F /\ D \subseteq F
  BY <1>1
<1>4. ParsedProperties(text) \in [P -> Value]
  BY <1>1, <1>2, <1>3 DEF ParsedProperties
<1>5. ParsedDcm(text) \in [D -> Value]
  BY <1>1, <1>2, <1>3 DEF ParsedDcm, Value
<1>6. ParsedProperties(text) \in Assignment /\ ParsedDcm(text) \in Assignment
  <2> HIDE DEF P, D
  <2> QED BY <1>3, <1>4, <1>5 DEF Assignment
<1>7. NoEmpty(ParsedProperties(text)) /\ Covers(ParsedProperties(text), text)
  BY DEF NoEmpty, ParsedProperties, Covers, Offered
<1>8. NoEmpty(ParsedDcm(text)) /\ Covers(ParsedDcm(text), text)
  BY DEF NoEmpty, ParsedDcm, Covers, Offered
<1> QED BY <1>6, <1>7, <1>8

\* RFC's link is left alone only where there is one.
LEMMA RfcAssigns ==
  ASSUME NEW text \in RfcText
  PROVE  /\ text \in Held
         /\ RfcAnswers(text) \in Assignment
         /\ NoEmpty(RfcAnswers(text)) /\ Covers(RfcAnswers(text), text)
<1> DEFINE R == {g \in DOMAIN text : text[g] \notin {"", "null"} /\ ~(g = "HTTP_UPLOAD_LINK" /\ IsSet(g))}
<1>1. text \in [Needed -> {"", "null", "x", "prod", "dev"}] /\ Needed \in SUBSET Field
  BY DEF RfcText, Needed, Field
<1>2. R \in SUBSET Field
  BY <1>1
<1>3. RfcAnswers(text) \in [R -> Value]
  BY DEF RfcAnswers, Value
<1>4. RfcAnswers(text) \in Assignment
  <2> HIDE DEF R
  <2> QED BY <1>2, <1>3 DEF Assignment
<1>5. text \in Held
  BY <1>1 DEF Held
<1> QED BY <1>4, <1>5 DEF NoEmpty, Covers, Offered, RfcAnswers

\* A source that assigns what it held adds itself to those gone through.
LEMMA AssignTakes ==
  ASSUME ConfigType, LeavesValue, result' = result,
         NEW src \in From, NEW text \in Held, NEW a \in Assignment,
         NoEmpty(a), Covers(a, text), Assign(src, text, a)
  PROVE  /\ ConfigType' /\ LeavesValue'
         /\ Asked' = Asked \union {src}
         /\ \A f \in Field : config[f].value # "" => config'[f].value # ""
<1> DEFINE r == [from |-> src, text |-> text]
<1>1. r \in Source /\ r.from = src /\ r.text = text
  BY DEF Source
<1>2. given \in Seq(Source) /\ given' = Append(given, r)
  BY DEF ConfigType, Assign
<1> HIDE DEF r
<1>3. /\ given' \in Seq(Source) /\ Len(given) \in Nat /\ Len(given') = Len(given) + 1
      /\ \A i \in 1..Len(given) : given'[i] = given[i]
      /\ given'[Len(given) + 1] = r
  BY <1>1, <1>2
<1>4. \A i \in 1..Len(given') : i \in 1..Len(given) \/ i = Len(given) + 1
  BY <1>3
<1>5. a \in [DOMAIN a -> Value]
  BY DEF Assignment
<1>6. /\ config' \in [Field -> [from : From, value : Value]]
      /\ \A f \in Field :
           IF f \in DOMAIN a THEN config'[f].value = a[f] ELSE config'[f] = config[f]
  BY <1>5 DEF ConfigType, Assign
<1>7. \A f \in Field : config[f].value # "" => config'[f].value # ""
  BY <1>6 DEF NoEmpty
<1>8. ConfigType'
  BY <1>3, <1>6 DEF ConfigType
<1>9. LeavesValue'
  <2> SUFFICES ASSUME NEW i \in 1..Len(given'), NEW f \in Needed, Offered(given'[i], f)
               PROVE  config'[f].value # ""
    BY DEF LeavesValue, Offered
  <2>1. f \in Field
    BY DEF Needed, Field
  <2>2. CASE i \in 1..Len(given)
    BY <1>3, <1>7, <2>1, <2>2 DEF LeavesValue
  <2>3. CASE i = Len(given) + 1
    <3>1. f \in DOMAIN a \/ IsSet(f)
      BY <1>1, <1>3, <2>3 DEF Offered, Covers
    <3> QED BY <1>6, <1>7, <2>1, <3>1 DEF NoEmpty, IsSet
  <2> QED BY <1>4, <2>2, <2>3
<1>10. Asked' = Asked \union {src}
  <2>1. ASSUME NEW i \in 1..Len(given') PROVE given'[i].from \in Asked \union {src}
    BY <1>1, <1>3, <1>4 DEF Asked
  <2>2. ASSUME NEW i \in 1..Len(given) PROVE given[i].from \in Asked'
    <3>1. i \in 1..Len(given') /\ given'[i] = given[i]
      BY <1>3
    <3> QED BY <3>1 DEF Asked
  <2>3. src \in Asked'
    <3>1. Len(given) + 1 \in 1..Len(given')
      BY <1>3
    <3> QED BY <1>1, <1>3, <3>1 DEF Asked
  <2> QED BY <2>1, <2>2, <2>3 DEF Asked
<1> QED BY <1>7, <1>8, <1>9, <1>10
-----------------------------------------------------------------------------
\* Source src is read in this step.
Reads(src) ==
  /\ \E text \in Held, a \in Assignment :
       NoEmpty(a) /\ Covers(a, text) /\ Assign(src, text, a)
  /\ UNCHANGED <<override, result>>

\* A step reads the source it stands for, or only looks at what was read.
LEMMA StepReads ==
  ASSUME [ConfigNext]_configVars
  PROVE  \/ /\ \/ step = "include" /\ step' = "device" /\ Reads("include")
               \/ step = "device" /\ step' = "choose" /\ Reads("device")
               \/ step = "rfc" /\ step' = "DCMSettings" /\ Reads("rfc")
               \/ step = "DCMSettings" /\ step' = "fallback" /\ Reads("DCMSettings")
               \/ step = "fallback" /\ step' = "validate" /\ (Reads("opt") \/ Reads("etc"))
         \/ \E exists \in BOOLEAN : ChooseSources(exists)
         \/ NoFallback \/ Validate \/ UNCHANGED configVars
<1>1. ASSUME NEW origin, NEW next, ParseProperties(origin, next)
      PROVE  step = origin /\ step' = next /\ Reads(origin)
  BY <1>1, TextIsHeld, ParsedAssigns, ConfigAssumption DEF ParseProperties, Reads
<1>2. ASSUME QueryRfc PROVE step = "rfc" /\ step' = "DCMSettings" /\ Reads("rfc")
  BY <1>2, RfcAssigns DEF QueryRfc, Reads
<1>3. ASSUME ParseDcmSettings PROVE step = "DCMSettings" /\ step' = "fallback" /\ Reads("DCMSettings")
  BY <1>3, TextIsHeld, ParsedAssigns, ConfigAssumption DEF ParseDcmSettings, Reads
<1>4. ASSUME NEW exists \in BOOLEAN, ParseFallback(exists)
      PROVE  step = "fallback" /\ step' = "validate" /\ (Reads("opt") \/ Reads("etc"))
  <2>1. PICK src \in {"opt", "etc"} : src = IF OffProd /\ exists THEN "opt" ELSE "etc"
    OBVIOUS
  <2>2. Reads(src)
    BY <1>4, <2>1, TextIsHeld, ParsedAssigns, ConfigAssumption DEF ParseFallback, Reads
  <2> QED BY <1>4, <2>2 DEF ParseFallback
<1> QED BY <1>1, <1>2, <1>3, <1>4 DEF ConfigNext

LEMMA NextFInv == FInv /\ [ConfigNext]_configVars => FInv'
<1> SUFFICES ASSUME FInv, [ConfigNext]_configVars PROVE FInv'
  OBVIOUS
<1> USE DEF FInv
<1>1. ASSUME NEW src \in From \ {"none", "default"}, Reads(src)
      PROVE  /\ ConfigType' /\ LeavesValue' /\ Asked' = Asked \union {src}
             /\ \A f \in Field : config[f].value # "" => config'[f].value # ""
             /\ UNCHANGED <<override, result>>
  BY <1>1, AssignTakes DEF Reads
<1>2. From \ {"none", "default"} = {"include", "device", "rfc", "DCMSettings", "opt", "etc"}
  BY DEF From
<1>3. ASSUME NEW src \in From \ {"none", "default"}, Reads(src),
             \/ step = "include" /\ step' = "device" /\ src = "include"
             \/ step = "device" /\ step' = "choose" /\ src = "device"
             \/ step = "rfc" /\ step' = "DCMSettings" /\ src = "rfc"
             \/ step = "DCMSettings" /\ step' = "fallback" /\ src = "DCMSettings"
             \/ step = "fallback" /\ step' = "validate" /\ src \in {"opt", "etc"}
      PROVE  FInv'
  <2>1. /\ ConfigType' /\ LeavesValue' /\ Asked' = Asked \union {src}
        /\ UNCHANGED <<override, result>>
    BY <1>1, <1>3
  <2>2. GoneThrough'
    BY <1>3, <2>1 DEF GoneThrough
  <2>3. Judged'
    BY <1>3, <2>1 DEF Judged
  <2> QED BY <2>1, <2>2, <2>3
<1>4. ASSUME NEW exists \in BOOLEAN, ChooseSources(exists) PROVE FInv'
  <2>1. /\ UNCHANGED <<config, given, result>> /\ step = "choose"
        /\ step' = IF override' THEN "fallback" ELSE "rfc"
    BY <1>4 DEF ChooseSources
  <2>2. ConfigType' /\ LeavesValue' /\ Asked' = Asked
    BY <2>1 DEF ConfigType, LeavesValue, Offered, Asked
  <2>3. GoneThrough' /\ Judged'
    BY <2>1, <2>2 DEF GoneThrough, Judged
  <2> QED BY <2>2, <2>3
<1>5. CASE NoFallback \/ Validate \/ UNCHANGED configVars
  <2>1. /\ UNCHANGED <<config, given, override>>
        /\ \/ step = "fallback" /\ step' = "validate" /\ ~NeedsFallback /\ result' = result
           \/ step = "validate" /\ step' = "loaded"
           \/ step' = step /\ result' = result
    BY <1>5 DEF NoFallback, Validate, configVars
  <2>2. result' = result \/ (Validate /\ step' = "loaded")
    BY <1>5 DEF NoFallback, Validate, configVars
  <2>3. Validate => /\ result' \in {"0", "-2", "-3"}
                    /\ result' = "-2" => ~IsSet("LOG_SERVER")
                    /\ result' = "-3" => ~IsSet("HTTP_UPLOAD_LINK")
    BY DEF Validate
  <2>4. ConfigType' /\ LeavesValue' /\ Asked' = Asked /\ NeedsFallback' = NeedsFallback
    BY <2>1, <2>2, <2>3 DEF ConfigType, LeavesValue, Offered, Asked, NeedsFallback, IsSet
  <2>5. GoneThrough'
    BY <2>1, <2>4 DEF GoneThrough
  <2>6. Judged'
    BY <2>1, <2>2, <2>3 DEF Judged, IsSet
  <2> QED BY <2>4, <2>5, <2>6
<1> QED BY <1>2, <1>3, <1>4, <1>5, StepReads

LEMMA InitFInv == ConfigInit => FInv
<1> SUFFICES ASSUME ConfigInit PROVE FInv
  OBVIOUS
<1>1. given = <<>> /\ step = "include" /\ result = "none"
  BY DEF ConfigInit
<1>2. config \in [Field -> [from : From, value : Value]]
  BY DEF ConfigInit, Unset, From, Value
<1> QED BY <1>1, <1>2 DEF FInv, ConfigType, LeavesValue, GoneThrough, Judged

LEMMA ConfigAlways == ConfigSpec => []FInv
  BY InitFInv, NextFInv, PTL DEF ConfigSpec

-----------------------------------------------------------------------------
(***************************************************************************)
(* The theorems.                                                           *)
(***************************************************************************)

\* rrd_config_load() fails only after every source, for want of a field that
\* none of them held.
THEOREM FailsOnlyForWant == ConfigSpec => []FailureIsReal
<1>1. FInv => FailureIsReal
  <2> SUFFICES ASSUME FInv, result \in {"-2", "-3"}
               PROVE  LET missing == IF result = "-2" THEN "LOG_SERVER" ELSE "HTTP_UPLOAD_LINK"
                      IN /\ \A i \in 1..Len(given) : ~Offered(given[i], missing)
                         /\ {"include", "device"} \subseteq Asked
                         /\ ~override => {"rfc", "DCMSettings"} \subseteq Asked
                         /\ {"opt", "etc"} \intersect Asked # {}
    BY DEF FailureIsReal, Asked
  <2>1. step = "loaded" /\ NeedsFallback
    BY DEF FInv, Judged, NeedsFallback
  <2>2. /\ {"include", "device"} \subseteq Asked
        /\ ~override => {"rfc", "DCMSettings"} \subseteq Asked
        /\ {"opt", "etc"} \intersect Asked # {}
    BY <2>1 DEF FInv, GoneThrough
  <2>3. \A i \in 1..Len(given) :
          ~Offered(given[i], IF result = "-2" THEN "LOG_SERVER" ELSE "HTTP_UPLOAD_LINK")
    BY DEF FInv, Judged, LeavesValue, Needed, IsSet
  <2> QED BY <2>2, <2>3
<1> QED BY <1>1, ConfigAlways, PTL

\* No step of rrd_config_load() empties a field that has a value.
THEOREM NoValueIsLost == ConfigSpec => ValuesKept
<1>1. ASSUME FInv, [ConfigNext]_configVars, NEW f \in Field, config[f].value # ""
      PROVE  config'[f].value # ""
  <2>1. ASSUME NEW src \in From, Reads(src) PROVE config'[f].value # ""
    BY <1>1, <2>1, AssignTakes DEF FInv, Reads
  <2>2. ASSUME \/ \E exists \in BOOLEAN : ChooseSources(exists)
               \/ NoFallback \/ Validate \/ UNCHANGED configVars
        PROVE  config' = config
    BY <2>2 DEF ChooseSources, NoFallback, Validate, configVars
  <2>3. {"include", "device", "rfc", "DCMSettings", "opt", "etc"} \subseteq From
    BY DEF From
  <2> QED BY <1>1, <2>1, <2>2, <2>3, StepReads
<1>2. FInv /\ [ConfigNext]_configVars =>
        [\A f \in Field : config[f].value # "" => config'[f].value # ""]_configVars
  BY <1>1
<1> QED BY <1>2, ConfigAlways, PTL DEF ConfigSpec, ValuesKept
-----------------------------------------------------------------------------
(***************************************************************************)
(* RrdTar.  A failed archive is torn because two blocks of zeros are never *)
(* together but at its end (TornInv); a good one gives everything back     *)
(* because the walk comes by every entry once (WalkInv) and what it wrote  *)
(* is laid out as the reader looks for it (Sound).                         *)
(***************************************************************************)

\* The bytes of archives: what headers say, and where bytes of files are from.
HeaderOf == [name : {"whole", "cut"} \X (Entry \union {Root}), type : {"0", "5"}, size : Nat]
HeaderByte == {<<"header", h, k>> : h \in HeaderOf, k \in 1..Block}
FileByte == {<<"file", f, k>> : f \in RegFile, k \in Nat}
Byte == {<<"zero">>} \union HeaderByte \union FileByte

LEMMA HeaderByteType ==
  ASSUME NEW h, NEW k, <<"header", h, k>> \in Byte
  PROVE  h \in HeaderOf
<1>1. <<"header", h, k>> # <<"zero">>
  OBVIOUS
<1>2. <<"header", h, k>> \notin FileByte
  BY DEF FileByte
<1>3. PICK g \in HeaderOf, j \in 1..Block : <<"header", h, k>> = <<"header", g, j>>
  BY <1>1, <1>2 DEF Byte, HeaderByte
<1> QED BY <1>3

LEMMA PaddingType ==
  ASSUME NEW n \in Nat
  PROVE  Padding(n) \in 0..(Block - 1)
<1>1. Block \in Nat /\ Block > 0
  BY TarAssumption
<1>2. n % Block \in 0..(Block - 1)
  BY <1>1
<1>3. Block - (n % Block) \in Nat
  BY <1>1, <1>2
<1> QED BY <1>1, <1>3 DEF Padding

\* A block that is a header says how far it is to the next one.
LEMMA HeaderReads ==
  ASSUME NEW s \in Seq(Byte), NEW p \in Nat, p + Block <= Len(s), IsHeader(BlockAt(s, p))
  PROVE  LET h == BlockAt(s, p)[1][2]
         IN h \in HeaderOf /\ p + Block + h.size + Padding(h.size) \in Nat
            /\ p + Block + h.size + Padding(h.size) > p
            /\ h.size \in Nat
<1> DEFINE b == BlockAt(s, p)
           h == b[1][2]
<1>1. Block \in Nat /\ Block > 0 /\ Len(s) \in Nat
  BY TarAssumption
<1>2. b \in Seq(Byte) /\ Len(b) = Block
  <2>1. p + 1 \in 1..Len(s) /\ p + Block \in 1..Len(s)
    BY <1>1
  <2> QED BY <1>1, <2>1 DEF BlockAt
<1>3. b[1] \in Byte /\ b = HeaderBytes(h)
  <2>1. b = HeaderBytes(h)
    BY DEF IsHeader
  <2> HIDE DEF b
  <2>2. b[1] \in Byte
    BY <1>1, <1>2
  <2> QED BY <2>1, <2>2
<1> HIDE DEF b
<1>4. HeaderBytes(h)[1] = <<"header", h, 1>>
  <2> HIDE DEF h
  <2> QED BY <1>1 DEF HeaderBytes
<1>5. <<"header", h, 1>> \in Byte
  BY <1>3, <1>4
<1>6. h \in HeaderOf
  <2> HIDE DEF h
  <2> QED BY <1>5, HeaderByteType
<1> HIDE DEF h
<1>7. h.size \in Nat
  BY <1>6 DEF HeaderOf
<1>8. Padding(h.size) \in Nat
  <2>1. Padding(h.size) \in 0..(Block - 1)
    BY <1>7, PaddingType
  <2> QED BY <1>1, <2>1
<1> QED BY <1>1, <1>6, <1>7, <1>8 DEF b, h

\* The reader, from each place of s on.
ReadFrom(s) ==
  CHOOSE from :
    from = [p \in 0..Len(s) |->
              IF HeaderAt(s, p) /\ NextAt(s, p) <= Len(s)
              THEN <<ItemAt(s, p)>> \o from[NextAt(s, p)]
              ELSE IF EndAt(s, p) THEN <<"end">>
              ELSE <<"torn">>]

GoesOn(s, p) == HeaderAt(s, p) /\ NextAt(s, p) <= Len(s)
LeafAt(s, p) == IF EndAt(s, p) THEN <<"end">> ELSE <<"torn">>
Items(s) == {"torn", "end"} \union {ItemAt(s, p) : p \in 0..Len(s)}
Readings(s) == {x \in Seq(Items(s)) : Len(x) > 0}

LEMMA GoesOnForward ==
  ASSUME NEW s \in Seq(Byte), NEW p \in 0..Len(s), GoesOn(s, p)
  PROVE  NextAt(s, p) \in (p + 1)..Len(s)
<1>1. Len(s) \in Nat /\ Block \in Nat /\ Block > 0
  BY TarAssumption
<1>2. p \in Nat /\ p + Block <= Len(s) /\ IsHeader(BlockAt(s, p)) /\ NextAt(s, p) <= Len(s)
  BY <1>1 DEF GoesOn, HeaderAt
<1>3. NextAt(s, p) \in Nat /\ NextAt(s, p) > p
  BY <1>2, HeaderReads DEF NextAt
<1> QED BY <1>1, <1>2, <1>3

LEMMA ReadFromFacts ==
  ASSUME NEW s \in Seq(Byte)
  PROVE  /\ Extract(s) = ReadFrom(s)[0]
         /\ \A p \in 0..Len(s) :
              ReadFrom(s)[p] = IF GoesOn(s, p) THEN <<ItemAt(s, p)>> \o ReadFrom(s)[NextAt(s, p)]
                               ELSE LeafAt(s, p)
<1> DEFINE N == Len(s)
           V == Readings(s)
           nxt == [p \in 0..N |-> IF GoesOn(s, p) THEN NextAt(s, p) ELSE 0]
           leaf == [p \in 0..N |-> LeafAt(s, p)]
           join == [x \in (0..N) \X V |-> <<ItemAt(s, x[1])>> \o x[2]]
           Val(f, p) == IF GoesOn(s, p) THEN <<ItemAt(s, p)>> \o f[NextAt(s, p)] ELSE LeafAt(s, p)
           Is(f) == f = [p \in 0..N |-> Val(f, p)]
<1>1. N \in Nat
  OBVIOUS
<1>2. \A p \in 0..N : nxt[p] = IF GoesOn(s, p) THEN NextAt(s, p) ELSE 0
  OBVIOUS
<1>3. \A p \in 0..N : GoesOn(s, p) => NextAt(s, p) \in (p + 1)..N /\ NextAt(s, p) \in 0..N
                                      /\ NextAt(s, p) # 0
  <2> SUFFICES ASSUME NEW p \in 0..N, GoesOn(s, p)
               PROVE  NextAt(s, p) \in (p + 1)..N /\ NextAt(s, p) \in 0..N /\ NextAt(s, p) # 0
    OBVIOUS
  <2>1. NextAt(s, p) \in (p + 1)..N
    BY GoesOnForward
  <2> QED BY <1>1, <2>1
<1>4. leaf \in [0..N -> V]
  <2>1. \A p \in 0..N : LeafAt(s, p) \in V
    BY DEF LeafAt, Readings, Items
  <2> QED BY <2>1
<1>5. join \in [(0..N) \X V -> V]
  <2>1. ASSUME NEW p \in 0..N, NEW x \in V PROVE <<ItemAt(s, p)>> \o x \in V
    <3>1. ItemAt(s, p) \in Items(s)
      BY DEF Items
    <3> QED BY <3>1 DEF Readings
  <2> HIDE DEF V
  <2> QED BY <2>1
<1>6. PICK g \in [0..N -> V] : Backwards(N, nxt, leaf, join, g)
  <2>1. \A p \in 0..N : nxt[p] = 0 \/ nxt[p] \in (p + 1)..N
    <3> HIDE DEF nxt
    <3> QED BY <1>2, <1>3
  <2> HIDE DEF N, V, nxt, leaf, join
  <2> QED BY <1>1, <1>4, <1>5, <2>1, BackwardsOnSet
<1>7. \A p \in 0..N : g[p] = Val(g, p)
  <2> SUFFICES ASSUME NEW p \in 0..N PROVE g[p] = Val(g, p)
    OBVIOUS
  <2>1. g[p] = IF nxt[p] = 0 THEN leaf[p] ELSE join[<<p, g[nxt[p]]>>]
    BY <1>6 DEF Backwards
  <2>2. leaf[p] = LeafAt(s, p)
    OBVIOUS
  <2>3. \A v \in V : join[<<p, v>>] = <<ItemAt(s, p)>> \o v
    OBVIOUS
  <2> HIDE DEF nxt, leaf, join, V, N
  <2>4. CASE GoesOn(s, p)
    <3>1. nxt[p] = NextAt(s, p) /\ NextAt(s, p) \in 0..N /\ nxt[p] # 0
      BY <1>2, <1>3, <2>4
    <3>2. g[NextAt(s, p)] \in V
      BY <3>1
    <3> QED BY <2>1, <2>3, <2>4, <3>1, <3>2
  <2>5. CASE ~GoesOn(s, p)
    BY <1>2, <2>1, <2>2, <2>5
  <2> QED BY <2>4, <2>5
<1>8. Is(g)
  <2>1. g = [p \in 0..N |-> g[p]]
    OBVIOUS
  <2> HIDE DEF Val
  <2> QED BY <1>7, <2>1
<1>9. Is(ReadFrom(s))
  BY <1>8, Zenon DEF ReadFrom, GoesOn, LeafAt
<1>10. \A p \in 0..N : ReadFrom(s)[p] = Val(ReadFrom(s), p)
  <2> HIDE DEF Val
  <2> QED BY <1>9
<1>11. Extract(s) = ReadFrom(s)[0]
  BY DEF Extract, ReadFrom
<1> QED BY <1>10, <1>11

LEMMA LastOfLonger ==
  ASSUME NEW S, NEW x \in S, NEW y \in Seq(S), Len(y) > 0
  PROVE  /\ <<x>> \o y \in Seq(S) /\ Len(<<x>> \o y) = Len(y) + 1
         /\ Last(<<x>> \o y) = Last(y)
<1> DEFINE z == <<x>> \o y
<1>1. z \in Seq(S) /\ Len(z) = Len(y) + 1 /\ \A k \in 1..Len(y) : z[k + 1] = y[k]
  OBVIOUS
<1>2. Len(y) \in 1..Len(y)
  OBVIOUS
<1> HIDE DEF z
<1>3. z[Len(z)] = y[Len(y)]
  BY <1>1, <1>2
<1>4. /\ z \in Seq(S) /\ Len(z) = Len(y) + 1
      /\ Last(z) = Last(y)
  BY <1>1, <1>3 DEF Last
<1> QED BY <1>4 DEF z

\* A file that nowhere holds two blocks of zeros is never a complete archive.
LEMMA NoEndTorn ==
  ASSUME NEW s \in Seq(Byte), \A p \in 0..Len(s) : ~EndAt(s, p)
  PROVE  ~Complete(s)
<1> DEFINE N == Len(s)
           R == ReadFrom(s)
           S == Items(s)
           P(p) == R[p] \in Seq(S) /\ Len(R[p]) > 0 /\ Last(R[p]) = "torn"
           T == {m \in Nat : \A p \in 0..N : p + m >= N => P(p)}
<1>0. N \in Nat
  OBVIOUS
<1>1. \A p \in 0..N : R[p] = IF GoesOn(s, p) THEN <<ItemAt(s, p)>> \o R[NextAt(s, p)]
                             ELSE <<"torn">>
  BY ReadFromFacts DEF LeafAt
<1>2. \A p \in 0..N : GoesOn(s, p) => NextAt(s, p) \in (p + 1)..N
  BY GoesOnForward
<1>3. ASSUME NEW p \in 0..N, ~GoesOn(s, p) PROVE P(p)
  <2>1. R[p] = <<"torn">> /\ "torn" \in S
    BY <1>1, <1>3 DEF Items
  <2> HIDE DEF R, S
  <2> QED BY <2>1 DEF Last
<1>4. ASSUME NEW p \in 0..N, GoesOn(s, p), P(NextAt(s, p)) PROVE P(p)
  <2> DEFINE x == ItemAt(s, p)
             y == R[NextAt(s, p)]
  <2>1. R[p] = <<x>> \o y
    BY <1>1, <1>4
  <2>2. x \in S
    BY DEF Items
  <2> HIDE DEF S, x, y
  <2>3. y \in Seq(S) /\ Len(y) > 0 /\ Last(y) = "torn"
    BY <1>4 DEF y
  <2> HIDE DEF R
  <2> QED BY <2>1, <2>2, <2>3, LastOfLonger
<1> HIDE DEF P, N, R
<1>5. 0 \in T
  <2> SUFFICES ASSUME NEW p \in 0..N, p + 0 >= N PROVE P(p)
    OBVIOUS
  <2>1. ~(\E q \in (p + 1)..N : TRUE)
    BY <1>0
  <2>2. ~GoesOn(s, p)
    BY <1>2, <2>1
  <2> QED BY <1>3, <2>2
<1>6. ASSUME NEW m \in Nat, m \in T PROVE m + 1 \in T
  <2> SUFFICES ASSUME NEW p \in 0..N, p + (m + 1) >= N PROVE P(p)
    OBVIOUS
  <2>1. CASE GoesOn(s, p)
    <3>1. NextAt(s, p) \in 0..N /\ NextAt(s, p) + m >= N
      BY <1>0, <1>2, <2>1
    <3>2. P(NextAt(s, p))
      BY <1>6, <3>1
    <3> QED BY <1>4, <2>1, <3>2
  <2>2. CASE ~GoesOn(s, p)
    BY <1>3, <2>2
  <2> QED BY <2>1, <2>2
<1>7. \A m \in Nat : m \in T
  <2> HIDE DEF T
  <2> QED BY <1>5, <1>6, InductionOnSet
<1>8. P(0)
  <2>1. N \in T
    <3> HIDE DEF T
    <3> QED BY <1>0, <1>7
  <2>2. 0 \in 0..N /\ 0 + N >= N
    BY <1>0
  <2> QED BY <2>1, <2>2
<1>9. Last(Extract(s)) = "torn"
  BY <1>8, ReadFromFacts DEF P, R
<1> QED BY <1>9 DEF Complete
-----------------------------------------------------------------------------
\* Every run of two blocks holds a byte that is no zero.
Zero == <<"zero">>
NoEnd(s) == \A p \in Nat : p + 2 * Block <= Len(s) => \E k \in 1..(2 * Block) : s[p + k] # Zero

\* At most m zeros are at the end of s.
EndsWithin(s, m) == \E q \in Nat : q <= Len(s) /\ Len(s) <= q + m /\ (q > 0 => s[q] # Zero)

LEMMA NoEndNowhere ==
  ASSUME NEW s \in Seq(Byte), NoEnd(s)
  PROVE  \A p \in 0..Len(s) : ~EndAt(s, p)
<1> SUFFICES ASSUME NEW p \in 0..Len(s), EndAt(s, p) PROVE FALSE
  OBVIOUS
<1> DEFINE n == 2 * Block
<1>1. n \in Nat /\ n > 0 /\ Len(s) \in Nat /\ p \in Nat
  <2>1. Block \in Nat /\ Block > 0
    BY TarAssumption
  <2> QED BY <2>1
<1>2. p + n <= Len(s) /\ SubSeq(s, p + 1, p + n) = Zeros(n)
  BY DEF EndAt
<1> HIDE DEF n
<1>3. PICK k \in 1..n : s[p + k] # Zero
  BY <1>1, <1>2 DEF NoEnd, n
<1>4. SubSeq(s, p + 1, p + n)[k] = s[p + k]
  BY <1>1, <1>2, <1>3
<1>5. Zeros(n)[k] = Zero
  BY <1>1, <1>3 DEF Zeros, Zero
<1> QED BY <1>2, <1>3, <1>4, <1>5

LEMMA NoEndReal ==
  ASSUME NEW s \in Seq(Byte), NEW t \in Seq(Byte), NoEnd(s), EndsWithin(s, Block - 1),
         \A k \in 1..Len(t) : t[k] # Zero
  PROVE  s \o t \in Seq(Byte) /\ NoEnd(s \o t) /\ (Len(t) > 0 => EndsWithin(s \o t, 0))
<1> DEFINE x == s \o t
<1>1. Block \in Nat /\ Block > 0 /\ Len(s) \in Nat /\ Len(t) \in Nat
  BY TarAssumption
<1>2. /\ x \in Seq(Byte) /\ Len(x) = Len(s) + Len(t)
      /\ \A k \in 1..Len(s) : x[k] = s[k]
      /\ \A k \in 1..Len(x) : k > Len(s) => x[k] = t[k - Len(s)]
  <2> HIDE DEF Byte
  <2> QED OBVIOUS
<1> HIDE DEF x
<1>3. NoEnd(x)
  <2> SUFFICES ASSUME NEW p \in Nat, p + 2 * Block <= Len(x)
               PROVE  \E k \in 1..(2 * Block) : x[p + k] # Zero
    BY DEF NoEnd
  <2>1. CASE p + 2 * Block <= Len(s)
    <3>1. PICK k \in 1..(2 * Block) : s[p + k] # Zero
      BY <2>1 DEF NoEnd
    <3>2. p + k \in 1..Len(s)
      BY <1>1, <2>1, <3>1
    <3>3. x[p + k] = s[p + k]
      BY <1>2, <3>2
    <3> QED BY <3>1, <3>3
  <2>2. CASE p + 2 * Block > Len(s)
    <3> DEFINE j == p + 2 * Block
    <3>1. j \in 1..Len(x) /\ j > Len(s) /\ j - Len(s) \in 1..Len(t)
      BY <1>1, <1>2, <2>2
    <3> HIDE DEF j
    <3>2. x[j] # Zero
      BY <1>2, <3>1
    <3>3. 2 * Block \in 1..(2 * Block)
      BY <1>1
    <3> QED BY <3>2, <3>3 DEF j
  <2> QED BY <1>1, <2>1, <2>2
<1>4. ASSUME Len(t) > 0 PROVE EndsWithin(x, 0)
  <2> DEFINE q == Len(x)
  <2>1. q \in Nat /\ q \in 1..Len(x) /\ q > Len(s) /\ q - Len(s) \in 1..Len(t) /\ q <= q + 0
    BY <1>1, <1>2, <1>4
  <2>2. x[q] # Zero
    <3> HIDE DEF q
    <3> QED BY <1>2, <2>1
  <2> QED BY <2>1, <2>2 DEF EndsWithin
<1>5. x \in Seq(Byte) /\ NoEnd(x) /\ (Len(t) > 0 => EndsWithin(x, 0))
  BY <1>2, <1>3, <1>4
<1> QED BY <1>5 DEF x

LEMMA NoEndZeros ==
  ASSUME NEW s \in Seq(Byte), NEW m \in Nat, NEW n \in Nat, NoEnd(s), EndsWithin(s, m),
         m + n < 2 * Block
  PROVE  s \o Zeros(n) \in Seq(Byte) /\ NoEnd(s \o Zeros(n)) /\ EndsWithin(s \o Zeros(n), m + n)
<1> DEFINE t == Zeros(n)
           x == s \o t
<1>1. Block \in Nat /\ Block > 0 /\ Len(s) \in Nat
  BY TarAssumption
<1>2. t \in Seq(Byte) /\ Len(t) = n
  <2>1. Zero \in Byte
    BY DEF Byte, Zero
  <2>2. t = [k \in 1..n |-> Zero]
    BY DEF Zeros, Zero
  <2> HIDE DEF Byte, t
  <2> QED BY <2>1, <2>2
<1> HIDE DEF t
<1>3. /\ x \in Seq(Byte) /\ Len(x) = Len(s) + n
      /\ \A k \in 1..Len(s) : x[k] = s[k]
  <2> HIDE DEF Byte
  <2> QED BY <1>2
<1> HIDE DEF x
<1>4. PICK q \in Nat : q <= Len(s) /\ Len(s) <= q + m /\ (q > 0 => s[q] # Zero)
  BY DEF EndsWithin
<1>5. q > 0 => x[q] # Zero
  <2> SUFFICES ASSUME q > 0 PROVE x[q] # Zero
    OBVIOUS
  <2>1. q \in 1..Len(s)
    BY <1>1, <1>4
  <2> QED BY <1>3, <1>4, <2>1
<1>6. EndsWithin(x, m + n)
  <2>1. q <= Len(x) /\ Len(x) <= q + (m + n)
    BY <1>1, <1>3, <1>4
  <2> QED BY <1>5, <2>1 DEF EndsWithin
<1>7. NoEnd(x)
  <2> SUFFICES ASSUME NEW p \in Nat, p + 2 * Block <= Len(x)
               PROVE  \E k \in 1..(2 * Block) : x[p + k] # Zero
    BY DEF NoEnd
  <2>1. CASE p + 2 * Block <= Len(s)
    <3>1. PICK k \in 1..(2 * Block) : s[p + k] # Zero
      BY <2>1 DEF NoEnd
    <3>2. p + k \in 1..Len(s)
      BY <1>1, <2>1, <3>1
    <3>3. x[p + k] = s[p + k]
      BY <1>3, <3>2
    <3> QED BY <3>1, <3>3
  <2>2. CASE p + 2 * Block > Len(s)
    <3>1. q - p \in 1..(2 * Block) /\ p + (q - p) = q /\ q > 0
      BY <1>1, <1>3, <1>4, <2>2
    <3>2. x[p + (q - p)] # Zero
      BY <1>5, <3>1
    <3> QED BY <3>1, <3>2
  <2> QED BY <1>1, <2>1, <2>2
<1>8. x \in Seq(Byte) /\ NoEnd(x) /\ EndsWithin(x, m + n)
  BY <1>3, <1>6, <1>7
<1> QED BY <1>8 DEF x, t

LEMMA NoEndPrefix ==
  ASSUME NEW s \in Seq(Byte), NoEnd(s), NEW n \in 0..Len(s)
  PROVE  SubSeq(s, 1, n) \in Seq(Byte) /\ NoEnd(SubSeq(s, 1, n))
<1> DEFINE x == SubSeq(s, 1, n)
<1>1. Block \in Nat /\ Block > 0 /\ Len(s) \in Nat /\ n \in Nat
  BY TarAssumption
<1>2. x \in Seq(Byte) /\ Len(x) = n /\ \A k \in 1..n : x[k] = s[k]
  <2> HIDE DEF Byte
  <2> QED BY <1>1
<1> HIDE DEF x
<1>3. NoEnd(x)
  <2> SUFFICES ASSUME NEW p \in Nat, p + 2 * Block <= Len(x)
               PROVE  \E k \in 1..(2 * Block) : x[p + k] # Zero
    BY DEF NoEnd
  <2>1. p + 2 * Block <= Len(s)
    BY <1>1, <1>2
  <2>2. PICK k \in 1..(2 * Block) : s[p + k] # Zero
    BY <2>1 DEF NoEnd
  <2>3. p + k \in 1..n
    BY <1>1, <1>2
  <2> QED BY <1>2, <2>2, <2>3
<1> QED BY <1>2, <1>3 DEF x

LEMMA HeaderBytesReal ==
  ASSUME NEW h \in HeaderOf
  PROVE  /\ HeaderBytes(h) \in Seq(Byte) /\ Len(HeaderBytes(h)) = Block
         /\ \A k \in 1..Block : HeaderBytes(h)[k] # Zero /\ HeaderBytes(h)[k] = <<"header", h, k>>
<1>1. Block \in Nat
  BY TarAssumption
<1>2. \A k \in 1..Block : <<"header", h, k>> \in Byte
  BY DEF Byte, HeaderByte
<1>3. \A k \in 1..Block : <<"header", h, k>> # Zero
  BY DEF Zero
<1> HIDE DEF Byte
<1> QED BY <1>1, <1>2, <1>3 DEF HeaderBytes

LEMMA FileBytesReal ==
  ASSUME NEW f \in RegFile, NEW a \in Nat, NEW b \in Nat, a <= b
  PROVE  /\ FileBytes(f, a, b) \in Seq(Byte) /\ Len(FileBytes(f, a, b)) = b - a
         /\ \A k \in 1..(b - a) :
              FileBytes(f, a, b)[k] # Zero /\ FileBytes(f, a, b)[k] = <<"file", f, a + k>>
<1>1. b - a \in Nat
  OBVIOUS
<1>2. \A k \in 1..(b - a) : <<"file", f, a + k>> \in Byte
  <2>1. \A k \in 1..(b - a) : a + k \in Nat
    OBVIOUS
  <2> QED BY <2>1 DEF Byte, FileByte
<1>3. \A k \in 1..(b - a) : <<"file", f, a + k>> # Zero
  BY DEF Zero
<1> HIDE DEF Byte
<1> QED BY <1>1, <1>2, <1>3 DEF FileBytes
-----------------------------------------------------------------------------
Frame == [dir : Entry \union {Root}, todo : SUBSET Entry]

TarType ==
  /\ tarStep \in {"open", "scan", "body", "close", "closed"}
  /\ stack \in Seq(Frame)
  /\ nameLen \in [Entry \union {Root} -> Nat]
  /\ size \in [RegFile -> Nat] /\ statted \in [RegFile -> Nat] /\ off \in Nat
  /\ (tarStep = "body" => file \in RegFile)
  /\ stream \in Seq(Byte) /\ onDisk \in Seq(Byte)
  /\ rc \in {0, -1}

\* An archive is never ended but by EndArchive(2).
TornInv ==
  /\ (tarStep = "open" => stream = <<>>)
  /\ (tarStep # "closed" => onDisk = <<>> /\ tarResult = "none")
  /\ (tarStep = "scan" => NoEnd(stream) /\ EndsWithin(stream, Block - 1))
  /\ (tarStep = "body" => NoEnd(stream) /\ EndsWithin(stream, 0))
  /\ (tarStep = "close" /\ rc # 0 => NoEnd(stream))
  /\ (tarResult \in {"-2", "-3"} => NoEnd(onDisk))

LEMMA NoEndEmpty == NoEnd(<<>>) /\ EndsWithin(<<>>, Block - 1) /\ <<>> \in Seq(Byte)
<1>1. Block \in Nat /\ Block > 0
  BY TarAssumption
<1>2. NoEnd(<<>>)
  BY <1>1 DEF NoEnd
<1>3. EndsWithin(<<>>, Block - 1)
  <2>1. 0 \in Nat /\ 0 <= Len(<<>>) /\ Len(<<>>) <= 0 + (Block - 1) /\ ~(0 > 0)
    BY <1>1
  <2> QED BY <2>1 DEF EndsWithin
<1> QED BY <1>2, <1>3

LEMMA HeaderWritten ==
  ASSUME TarType, NEW e \in Entry \union {Root}, NEW type \in {"0", "5"}, NEW n \in Nat,
         NoEnd(stream), EndsWithin(stream, Block - 1), WriteHeader(e, type, n)
  PROVE  stream' \in Seq(Byte) /\ NoEnd(stream') /\ EndsWithin(stream', 0)
<1> DEFINE h == Header(e, type, n)
<1>1. h \in HeaderOf
  BY DEF Header, HeaderName, HeaderOf
<1> HIDE DEF h
<1> DEFINE t == HeaderBytes(h)
<1>2. t \in Seq(Byte) /\ Len(t) = Block /\ \A k \in 1..Len(t) : t[k] # Zero
  BY <1>1, HeaderBytesReal
<1>3. stream' = stream \o t
  BY DEF WriteHeader, h
<1>4. Len(t) > 0
  BY <1>2, TarAssumption
<1> HIDE DEF t
<1> QED BY <1>2, <1>3, <1>4, NoEndReal DEF TarType

LEMMA EndsWithinMore ==
  ASSUME NEW s \in Seq(Byte), NEW m \in Nat, NEW n \in Nat, m <= n, EndsWithin(s, m)
  PROVE  EndsWithin(s, n)
<1>1. PICK q \in Nat : q <= Len(s) /\ Len(s) <= q + m /\ (q > 0 => s[q] # Zero)
  BY DEF EndsWithin
<1>2. Len(s) <= q + n
  <2>1. Len(s) \in Nat
    OBVIOUS
  <2> QED BY <1>1, <2>1
<1> QED BY <1>1, <1>2 DEF EndsWithin

LEMMA RemovedTodo ==
  ASSUME TarType, stack # <<>>, NEW e
  PROVE  /\ Visited(e) \in Seq(Frame) /\ Front(stack) \in Seq(Frame)
         /\ stack[Len(stack)] \in Frame /\ Len(stack) \in 1..Len(stack)
         /\ Todo \subseteq Entry
<1>1. stack \in Seq(Frame) /\ Len(stack) \in Nat /\ Len(stack) > 0
  BY DEF TarType
<1>2. Len(stack) \in 1..Len(stack)
  BY <1>1
<1>3. stack[Len(stack)] \in Frame
  BY <1>1, <1>2
<1>4. [stack[Len(stack)] EXCEPT !.todo = @ \ {e}] \in Frame
  BY <1>3 DEF Frame
<1>5. Visited(e) \in Seq(Frame)
  <2> HIDE DEF Frame
  <2> QED BY <1>1, <1>4 DEF Visited
<1>6. Front(stack) \in Seq(Frame)
  <2> HIDE DEF Frame
  <2> QED BY <1>1 DEF Front
<1>7. Todo \subseteq Entry
  BY <1>3 DEF Todo, Frame
<1> QED BY <1>2, <1>3, <1>5, <1>6, <1>7

LEMMA TarInitially == TarInit => TarType /\ TornInv
<1> SUFFICES ASSUME TarInit PROVE TarType /\ TornInv
  OBVIOUS
<1>1. TarType
  <2>0. NameLens \subseteq [Entry \union {Root} -> Nat] /\ MaxSize \in Nat
    BY TarAssumption
  <2>1. nameLen \in [Entry \union {Root} -> Nat] /\ 0..MaxSize \subseteq Nat
    <3>1. nameLen \in NameLens
      BY DEF TarInit
    <3>2. 0..MaxSize \subseteq Nat
      BY <2>0
    <3> QED BY <2>0, <3>1, <3>2
  <2>2. size \in [RegFile -> Nat] /\ statted \in [RegFile -> Nat]
    BY <2>1 DEF TarInit
  <2>3. stack \in Seq(Frame) /\ stream \in Seq(Byte) /\ onDisk \in Seq(Byte)
    BY NoEndEmpty DEF TarInit
  <2> QED BY <2>1, <2>2, <2>3 DEF TarInit, TarType
<1>2. TornInv
  BY DEF TarInit, TornInv
<1> QED BY <1>1, <1>2

LEMMA TarSteps == TarType /\ TornInv /\ [TarNext]_tarVars => TarType' /\ TornInv'
<1> SUFFICES ASSUME TarType, TornInv, [TarNext]_tarVars PROVE TarType' /\ TornInv'
  OBVIOUS
<1> USE DEF fsVars
<1>0. Block \in Nat /\ Block > 0 /\ DirSize \in Nat /\ Root \in Dir
  BY TarAssumption
<1>1. ASSUME NEW f \in RegFile, ChangeFile(f) PROVE TarType' /\ TornInv'
  <2>1. size' \in [RegFile -> Nat]
    <3>1. size \in [RegFile -> Nat] /\ size[f] \in Nat
      BY DEF TarType
    <3>2. \/ size' = [size EXCEPT ![f] = size[f] + 1]
          \/ size' = [size EXCEPT ![f] = 0]
      BY <1>1 DEF ChangeFile
    <3>3. size[f] + 1 \in Nat
      BY <3>1
    <3> QED BY <3>1, <3>2, <3>3
  <2>2. TarType'
    BY <1>1, <2>1 DEF ChangeFile, TarType
  <2>3. TornInv'
    BY <1>1 DEF ChangeFile, TornInv
  <2> QED BY <2>2, <2>3
<1>2. CASE OpenArchive
  <2>1. stack' \in Seq(Frame)
    <3>1. Children[Root] \subseteq Entry
      BY <1>0 DEF Entry, Dir
    <3>2. [dir |-> Root, todo |-> Children[Root]] \in Frame
      BY <3>1 DEF Frame
    <3> HIDE DEF Frame
    <3> QED BY <1>2, <3>2 DEF OpenArchive
  <2>2. TarType'
    BY <1>2, <2>1 DEF OpenArchive, TarType
  <2>3. TornInv'
    BY <1>2, NoEndEmpty DEF OpenArchive, TornInv
  <2> QED BY <2>2, <2>3
<1>3. CASE OpenArchiveFails
  <2>1. TarType'
    BY <1>3 DEF OpenArchiveFails, TarType
  <2>2. TornInv'
    BY <1>3, NoEndEmpty DEF OpenArchiveFails, TornInv
  <2> QED BY <2>1, <2>2
<1>4. ASSUME NEW e \in Entry, EnterDir(e) PROVE TarType' /\ TornInv'
  <2>1. stream' \in Seq(Byte) /\ NoEnd(stream') /\ EndsWithin(stream', 0)
    <3>1. NoEnd(stream) /\ EndsWithin(stream, Block - 1) /\ WriteHeader(e, "5", 0)
      BY <1>4 DEF EnterDir, TornInv
    <3> QED BY <3>1, HeaderWritten
  <2>2. EndsWithin(stream', Block - 1)
    <3>1. Block - 1 \in Nat /\ 0 <= Block - 1
      BY <1>0
    <3> QED BY <2>1, <3>1, EndsWithinMore
  <2>3. stack' \in Seq(Frame)
    <3>1. e \in Dir /\ stack # <<>>
      BY <1>4 DEF EnterDir
    <3>2. Children[e] \subseteq Entry
      BY <3>1 DEF Entry
    <3>3. [dir |-> e, todo |-> Children[e]] \in Frame
      BY <3>2 DEF Frame
    <3>4. Visited(e) \in Seq(Frame)
      BY <3>1, RemovedTodo
    <3> HIDE DEF Frame
    <3> QED BY <1>4, <3>3, <3>4 DEF EnterDir
  <2>4. TarType'
    BY <1>4, <2>1, <2>3 DEF EnterDir, TarType
  <2>5. TornInv'
    BY <1>4, <2>1, <2>2 DEF EnterDir, TornInv
  <2> QED BY <2>4, <2>5
<1>5. ASSUME NEW e \in Entry, StartFile(e) PROVE TarType' /\ TornInv'
  <2>0. e \in RegFile /\ stack # <<>>
    BY <1>5 DEF StartFile
  <2>1. stream' \in Seq(Byte) /\ NoEnd(stream') /\ EndsWithin(stream', 0)
    <3>1. NoEnd(stream) /\ EndsWithin(stream, Block - 1) /\ WriteHeader(e, "0", size[e])
      BY <1>5 DEF StartFile, TornInv
    <3>2. size[e] \in Nat
      BY <2>0 DEF TarType
    <3> QED BY <3>1, <3>2, HeaderWritten
  <2>2. stack' \in Seq(Frame)
    BY <1>5, <2>0, RemovedTodo DEF StartFile
  <2>3. statted' \in [RegFile -> Nat]
    BY <1>5, <2>0 DEF StartFile, TarType
  <2>4. TarType'
    BY <1>5, <2>0, <2>1, <2>2, <2>3 DEF StartFile, TarType
  <2>5. TornInv'
    BY <1>5, <2>1 DEF StartFile, TornInv
  <2> QED BY <2>4, <2>5
<1>6. ASSUME NEW e \in Entry, SkipSpecial(e) PROVE TarType' /\ TornInv'
  <2>1. stack' \in Seq(Frame)
    BY <1>6, RemovedTodo DEF SkipSpecial
  <2>2. TarType'
    BY <1>6, <2>1 DEF SkipSpecial, TarType
  <2>3. TornInv'
    BY <1>6 DEF SkipSpecial, TornInv
  <2> QED BY <2>2, <2>3
<1>7. CASE OpendirFails
  <2> DEFINE d == stack[Len(stack)].dir
  <2>1. stack # <<>> /\ WriteHeader(d, "0", DirSize)
    BY <1>7 DEF OpendirFails
  <2>2. d \in Entry \union {Root}
    BY <2>1, RemovedTodo DEF Frame
  <2> HIDE DEF d
  <2>3. stream' \in Seq(Byte) /\ NoEnd(stream') /\ EndsWithin(stream', 0)
    <3>1. NoEnd(stream) /\ EndsWithin(stream, Block - 1)
      BY <1>7 DEF OpendirFails, TornInv
    <3> QED BY <1>0, <2>1, <2>2, <3>1, HeaderWritten
  <2>4. EndsWithin(stream', Block - 1)
    <3>1. Block - 1 \in Nat /\ 0 <= Block - 1
      BY <1>0
    <3> QED BY <2>3, <3>1, EndsWithinMore
  <2>5. stack' \in Seq(Frame)
    BY <1>7, RemovedTodo DEF OpendirFails
  <2>6. TarType'
    BY <1>7, <2>3, <2>5 DEF OpendirFails, TarType
  <2>7. TornInv'
    BY <1>7, <2>3, <2>4 DEF OpendirFails, TornInv
  <2> QED BY <2>6, <2>7
<1>8. CASE ReadChunk
  <2> DEFINE b == size[file]
             t == FileBytes(file, off, b)
  <2>1. file \in RegFile /\ b \in Nat /\ off \in Nat /\ off < b
    BY <1>8 DEF ReadChunk, TarType
  <2>2. t \in Seq(Byte) /\ Len(t) > 0 /\ \A k \in 1..Len(t) : t[k] # Zero
    <3> HIDE DEF b
    <3>1. off <= b /\ b - off \in Nat /\ b - off > 0
      BY <2>1
    <3>2. t \in Seq(Byte) /\ Len(t) = b - off /\ \A k \in 1..(b - off) : t[k] # Zero
      BY <2>1, <3>1, FileBytesReal
    <3> HIDE DEF t
    <3> QED BY <3>1, <3>2
  <2>3. stream' = stream \o t /\ off' = b
    BY <1>8 DEF ReadChunk
  <2> HIDE DEF t, b
  <2>4. stream' \in Seq(Byte) /\ NoEnd(stream') /\ EndsWithin(stream', 0)
    <3>1. stream \in Seq(Byte) /\ NoEnd(stream) /\ EndsWithin(stream, 0)
      BY <1>8 DEF ReadChunk, TornInv, TarType
    <3>2. EndsWithin(stream, Block - 1)
      <4>1. Block - 1 \in Nat /\ 0 <= Block - 1
        BY <1>0
      <4> QED BY <3>1, <4>1, EndsWithinMore
    <3> QED BY <2>2, <2>3, <3>1, <3>2, NoEndReal
  <2>5. TarType'
    BY <1>8, <2>1, <2>3, <2>4 DEF ReadChunk, TarType
  <2>6. TornInv'
    BY <1>8, <2>4 DEF ReadChunk, TornInv
  <2> QED BY <2>5, <2>6
<1>9. CASE PadFile
  <2> DEFINE n == Padding(statted[file])
  <2>1. n \in Nat /\ n <= Block - 1 /\ 0 + n < 2 * Block
    <3>1. statted[file] \in Nat
      BY <1>9 DEF PadFile, TarType
    <3>2. n \in 0..(Block - 1)
      BY <3>1, PaddingType
    <3> HIDE DEF n
    <3> QED BY <1>0, <3>2
  <2>2. stream' = stream \o Zeros(n)
    BY <1>9 DEF PadFile
  <2> HIDE DEF n
  <2>3. stream' \in Seq(Byte) /\ NoEnd(stream') /\ EndsWithin(stream', n)
    <3>1. stream \in Seq(Byte) /\ NoEnd(stream) /\ EndsWithin(stream, 0)
      BY <1>9 DEF PadFile, TornInv, TarType
    <3>2. EndsWithin(stream', 0 + n) /\ stream' \in Seq(Byte) /\ NoEnd(stream')
      BY <2>1, <2>2, <3>1, NoEndZeros
    <3> QED BY <2>1, <3>2
  <2>4. EndsWithin(stream', Block - 1)
    <3>1. Block - 1 \in Nat
      BY <1>0
    <3> QED BY <2>1, <2>3, <3>1, EndsWithinMore
  <2>5. TarType'
    BY <1>9, <2>3 DEF PadFile, TarType
  <2>6. TornInv'
    BY <1>9, <2>3, <2>4 DEF PadFile, TornInv
  <2> QED BY <2>5, <2>6
<1>10. CASE LeaveDir
  <2>1. stack' \in Seq(Frame)
    BY <1>10, RemovedTodo DEF LeaveDir
  <2>2. TarType'
    BY <1>10, <2>1 DEF LeaveDir, TarType
  <2>3. TornInv'
    BY <1>10 DEF LeaveDir, TornInv
  <2> QED BY <2>2, <2>3
<1>11. CASE WalkFails
  <2>1. TarType'
    BY <1>11 DEF WalkFails, TarType
  <2>2. TornInv'
    BY <1>11 DEF WalkFails, TornInv
  <2> QED BY <2>1, <2>2
<1>12. ASSUME NEW n \in 0..2, EndArchive(n) PROVE TarType' /\ TornInv'
  <2> DEFINE z == n * Block
  <2>1. z \in Nat /\ (n # 2 => (Block - 1) + z < 2 * Block) /\ stream' = stream \o Zeros(z)
    <3>1. n = 0 \/ n = 1 \/ n = 2
      BY <1>12
    <3>2. z \in Nat /\ (n # 2 => (Block - 1) + z < 2 * Block)
      BY <1>0, <3>1
    <3> QED BY <1>12, <3>2 DEF EndArchive
  <2> HIDE DEF z
  <2>2. stream' \in Seq(Byte)
    <3>1. Zeros(z) \in Seq(Byte)
      <4>1. <<"zero">> \in Byte
        BY DEF Byte
      <4> HIDE DEF Byte
      <4> QED BY <2>1, <4>1 DEF Zeros
    <3> QED BY <2>1, <3>1 DEF TarType
  <2>3. n # 2 => NoEnd(stream')
    <3>1. stream \in Seq(Byte) /\ NoEnd(stream) /\ EndsWithin(stream, Block - 1) /\ Block - 1 \in Nat
      BY <1>0, <1>12 DEF EndArchive, TornInv, TarType
    <3> QED BY <2>1, <3>1, NoEndZeros
  <2>4. rc' \in {0, -1} /\ (rc' # 0 => n # 2)
    BY <1>12 DEF EndArchive
  <2>5. TarType'
    BY <1>12, <2>2, <2>4 DEF EndArchive, TarType
  <2>6. TornInv'
    BY <1>12, <2>3, <2>4 DEF EndArchive, TornInv
  <2> QED BY <2>5, <2>6
<1>13. ASSUME NEW n \in {0, Len(stream) \div 2, Len(stream)}, CloseArchive(n)
       PROVE  TarType' /\ TornInv'
  <2>0. stream \in Seq(Byte)
    BY DEF TarType
  <2>1. n \in 0..Len(stream)
    <3>1. Len(stream) \in Nat
      BY <2>0
    <3>2. Len(stream) \div 2 \in 0..Len(stream)
      BY <3>1
    <3> QED BY <3>1, <3>2
  <2>2. onDisk' = SubSeq(stream, 1, n)
    BY <1>13 DEF CloseArchive
  <2>3. onDisk' \in Seq(Byte)
    <3>1. n \in Nat /\ Len(stream) \in Nat /\ n <= Len(stream)
      BY <2>0, <2>1
    <3> QED BY <2>0, <2>2, <3>1
  <2>4. tarResult' \in {"-2", "-3"} => NoEnd(onDisk')
    <3>1. CASE n = 0
      <4>1. onDisk' = <<>>
        BY <2>0, <2>2, <3>1
      <4> QED BY <4>1, NoEndEmpty
    <3>2. CASE n # 0 /\ rc # 0
      <4>1. NoEnd(stream)
        BY <1>13, <3>2 DEF CloseArchive, TornInv
      <4> QED BY <2>0, <2>1, <2>2, <4>1, NoEndPrefix
    <3>3. CASE n # 0 /\ rc = 0
      BY <1>13, <3>3 DEF CloseArchive
    <3> QED BY <3>1, <3>2, <3>3
  <2>5. TarType'
    BY <1>13, <2>3 DEF CloseArchive, TarType
  <2>6. TornInv'
    BY <1>13, <2>4 DEF CloseArchive, TornInv
  <2> QED BY <2>5, <2>6
<1>14. CASE UNCHANGED tarVars
  <2>1. TarType'
    BY <1>14 DEF tarVars, TarType
  <2>2. TornInv'
    BY <1>14 DEF tarVars, TornInv
  <2> QED BY <2>1, <2>2
<1> QED BY <1>1, <1>2, <1>3, <1>4, <1>5, <1>6, <1>7, <1>8, <1>9, <1>10, <1>11, <1>12, <1>13,
           <1>14 DEF TarNext

\* rrd_archive_create() that reports a failure never leaves a complete archive
\* behind: only the end it writes after a whole walk holds two blocks of zeros.
THEOREM FailedAlwaysTorn == TarSpec => []FailedArchiveTorn
<1>1. TarType /\ TornInv => FailedArchiveTorn
  <2> SUFFICES ASSUME TarType, TornInv, tarResult \in {"-2", "-3"} PROVE ~Complete(onDisk)
    BY DEF FailedArchiveTorn
  <2>1. onDisk \in Seq(Byte) /\ NoEnd(onDisk)
    BY DEF TarType, TornInv
  <2> QED BY <2>1, NoEndNowhere, NoEndTorn
<1> QED BY <1>1, TarInitially, TarSteps, PTL DEF TarSpec
-----------------------------------------------------------------------------
(***************************************************************************)
(* The walk.  seen are the entries whose header was written: the calls on  *)
(* the stack have the rest of their directories still to come.             *)
(***************************************************************************)
Packed == Dir \union RegFile
Entered(seen) == {Root} \union (seen \intersect Dir)
ToCome(stk) == UNION {stk[f].todo : f \in 1..Len(stk)}

WalkInv(stk, seen) ==
  /\ \A f \in 1..Len(stk) : /\ stk[f].dir \in Entered(seen)
                            /\ stk[f].todo \subseteq Children[stk[f].dir] \ seen
  /\ \A f, g \in 1..Len(stk) : stk[f].dir = stk[g].dir => f = g
  /\ seen \subseteq Packed \ {Root}
  /\ \A c \in seen : \E d \in Entered(seen) : c \in Children[d]
  /\ \A d \in Entered(seen) : Children[d] \subseteq seen \union ToCome(stk) \union (Entry \ Packed)

LEMMA TreeFacts ==
  /\ Root \in Dir /\ Root \notin Entry
  /\ \A d, e \in Dir : \A c : c \in Children[d] /\ c \in Children[e] => d = e
  /\ \A d \in Dir : Children[d] \subseteq Entry
  /\ \A S \in SUBSET (Dir \union Entry) :
       Root \in S /\ (\A d \in S \intersect Dir : Children[d] \subseteq S) => S = Dir \union Entry
  /\ RegFile \subseteq Entry /\ RegFile \intersect Dir = {}
<1>1. \A d, e \in Dir : d # e => Children[d] \intersect Children[e] = {}
  BY TarAssumption
<1>2. \A d, e \in Dir : \A c : c \in Children[d] /\ c \in Children[e] => d = e
  BY <1>1
<1>3. \A d \in Dir : Children[d] \subseteq Entry
  BY DEF Entry
<1>4. \A S \in SUBSET (Dir \union Entry) :
       Root \in S /\ (\A d \in S \intersect Dir : Children[d] \subseteq S) => S = Dir \union Entry
  BY TarAssumption
<1>5. /\ Root \in Dir /\ Root \notin Entry
      /\ RegFile \subseteq Entry /\ RegFile \intersect Dir = {}
  BY TarAssumption
<1> QED BY <1>2, <1>3, <1>4, <1>5

LEMMA WalkStarts ==
  ASSUME NEW stk, stk = <<[dir |-> Root, todo |-> Children[Root]]>>
  PROVE  WalkInv(stk, {})
<1>1. Len(stk) = 1 /\ stk[1].dir = Root /\ stk[1].todo = Children[Root]
  OBVIOUS
<1>2. \A f \in 1..Len(stk) : f = 1
  BY <1>1
<1>3. 1 \in 1..Len(stk)
  BY <1>1
<1>4. ToCome(stk) = Children[Root]
  BY <1>1, <1>2, <1>3 DEF ToCome
<1>5. Entered({}) = {Root}
  BY DEF Entered
<1> QED BY <1>1, <1>2, <1>4, <1>5 DEF WalkInv

\* When all calls have returned, everything of the tree was written that ever is.
LEMMA WalkEnds ==
  ASSUME NEW seen, WalkInv(<<>>, seen)
  PROVE  seen = RegFile \union (Dir \ {Root})
<1> DEFINE S == {Root} \union seen \union (Entry \ Packed)
<1>1. ToCome(<<>>) = {}
  BY DEF ToCome
<1>2. /\ seen \subseteq Packed \ {Root}
      /\ \A d \in Entered(seen) : Children[d] \subseteq seen \union (Entry \ Packed)
  BY <1>1 DEF WalkInv
<1>3. S \in SUBSET (Dir \union Entry)
  BY <1>2, TreeFacts DEF Packed
<1>4. S \intersect Dir = Entered(seen)
  BY TreeFacts DEF Entered, Packed
<1>5. S = Dir \union Entry
  <2>1. Root \in S /\ \A d \in S \intersect Dir : Children[d] \subseteq S
    BY <1>2, <1>4
  <2> HIDE DEF S
  <2> QED BY <1>3, <2>1, TreeFacts
<1>6. ASSUME NEW c \in RegFile \union (Dir \ {Root}) PROVE c \in seen
  <2>1. c \in S /\ c \in Packed /\ c # Root
    BY <1>5, TreeFacts DEF Packed
  <2> QED BY <2>1
<1>7. ASSUME NEW c \in seen PROVE c \in RegFile \union (Dir \ {Root})
  BY <1>2 DEF Packed
<1> QED BY <1>6, <1>7

\* The calls after one entry was taken: its place changes alone.
Taken(stk, stk2, e) ==
  /\ Len(stk2) = Len(stk)
  /\ \A f \in 1..Len(stk) : /\ stk2[f].dir = stk[f].dir
                            /\ stk2[f].todo = IF f = Len(stk) THEN stk[f].todo \ {e}
                                              ELSE stk[f].todo

LEMMA VisitedTaken ==
  ASSUME TarType, stack # <<>>, NEW e
  PROVE  Taken(stack, Visited(e), e) /\ Visited(e) \in Seq(Frame) /\ Todo = stack[Len(stack)].todo
<1> DEFINE n == Len(stack)
           x == [stack[n] EXCEPT !.todo = @ \ {e}]
<1>1. stack \in Seq(Frame) /\ n \in Nat /\ n \in 1..n /\ stack[n] \in Frame
  BY RemovedTodo DEF TarType
<1>2. x.dir = stack[n].dir /\ x.todo = stack[n].todo \ {e}
  BY <1>1 DEF Frame
<1>3. Visited(e) = [stack EXCEPT ![n] = x]
  BY DEF Visited
<1> HIDE DEF x
<1>4. /\ Len(Visited(e)) = n
      /\ \A f \in 1..n : Visited(e)[f] = IF f = n THEN x ELSE stack[f]
  <2> HIDE DEF Frame
  <2> QED BY <1>1, <1>3
<1>5. Taken(stack, Visited(e), e)
  BY <1>1, <1>2, <1>4 DEF Taken
<1> QED BY <1>5, RemovedTodo DEF Todo

\* An entry of the last call is in no other one.
LEMMA TakenOnce ==
  ASSUME NEW stk \in Seq(Frame), NEW seen, WalkInv(stk, seen), stk # <<>>, NEW e,
         e \in stk[Len(stk)].todo, NEW stk2, Taken(stk, stk2, e)
  PROVE  /\ \A f \in 1..Len(stk2) : stk2[f].dir = stk[f].dir /\ stk2[f].todo = stk[f].todo \ {e}
         /\ ToCome(stk2) = ToCome(stk) \ {e} /\ e \notin seen /\ e # Root
         /\ \E d \in Entered(seen) : e \in Children[d]
         /\ Len(stk) \in Nat /\ Len(stk2) = Len(stk) /\ Len(stk) \in 1..Len(stk)
<1> DEFINE n == Len(stk)
<1>1. n \in Nat /\ n \in 1..n /\ Len(stk2) = n
  BY DEF Taken
<1>2. /\ stk[n].dir \in Entered(seen) /\ stk[n].todo \subseteq Children[stk[n].dir] \ seen
      /\ \A f \in 1..n : stk[f].dir \in Entered(seen)
                         /\ stk[f].todo \subseteq Children[stk[f].dir] \ seen
      /\ \A f, g \in 1..n : stk[f].dir = stk[g].dir => f = g
  BY <1>1 DEF WalkInv
<1>3. \A d \in Entered(seen) : d \in Dir
  BY TreeFacts DEF Entered
<1>4. e \in Children[stk[n].dir] /\ e \notin seen
  BY <1>2
<1>5. ASSUME NEW f \in 1..n, f # n PROVE e \notin stk[f].todo
  <2> SUFFICES ASSUME e \in stk[f].todo PROVE FALSE
    OBVIOUS
  <2>1. e \in Children[stk[f].dir]
    BY <1>2
  <2>2. stk[f].dir = stk[n].dir
    BY <1>2, <1>3, <1>4, <2>1, TreeFacts
  <2> QED BY <1>1, <1>2, <1>5, <2>2
<1>6. \A f \in 1..n : stk2[f].dir = stk[f].dir /\ stk2[f].todo = stk[f].todo \ {e}
  BY <1>1, <1>5 DEF Taken
<1>7. ToCome(stk2) = ToCome(stk) \ {e}
  <2> HIDE DEF n
  <2>1. ToCome(stk) = UNION {stk[f].todo : f \in 1..n} /\ ToCome(stk2) = UNION {stk2[f].todo : f \in 1..n}
    BY <1>1 DEF ToCome, n
  <2> QED BY <1>6, <2>1
<1>8. e # Root
  BY <1>2, <1>3, <1>4, TreeFacts
<1> QED BY <1>1, <1>2, <1>4, <1>6, <1>7, <1>8

LEMMA WalkFile ==
  ASSUME NEW stk \in Seq(Frame), NEW seen, WalkInv(stk, seen), stk # <<>>, NEW e \in RegFile,
         e \in stk[Len(stk)].todo, NEW stk2, Taken(stk, stk2, e)
  PROVE  WalkInv(stk2, seen \union {e}) /\ e \notin seen
<1> DEFINE new == seen \union {e}
<1>1. /\ \A f \in 1..Len(stk2) : stk2[f].dir = stk[f].dir /\ stk2[f].todo = stk[f].todo \ {e}
      /\ ToCome(stk2) = ToCome(stk) \ {e} /\ e \notin seen /\ e # Root /\ Len(stk2) = Len(stk)
      /\ \E d \in Entered(seen) : e \in Children[d]
  BY TakenOnce
<1>2. Entered(new) = Entered(seen)
  BY TreeFacts DEF Entered
<1>3. new \subseteq Packed \ {Root}
  BY <1>1 DEF WalkInv, Packed
<1>4. \A c \in new : \E d \in Entered(new) : c \in Children[d]
  BY <1>1, <1>2 DEF WalkInv
<1>5. \A d \in Entered(new) : Children[d] \subseteq new \union ToCome(stk2) \union (Entry \ Packed)
  BY <1>1, <1>2 DEF WalkInv
<1>6. \A f \in 1..Len(stk2) : stk2[f].dir \in Entered(new) /\ stk2[f].todo \subseteq Children[stk2[f].dir] \ new
  <2> SUFFICES ASSUME NEW f \in 1..Len(stk2)
               PROVE  stk2[f].dir \in Entered(new) /\ stk2[f].todo \subseteq Children[stk2[f].dir] \ new
    OBVIOUS
  <2>1. stk[f].dir \in Entered(seen) /\ stk[f].todo \subseteq Children[stk[f].dir] \ seen
    BY <1>1 DEF WalkInv
  <2>2. stk2[f].dir = stk[f].dir /\ stk2[f].todo = stk[f].todo \ {e}
    BY <1>1
  <2> QED BY <1>2, <2>1, <2>2
<1>7. \A f, g \in 1..Len(stk2) : stk2[f].dir = stk2[g].dir => f = g
  BY <1>1 DEF WalkInv
<1> HIDE DEF new
<1>8. WalkInv(stk2, new)
  BY <1>3, <1>4, <1>5, <1>6, <1>7 DEF WalkInv
<1> QED BY <1>1, <1>8 DEF new

LEMMA WalkSpecial ==
  ASSUME NEW stk \in Seq(Frame), NEW seen, WalkInv(stk, seen), stk # <<>>, NEW e \in Entry,
         e \notin Packed, e \in stk[Len(stk)].todo, NEW stk2, Taken(stk, stk2, e)
  PROVE  WalkInv(stk2, seen)
<1>1. /\ \A f \in 1..Len(stk2) : stk2[f].dir = stk[f].dir /\ stk2[f].todo = stk[f].todo \ {e}
      /\ ToCome(stk2) = ToCome(stk) \ {e} /\ Len(stk2) = Len(stk)
  BY TakenOnce
<1> QED BY <1>1 DEF WalkInv

LEMMA WalkEnter ==
  ASSUME NEW stk \in Seq(Frame), NEW seen, WalkInv(stk, seen), stk # <<>>, NEW e \in Entry \intersect Dir,
         e \in stk[Len(stk)].todo, NEW stk2 \in Seq(Frame), Taken(stk, stk2, e),
         NEW stk3, stk3 = Append(stk2, [dir |-> e, todo |-> Children[e]])
  PROVE  WalkInv(stk3, seen \union {e}) /\ e \notin seen
<1> DEFINE new == seen \union {e}
           n == Len(stk)
<1>1. /\ \A f \in 1..n : stk2[f].dir = stk[f].dir /\ stk2[f].todo = stk[f].todo \ {e}
      /\ ToCome(stk2) = ToCome(stk) \ {e} /\ e \notin seen /\ e # Root /\ Len(stk2) = n
      /\ \E d \in Entered(seen) : e \in Children[d]
      /\ n \in Nat
  BY TakenOnce
<1>2. /\ Len(stk3) = n + 1 /\ \A f \in 1..n : stk3[f] = stk2[f]
      /\ stk3[n + 1].dir = e /\ stk3[n + 1].todo = Children[e]
  <2> DEFINE x == [dir |-> e, todo |-> Children[e]]
  <2>1. x.dir = e /\ x.todo = Children[e] /\ stk3 = Append(stk2, x)
    OBVIOUS
  <2> HIDE DEF x, Frame
  <2> QED BY <1>1, <2>1
<1>3. Entered(new) = Entered(seen) \union {e} /\ e \notin Entered(seen)
  BY <1>1 DEF Entered
<1>4. \A d \in Entered(new) : d \in Dir
  BY TreeFacts DEF Entered
<1>5. Children[e] \intersect new = {}
  <2> SUFFICES ASSUME NEW c \in Children[e], c \in new PROVE FALSE
    OBVIOUS
  <2>1. \E d \in Entered(seen) : c \in Children[d]
    BY <1>1 DEF WalkInv
  <2> QED BY <1>3, <1>4, <2>1, TreeFacts
<1>6. ToCome(stk3) = ToCome(stk2) \union Children[e]
  <2>1. 1..(n + 1) = (1..n) \union {n + 1}
    BY <1>1
  <2>2. ToCome(stk3) = UNION {stk3[f].todo : f \in (1..n) \union {n + 1}}
    BY <1>2, <2>1 DEF ToCome
  <2>3. ToCome(stk2) = UNION {stk2[f].todo : f \in 1..n}
    BY <1>1 DEF ToCome
  <2> HIDE DEF n
  <2>4. \A f \in 1..n : stk3[f].todo = stk2[f].todo
    BY <1>2
  <2>5. ASSUME NEW c PROVE c \in ToCome(stk3) <=> c \in ToCome(stk2) \union Children[e]
    <3>1. c \in ToCome(stk3) <=> (\E f \in 1..n : c \in stk3[f].todo) \/ c \in stk3[n + 1].todo
      BY <2>2
    <3>2. c \in ToCome(stk2) <=> \E f \in 1..n : c \in stk2[f].todo
      BY <2>3
    <3> QED BY <1>2, <2>4, <3>1, <3>2
  <2> QED BY <2>5
<1>7. \A f \in 1..(n + 1) : f \in 1..n \/ f = n + 1
  BY <1>1
<1> HIDE DEF n
<1>8. \A f \in 1..n : /\ stk[f].dir \in Entered(seen)
                      /\ stk[f].todo \subseteq Children[stk[f].dir] \ seen
  BY DEF WalkInv, n
<1>9. ASSUME NEW f \in 1..(n + 1)
      PROVE  stk3[f].dir \in Entered(new) /\ stk3[f].todo \subseteq Children[stk3[f].dir] \ new
  <2>1. CASE f \in 1..n
    <3>1. stk3[f].dir = stk[f].dir /\ stk3[f].todo = stk[f].todo \ {e}
      BY <1>1, <1>2, <2>1
    <3> QED BY <1>3, <1>8, <2>1, <3>1
  <2>2. CASE f = n + 1
    BY <1>2, <1>3, <1>5, <2>2
  <2> QED BY <1>7, <2>1, <2>2
<1>10. ASSUME NEW f \in 1..(n + 1), NEW g \in 1..(n + 1), stk3[f].dir = stk3[g].dir PROVE f = g
  <2>1. \A h \in 1..n : stk3[h].dir = stk[h].dir /\ stk3[h].dir # e
    BY <1>1, <1>2, <1>3, <1>8
  <2>2. CASE f \in 1..n /\ g \in 1..n
    BY <1>10, <2>1, <2>2 DEF WalkInv, n
  <2> QED BY <1>2, <1>7, <1>10, <2>1, <2>2
<1>11. new \subseteq Packed \ {Root}
  BY <1>1 DEF WalkInv, Packed
<1>12. \A c \in new : \E d \in Entered(new) : c \in Children[d]
  <2>1. ASSUME NEW c \in seen PROVE \E d \in Entered(new) : c \in Children[d]
    <3>1. PICK d \in Entered(seen) : c \in Children[d]
      BY DEF WalkInv
    <3> QED BY <1>3, <3>1
  <2>2. \E d \in Entered(new) : e \in Children[d]
    BY <1>1, <1>3
  <2> QED BY <2>1, <2>2
<1>13. ASSUME NEW d \in Entered(new)
       PROVE  Children[d] \subseteq new \union ToCome(stk3) \union (Entry \ Packed)
  <2>1. CASE d = e
    BY <1>6, <2>1
  <2>2. CASE d \in Entered(seen)
    BY <1>1, <1>6, <2>2 DEF WalkInv
  <2> QED BY <1>3, <2>1, <2>2
<1> HIDE DEF new
<1>14. WalkInv(stk3, new)
  BY <1>2, <1>9, <1>10, <1>11, <1>12, <1>13 DEF WalkInv
<1> QED BY <1>1, <1>14 DEF new

LEMMA FrontFacts ==
  ASSUME NEW S, NEW s \in Seq(S), s # <<>>
  PROVE  /\ Len(s) \in Nat /\ Len(s) > 0 /\ Len(Front(s)) = Len(s) - 1
         /\ \A k \in 1..(Len(s) - 1) : Front(s)[k] = s[k]
<1> DEFINE m == Len(s) - 1
<1>1. Len(s) \in Nat /\ Len(s) > 0 /\ m \in Nat /\ m <= Len(s)
  OBVIOUS
<1> HIDE DEF m
<1>2. Len(SubSeq(s, 1, m)) = m /\ \A k \in 1..m : SubSeq(s, 1, m)[k] = s[k]
  BY <1>1
<1> QED BY <1>1, <1>2 DEF Front, m

LEMMA WalkLeave ==
  ASSUME NEW stk \in Seq(Frame), NEW seen, WalkInv(stk, seen), stk # <<>>,
         stk[Len(stk)].todo = {}
  PROVE  WalkInv(Front(stk), seen)
<1> DEFINE n == Len(stk)
           stk2 == Front(stk)
<1>1. n \in Nat /\ n > 0 /\ Len(stk2) = n - 1 /\ \A f \in 1..(n - 1) : stk2[f] = stk[f]
  BY FrontFacts
<1>2. \A f \in 1..n : f \in 1..(n - 1) \/ f = n
  BY <1>1
<1>3. \A f \in 1..(n - 1) : f \in 1..n
  BY <1>1
<1> HIDE DEF stk2, n
<1>4. ToCome(stk2) = ToCome(stk)
  <2>1. ToCome(stk) = UNION {stk[f].todo : f \in 1..n} /\ ToCome(stk2) = UNION {stk2[f].todo : f \in 1..(n - 1)}
    BY <1>1 DEF ToCome, n
  <2>2. stk[n].todo = {}
    BY DEF n
  <2> QED BY <1>1, <1>2, <1>3, <2>1, <2>2
<1>5. WalkInv(stk2, seen)
  BY <1>1, <1>3, <1>4 DEF WalkInv, n
<1> QED BY <1>5 DEF stk2
-----------------------------------------------------------------------------
(***************************************************************************)
(* The layout.  es are the entries of an archive in their order, ps the    *)
(* places behind each, st the sizes their headers say.                     *)
(***************************************************************************)
SizeIn(st, e) == IF e \in RegFile THEN st[e] ELSE 0
HeadIn(st, e) ==
  [name |-> <<"whole", e>>, type |-> IF e \in RegFile THEN "0" ELSE "5", size |-> SizeIn(st, e)]
ItemIn(st, e) ==
  [name |-> <<"whole", e>>, type |-> IF e \in RegFile THEN "0" ELSE "5",
   body |-> FileBytes(e, 0, SizeIn(st, e))]
After(st, e, p) == p + Block + SizeIn(st, e) + Padding(SizeIn(st, e))

\* At p is the header of e, and then n bytes of it.
Written(s, st, e, p, n) ==
  /\ p + Block + n <= Len(s)
  /\ \A k \in 1..Block : s[p + k] = <<"header", HeadIn(st, e), k>>
  /\ \A k \in 1..n : s[p + Block + k] = <<"file", e, k>>

Places(es, ps) == ps \in [0..Len(es) -> Nat] /\ ps[0] = 0
Laid(s, st, es, ps) ==
  \A i \in 1..Len(es) :
    /\ Written(s, st, es[i], ps[i - 1], SizeIn(st, es[i]))
    /\ ps[i] = After(st, es[i], ps[i - 1]) /\ ps[i] <= Len(s)

Archived(es) == {es[i] : i \in 1..Len(es)}
Sound(s, st, es, ps) ==
  /\ es \in Seq(Packed \ {Root}) /\ \A i, j \in 1..Len(es) : es[i] = es[j] => i = j
  /\ Places(es, ps) /\ Laid(s, st, es, ps)

LEMMA SizeInType ==
  ASSUME NEW st \in [RegFile -> Nat], NEW e
  PROVE  SizeIn(st, e) \in Nat
  BY DEF SizeIn

LEMMA WrittenMore ==
  ASSUME NEW s \in Seq(Byte), NEW t \in Seq(Byte), NEW st, NEW e, NEW p \in Nat, NEW n \in Nat,
         Written(s, st, e, p, n)
  PROVE  Written(s \o t, st, e, p, n)
<1> DEFINE x == s \o t
<1>1. Block \in Nat
  BY TarAssumption
<1>2. Len(x) = Len(s) + Len(t) /\ Len(s) \in Nat /\ Len(t) \in Nat /\ \A k \in 1..Len(s) : x[k] = s[k]
  <2> HIDE DEF Byte
  <2> QED OBVIOUS
<1> HIDE DEF x
<1>3. p + Block + n <= Len(s)
  BY DEF Written
<1>4. p + Block + n <= Len(x)
  BY <1>1, <1>2, <1>3
<1>5. ASSUME NEW k \in 1..Block PROVE x[p + k] = s[p + k]
  <2>1. p + k \in 1..Len(s)
    BY <1>1, <1>2, <1>3
  <2> QED BY <1>2, <2>1
<1>6. ASSUME NEW k \in 1..n PROVE x[p + Block + k] = s[p + Block + k]
  <2>1. p + Block + k \in 1..Len(s)
    BY <1>1, <1>2, <1>3
  <2> QED BY <1>2, <2>1
<1>7. Written(x, st, e, p, n)
  BY <1>4, <1>5, <1>6 DEF Written
<1> QED BY <1>7 DEF x

LEMMA SoundMore ==
  ASSUME NEW s \in Seq(Byte), NEW t \in Seq(Byte), NEW st \in [RegFile -> Nat], NEW es, NEW ps,
         Sound(s, st, es, ps)
  PROVE  Sound(s \o t, st, es, ps)
<1> DEFINE x == s \o t
<1>1. Len(x) = Len(s) + Len(t) /\ Len(s) \in Nat /\ Len(t) \in Nat
  <2> HIDE DEF Byte
  <2> QED OBVIOUS
<1>2. Len(es) \in Nat
  BY DEF Sound
<1>3. ASSUME NEW i \in 1..Len(es)
      PROVE  /\ Written(x, st, es[i], ps[i - 1], SizeIn(st, es[i]))
             /\ ps[i] = After(st, es[i], ps[i - 1]) /\ ps[i] <= Len(x)
  <2>1. /\ Written(s, st, es[i], ps[i - 1], SizeIn(st, es[i]))
        /\ ps[i] = After(st, es[i], ps[i - 1]) /\ ps[i] <= Len(s)
    BY DEF Sound, Laid
  <2>2. i \in 0..Len(es) /\ i - 1 \in 0..Len(es)
    BY <1>2
  <2>3. ps[i - 1] \in Nat /\ ps[i] \in Nat
    BY <2>2 DEF Sound, Places
  <2>4. Written(x, st, es[i], ps[i - 1], SizeIn(st, es[i]))
    BY <2>1, <2>3, SizeInType, WrittenMore
  <2> HIDE DEF x
  <2>5. ps[i] <= Len(x)
    BY <1>1, <2>1, <2>3
  <2> QED BY <2>1, <2>4, <2>5
<1> HIDE DEF x
<1>4. Laid(x, st, es, ps)
  BY <1>3 DEF Laid
<1> QED BY <1>4 DEF Sound, x

\* The size of another entry does not matter.
LEMMA SoundOther ==
  ASSUME NEW s, NEW st \in [RegFile -> Nat], NEW es, NEW ps, Sound(s, st, es, ps),
         NEW e \in RegFile, e \notin Archived(es), NEW n \in Nat
  PROVE  Sound(s, [st EXCEPT ![e] = n], es, ps)
<1> DEFINE st2 == [st EXCEPT ![e] = n]
<1>1. ASSUME NEW i \in 1..Len(es)
      PROVE  SizeIn(st2, es[i]) = SizeIn(st, es[i])
  <2>1. es[i] # e
    BY DEF Archived
  <2> QED BY <2>1 DEF SizeIn
<1> HIDE DEF st2
<1>2. ASSUME NEW i \in 1..Len(es)
      PROVE  /\ Written(s, st2, es[i], ps[i - 1], SizeIn(st2, es[i]))
             /\ ps[i] = After(st2, es[i], ps[i - 1]) /\ ps[i] <= Len(s)
  <2>1. /\ Written(s, st, es[i], ps[i - 1], SizeIn(st, es[i]))
        /\ ps[i] = After(st, es[i], ps[i - 1]) /\ ps[i] <= Len(s)
    BY DEF Sound, Laid
  <2>2. SizeIn(st2, es[i]) = SizeIn(st, es[i])
    BY <1>1
  <2>3. HeadIn(st2, es[i]) = HeadIn(st, es[i]) /\ After(st2, es[i], ps[i - 1]) = After(st, es[i], ps[i - 1])
    BY <2>2 DEF HeadIn, After
  <2> QED BY <2>1, <2>2, <2>3 DEF Written
<1>3. Laid(s, st2, es, ps)
  BY <1>2 DEF Laid
<1> QED BY <1>3 DEF Sound, st2

\* One more entry.
Extended(s, st, es, e) ==
  \E es2, ps2 : /\ Sound(s, st, es2, ps2) /\ ps2[Len(es2)] = Len(s)
                /\ Archived(es2) = Archived(es) \union {e}

LEMMA SoundNext ==
  ASSUME NEW s \in Seq(Byte), NEW st \in [RegFile -> Nat], NEW es, NEW ps, Sound(s, st, es, ps),
         NEW e \in Packed \ {Root}, e \notin Archived(es),
         Written(s, st, e, ps[Len(es)], SizeIn(st, e)), After(st, e, ps[Len(es)]) = Len(s)
  PROVE  Extended(s, st, es, e)
<1> DEFINE n == Len(es)
           es2 == Append(es, e)
           ps2 == [i \in 0..(n + 1) |-> IF i = n + 1 THEN Len(s) ELSE ps[i]]
           Q == Packed \ {Root}
<1>1. n \in Nat /\ Len(s) \in Nat /\ es \in Seq(Q)
  BY DEF Sound
<1>2. /\ es2 \in Seq(Q) /\ Len(es2) = n + 1 /\ es2[n + 1] = e /\ \A i \in 1..n : es2[i] = es[i]
  <2>1. e \in Q
    OBVIOUS
  <2> HIDE DEF Q
  <2> QED BY <1>1, <2>1
<1>3. /\ ps2 \in [0..(n + 1) -> Nat] /\ ps2[n + 1] = Len(s)
      /\ \A i \in 0..n : ps2[i] = ps[i]
  <2>1. ps \in [0..n -> Nat]
    BY DEF Sound, Places
  <2> HIDE DEF n
  <2> QED BY <1>1, <2>1
<1>4. \A i \in 1..(n + 1) : i \in 1..n \/ i = n + 1
  BY <1>1
<1>5. ps[0] = 0 /\ Written(s, st, e, ps[n], SizeIn(st, e)) /\ After(st, e, ps[n]) = Len(s)
  BY DEF Sound, Places
<1> HIDE DEF es2, ps2, n
<1>6. Places(es2, ps2)
  <2>1. 0 \in 0..n
    BY <1>1
  <2> QED BY <1>2, <1>3, <1>5, <2>1 DEF Places
<1>7. ASSUME NEW i \in 1..(n + 1)
      PROVE  /\ Written(s, st, es2[i], ps2[i - 1], SizeIn(st, es2[i]))
             /\ ps2[i] = After(st, es2[i], ps2[i - 1]) /\ ps2[i] <= Len(s)
  <2>1. CASE i \in 1..n
    <3>1. i \in 0..n /\ i - 1 \in 0..n
      BY <1>1, <2>1
    <3>2. es2[i] = es[i] /\ ps2[i] = ps[i] /\ ps2[i - 1] = ps[i - 1]
      BY <1>2, <1>3, <2>1, <3>1
    <3>3. /\ Written(s, st, es[i], ps[i - 1], SizeIn(st, es[i]))
          /\ ps[i] = After(st, es[i], ps[i - 1]) /\ ps[i] <= Len(s)
      BY <2>1 DEF Sound, Laid, n
    <3> QED BY <3>2, <3>3
  <2>2. CASE i = n + 1
    <3>1. i - 1 = n /\ n \in 0..n
      BY <1>1, <2>2
    <3>2. es2[i] = e /\ ps2[i] = Len(s) /\ ps2[i - 1] = ps[n]
      BY <1>2, <1>3, <2>2, <3>1
    <3> QED BY <1>1, <1>5, <3>2
  <2> QED BY <1>4, <2>1, <2>2
<1>8. Laid(s, st, es2, ps2)
  BY <1>2, <1>7 DEF Laid
<1>9. ASSUME NEW i \in 1..(n + 1), NEW j \in 1..(n + 1), es2[i] = es2[j] PROVE i = j
  <2>1. \A k \in 1..n : es2[k] = es[k] /\ es2[k] # e
    BY <1>2 DEF Archived, n
  <2>2. CASE i \in 1..n /\ j \in 1..n
    BY <1>9, <2>1, <2>2 DEF Sound, n
  <2> QED BY <1>2, <1>4, <1>9, <2>1, <2>2
<1>10. Archived(es2) = Archived(es) \union {e}
  <2>1. n + 1 \in 1..(n + 1) /\ \A i \in 1..n : i \in 1..(n + 1)
    BY <1>1
  <2>2. Archived(es) = {es[i] : i \in 1..n} /\ Archived(es2) = {es2[i] : i \in 1..(n + 1)}
    BY <1>2 DEF Archived, n
  <2> QED BY <1>2, <1>4, <2>1, <2>2
<1>11. Sound(s, st, es2, ps2)
  BY <1>2, <1>6, <1>8, <1>9 DEF Sound
<1>12. ps2[Len(es2)] = Len(s)
  BY <1>2, <1>3
<1> QED BY <1>10, <1>11, <1>12 DEF Extended
-----------------------------------------------------------------------------
(***************************************************************************)
(* Reading back what is laid out.                                          *)
(***************************************************************************)
LEMMA ReadItem ==
  ASSUME NEW s \in Seq(Byte), NEW st \in [RegFile -> Nat], NEW e, NEW p \in Nat,
         Written(s, st, e, p, SizeIn(st, e)), After(st, e, p) <= Len(s)
  PROVE  GoesOn(s, p) /\ NextAt(s, p) = After(st, e, p) /\ ItemAt(s, p) = ItemIn(st, e)
<1> DEFINE n == SizeIn(st, e)
           h == HeadIn(st, e)
           b == BlockAt(s, p)
<1>1. Block \in Nat /\ Block > 0 /\ n \in Nat /\ Len(s) \in Nat
  BY TarAssumption, SizeInType
<1>2. p + Block + n <= Len(s) /\ p + Block <= Len(s)
  <2>1. p + Block + n <= Len(s)
    BY DEF Written
  <2> HIDE DEF n
  <2> QED BY <1>1, <2>1
<1>3. b = HeaderBytes(h)
  <2> DEFINE u == HeaderBytes(h)
  <2>1. /\ b \in Seq(Byte) /\ Len(b) = Block /\ \A k \in 1..Block : b[k] = s[p + k]
    <3>1. p + 1 \in Nat /\ p + Block \in Nat /\ p + Block <= Len(s) /\ 1 <= p + 1
      BY <1>1, <1>2
    <3> HIDE DEF Byte
    <3> QED BY <1>1, <3>1 DEF BlockAt
  <2>2. \A k \in 1..Block : s[p + k] = <<"header", h, k>>
    BY DEF Written
  <2>3. u = [k \in 1..Block |-> <<"header", h, k>>]
    BY DEF HeaderBytes
  <2>4. b = [k \in 1..Block |-> b[k]]
    <3> HIDE DEF b
    <3> QED BY <1>1, <2>1
  <2> HIDE DEF b, u, h
  <2>5. \A k \in 1..Block : b[k] = <<"header", h, k>>
    BY <2>1, <2>2
  <2> QED BY <2>3, <2>4, <2>5 DEF u
<1>4. b[1] = <<"header", h, 1>>
  <2>1. HeaderBytes(h)[1] = <<"header", h, 1>>
    <3> HIDE DEF h
    <3> QED BY <1>1 DEF HeaderBytes
  <2> QED BY <1>3, <2>1
<1> HIDE DEF b
<1>5. b[1][1] = "header" /\ b[1][2] = h
  <2> HIDE DEF h
  <2> QED BY <1>4
<1>6. h.size = n /\ h.name = <<"whole", e>> /\ h.type = IF e \in RegFile THEN "0" ELSE "5"
  BY DEF HeadIn
<1> HIDE DEF h
<1>7. HeaderAt(s, p)
  BY <1>2, <1>3, <1>5 DEF HeaderAt, IsHeader, b
<1>8. NextAt(s, p) = After(st, e, p)
  BY <1>5, <1>6 DEF NextAt, After, b
<1>9. SubSeq(s, p + Block + 1, p + Block + n) = FileBytes(e, 0, n)
  <2> HIDE DEF n
  <2> DEFINE q == p + Block
             v == SubSeq(s, q + 1, q + n)
             w == FileBytes(e, 0, n)
  <2>1. q \in Nat /\ q + n <= Len(s)
    BY <1>1, <1>2
  <2>2. \A k \in 1..n : s[q + k] = <<"file", e, k>>
    BY DEF Written, n
  <2> HIDE DEF q
  <2>3. v = [k \in 1..n |-> s[q + k]]
    <3>1. q + 1 \in Nat /\ q + n \in Nat /\ q + n <= Len(s) /\ 1 <= q + 1
      BY <1>1, <2>1
    <3>2. v \in Seq(Byte) /\ Len(v) = n /\ \A k \in 1..n : v[k] = s[q + k]
      <4> HIDE DEF Byte
      <4> QED BY <1>1, <2>1, <3>1
    <3> HIDE DEF v
    <3> QED BY <1>1, <3>2
  <2>4. w = [k \in 1..n |-> <<"file", e, k>>]
    <3>1. n - 0 = n /\ \A k \in 1..n : 0 + k = k
      BY <1>1
    <3> QED BY <3>1 DEF FileBytes
  <2> HIDE DEF v, w
  <2>5. v = w
    BY <2>2, <2>3, <2>4
  <2> QED BY <2>5 DEF v, w, q
<1>10. ItemAt(s, p) = ItemIn(st, e)
  <2>1. ItemAt(s, p) = [name |-> h.name, type |-> h.type,
                        body |-> SubSeq(s, p + Block + 1, p + Block + h.size)]
    BY <1>5 DEF ItemAt, b
  <2> QED BY <1>6, <1>9, <2>1 DEF ItemIn
<1> QED BY <1>7, <1>8, <1>10 DEF GoesOn

LEMMA ReadEnd ==
  ASSUME NEW s \in Seq(Byte), NEW p \in Nat, Len(s) = p + 2 * Block,
         \A k \in 1..(2 * Block) : s[p + k] = Zero
  PROVE  ~GoesOn(s, p) /\ LeafAt(s, p) = <<"end">>
<1> DEFINE b == BlockAt(s, p)
           n == 2 * Block
<1>1. Block \in Nat /\ Block > 0 /\ Len(s) \in Nat /\ n \in Nat /\ 1 \in 1..n
  BY TarAssumption
<1>2. b[1] = Zero
  <2>1. p + 1 \in Nat /\ p + Block \in Nat /\ p + Block <= Len(s) /\ 1 <= p + 1
    BY <1>1
  <2>2. b[1] = s[p + 1]
    <3> HIDE DEF Byte
    <3> QED BY <1>1, <2>1 DEF BlockAt
  <2> QED BY <1>1, <2>2
<1>3. ~IsHeader(b)
  <2> HIDE DEF b
  <2>1. b[1][1] = "zero"
    BY <1>2 DEF Zero
  <2> QED BY <2>1 DEF IsHeader
<1>4. SubSeq(s, p + 1, p + n) = Zeros(n)
  <2> HIDE DEF n
  <2> DEFINE v == SubSeq(s, p + 1, p + n)
             w == Zeros(n)
  <2>1. v = [k \in 1..n |-> s[p + k]]
    <3>1. p + 1 \in Nat /\ p + n \in Nat /\ p + n <= Len(s) /\ 1 <= p + 1
      BY <1>1 DEF n
    <3>2. v \in Seq(Byte) /\ Len(v) = n /\ \A k \in 1..n : v[k] = s[p + k]
      <4> HIDE DEF Byte
      <4> QED BY <1>1, <3>1
    <3> HIDE DEF v
    <3> QED BY <1>1, <3>2
  <2>2. \A k \in 1..n : s[p + k] = Zero
    BY DEF n
  <2>3. w = [k \in 1..n |-> Zero]
    BY DEF Zeros, Zero
  <2> HIDE DEF v, w
  <2>4. v = w
    BY <2>1, <2>2, <2>3
  <2> QED BY <2>4 DEF v, w
<1>5. EndAt(s, p)
  BY <1>1, <1>4 DEF EndAt
<1> QED BY <1>3, <1>5 DEF GoesOn, HeaderAt, LeafAt

\* The archive of the entries es, with its end.
Ended(s, st, es, ps) ==
  /\ Sound(s, st, es, ps) /\ Archived(es) = RegFile \union (Dir \ {Root})
  /\ Len(s) = ps[Len(es)] + 2 * Block
  /\ \A k \in 1..(2 * Block) : s[ps[Len(es)] + k] = Zero

\* It reads as its entries, one after the other, and then the end.
LEMMA ReadAll ==
  ASSUME NEW s \in Seq(Byte), NEW st \in [RegFile -> Nat], NEW es, NEW ps, Ended(s, st, es, ps)
  PROVE  /\ Len(es) \in Nat
         /\ \E V : Extract(s) \in Seq(V)
         /\ Len(Extract(s)) = Len(es) + 1
         /\ \A i \in 1..Len(es) : Extract(s)[i] = ItemIn(st, es[i])
         /\ Extract(s)[Len(es) + 1] = "end"
<1> DEFINE n == Len(es)
           R == ReadFrom(s)
           V == Items(s)
           P(i, m) == /\ R[ps[i]] \in Seq(V) /\ Len(R[ps[i]]) = m + 1
                      /\ \A k \in 1..m : R[ps[i]][k] = ItemIn(st, es[i + k])
                      /\ R[ps[i]][m + 1] = "end"
           T == {m \in Nat : m <= n => P(n - m, m)}
<1>1. n \in Nat /\ Len(s) \in Nat /\ Sound(s, st, es, ps)
  BY DEF Ended, Sound
<1>2. /\ ps \in [0..n -> Nat] /\ ps[0] = 0
      /\ \A i \in 1..n : /\ Written(s, st, es[i], ps[i - 1], SizeIn(st, es[i]))
                         /\ ps[i] = After(st, es[i], ps[i - 1]) /\ ps[i] <= Len(s)
  BY <1>1 DEF Sound, Places, Laid
<1>3. /\ Extract(s) = R[0]
      /\ \A p \in 0..Len(s) : R[p] = IF GoesOn(s, p) THEN <<ItemAt(s, p)>> \o R[NextAt(s, p)]
                                     ELSE LeafAt(s, p)
  BY ReadFromFacts
<1>4. R[ps[n]] = <<"end">>
  <2>1. ps[n] \in Nat /\ Block \in Nat /\ n \in 0..n
    BY <1>1, <1>2, TarAssumption
  <2>2. Len(s) = ps[n] + 2 * Block /\ \A k \in 1..(2 * Block) : s[ps[n] + k] = Zero
    BY DEF Ended
  <2> HIDE DEF n, R
  <2>3. ps[n] \in 0..Len(s)
    BY <1>1, <2>1, <2>2
  <2>4. ~GoesOn(s, ps[n]) /\ LeafAt(s, ps[n]) = <<"end">>
    BY <2>1, <2>2, ReadEnd
  <2> QED BY <1>3, <2>3, <2>4
<1>5. ASSUME NEW i \in 1..n PROVE R[ps[i - 1]] = <<ItemIn(st, es[i])>> \o R[ps[i]] /\ ItemIn(st, es[i]) \in V
  <2> DEFINE p == ps[i - 1]
  <2>1. i \in 0..n /\ i - 1 \in 0..n
    BY <1>1
  <2>2. p \in Nat /\ ps[i] \in Nat
    BY <1>2, <2>1
  <2>3. Written(s, st, es[i], p, SizeIn(st, es[i])) /\ ps[i] = After(st, es[i], p) /\ ps[i] <= Len(s)
    BY <1>2
  <2> HIDE DEF p, R, V, n
  <2>4. GoesOn(s, p) /\ NextAt(s, p) = ps[i] /\ ItemAt(s, p) = ItemIn(st, es[i])
    BY <2>2, <2>3, ReadItem
  <2>5. p \in 0..Len(s)
    <3>1. p + Block <= Len(s) /\ Block \in Nat
      BY <2>4, TarAssumption DEF GoesOn, HeaderAt
    <3> QED BY <1>1, <2>2, <3>1
  <2>6. R[p] = <<ItemIn(st, es[i])>> \o R[ps[i]]
    BY <1>3, <2>4, <2>5
  <2>7. ItemIn(st, es[i]) \in V
    BY <2>4, <2>5 DEF V, Items
  <2> QED BY <2>6, <2>7 DEF p
<1>6. "end" \in V
  BY DEF Items
<1> HIDE DEF n, R, V
<1>7. 0 \in T
  <2>1. n - 0 = n
    BY <1>1
  <2>2. P(n, 0)
    BY <1>4, <1>6
  <2> HIDE DEF P
  <2> QED BY <2>1, <2>2
<1>8. ASSUME NEW m \in Nat, m \in T PROVE m + 1 \in T
  <2> SUFFICES ASSUME m + 1 <= n PROVE P(n - (m + 1), m + 1)
    OBVIOUS
  <2> DEFINE i == n - m
  <2>1. i \in 1..n /\ i - 1 = n - (m + 1) /\ m <= n
    BY <1>1
  <2>2. P(i, m)
    BY <1>8, <2>1
  <2> HIDE DEF i
  <2> DEFINE x == ItemIn(st, es[i])
             y == R[ps[i]]
             z == R[ps[i - 1]]
  <2>3. z = <<x>> \o y /\ x \in V
    BY <1>5, <2>1
  <2>4. /\ y \in Seq(V) /\ Len(y) = m + 1 /\ y[m + 1] = "end"
        /\ \A k \in 1..m : y[k] = ItemIn(st, es[i + k])
    BY <2>2
  <2> HIDE DEF x, y, z
  <2>5. z \in Seq(V) /\ Len(z) = m + 2 /\ z[1] = x /\ \A k \in 1..(m + 1) : z[k + 1] = y[k]
    BY <2>3, <2>4
  <2>6. z[(m + 1) + 1] = "end" /\ Len(z) = (m + 1) + 1
    BY <2>4, <2>5
  <2>7. ASSUME NEW k \in 1..(m + 1) PROVE z[k] = ItemIn(st, es[(i - 1) + k])
    <3>1. CASE k = 1
      <4>1. (i - 1) + k = i
        BY <2>1, <3>1
      <4> QED BY <2>5, <3>1, <4>1 DEF x
    <3>2. CASE k # 1
      <4>1. k - 1 \in 1..m /\ k - 1 \in 1..(m + 1) /\ (k - 1) + 1 = k /\ i + (k - 1) = (i - 1) + k
        BY <2>1, <3>2
      <4>2. z[(k - 1) + 1] = y[k - 1] /\ y[k - 1] = ItemIn(st, es[i + (k - 1)])
        BY <2>4, <2>5, <4>1
      <4> QED BY <4>1, <4>2
    <3> QED BY <3>1, <3>2
  <2>8. P(i - 1, m + 1)
    BY <2>5, <2>6, <2>7 DEF z
  <2> HIDE DEF P
  <2> QED BY <2>1, <2>8
<1>9. \A m \in Nat : m \in T
  <2> HIDE DEF T
  <2> QED BY <1>7, <1>8, InductionOnSet
<1>10. P(0, n)
  <2>1. n \in T
    <3> HIDE DEF T
    <3> QED BY <1>1, <1>9
  <2>2. n - n = 0 /\ n <= n
    BY <1>1
  <2> HIDE DEF P
  <2> QED BY <2>1, <2>2
<1>11. R[ps[0]] = Extract(s) /\ \A k \in 1..n : 0 + k = k
  BY <1>1, <1>2, <1>3
<1>12. /\ Extract(s) \in Seq(V) /\ Len(Extract(s)) = n + 1
       /\ \A k \in 1..n : Extract(s)[k] = ItemIn(st, es[k])
       /\ Extract(s)[n + 1] = "end"
  BY <1>10, <1>11
<1> QED BY <1>1, <1>12 DEF n
-----------------------------------------------------------------------------
(***************************************************************************)
(* An archive that nothing disturbed, between two entries, within a file,  *)
(* and ended.                                                              *)
(***************************************************************************)
Scanned(s, st, stk) ==
  \E es, ps : Sound(s, st, es, ps) /\ ps[Len(es)] = Len(s) /\ WalkInv(stk, Archived(es))
InFile(s, st, stk, f, n) ==
  \E es, ps : /\ Sound(s, st, es, ps) /\ f \notin Archived(es)
              /\ Written(s, st, f, ps[Len(es)], n) /\ Len(s) = ps[Len(es)] + Block + n
              /\ WalkInv(stk, Archived(es) \union {f})
Whole(s, st) == \E es, ps : Ended(s, st, es, ps)

GoodInv ==
  disturbed = {} =>
    /\ (tarStep = "scan" => Scanned(stream, statted, stack))
    /\ (tarStep = "body" => InFile(stream, statted, stack, file, off))
    /\ (tarStep = "close" /\ rc = 0 => Whole(stream, statted))
    /\ (tarResult = "0" => Whole(onDisk, statted))

\* The place behind the entries so far.
LEMMA SoundPlace ==
  ASSUME NEW s, NEW st, NEW es, NEW ps, Sound(s, st, es, ps)
  PROVE  Len(es) \in Nat /\ ps[Len(es)] \in Nat
<1>1. Len(es) \in Nat /\ ps \in [0..Len(es) -> Nat]
  BY DEF Sound, Places
<1>2. Len(es) \in 0..Len(es)
  BY <1>1
<1> QED BY <1>1, <1>2

LEMMA Concatenation ==
  ASSUME NEW s \in Seq(Byte), NEW t \in Seq(Byte)
  PROVE  /\ Len(s) \in Nat /\ Len(t) \in Nat
         /\ s \o t \in Seq(Byte) /\ Len(s \o t) = Len(s) + Len(t)
         /\ \A k \in 1..Len(s) : (s \o t)[k] = s[k]
         /\ \A k \in 1..Len(t) : (s \o t)[Len(s) + k] = t[k]
<1> HIDE DEF Byte
<1>1. /\ Len(s) \in Nat /\ Len(t) \in Nat
      /\ s \o t \in Seq(Byte) /\ Len(s \o t) = Len(s) + Len(t)
  OBVIOUS
<1>2. ASSUME NEW k \in 1..Len(s) PROVE (s \o t)[k] = s[k]
  OBVIOUS
<1>3. ASSUME NEW k \in 1..Len(t) PROVE (s \o t)[Len(s) + k] = t[k]
  OBVIOUS
<1> QED BY <1>1, <1>2, <1>3

LEMMA ScanStarts ==
  ASSUME NEW st, NEW stk, stk = <<[dir |-> Root, todo |-> Children[Root]]>>
  PROVE  Scanned(<<>>, st, stk)
<1> DEFINE es == <<>>
           ps == [i \in 0..0 |-> 0]
<1>1. Len(es) = 0 /\ es \in Seq(Packed \ {Root}) /\ Archived(es) = {}
  BY DEF Archived
<1>2. ps \in [0..0 -> Nat] /\ ps[0] = 0
  OBVIOUS
<1> HIDE DEF es, ps
<1>3. \A i \in 1..Len(es) : FALSE
  BY <1>1
<1>4. Places(es, ps)
  BY <1>1, <1>2 DEF Places
<1>5. Laid(<<>>, st, es, ps)
  BY <1>3 DEF Laid
<1>6. Sound(<<>>, st, es, ps)
  BY <1>1, <1>3, <1>4, <1>5 DEF Sound
<1>7. ps[Len(es)] = Len(<<>>)
  BY <1>1, <1>2
<1> QED BY <1>1, <1>6, <1>7, WalkStarts DEF Scanned

\* A header that says what is true of e.
LEMMA HeaderLaid ==
  ASSUME NEW s \in Seq(Byte), NEW st \in [RegFile -> Nat], NEW e \in Entry
  PROVE  LET x == s \o HeaderBytes(HeadIn(st, e))
         IN /\ HeaderBytes(HeadIn(st, e)) \in Seq(Byte) /\ x \in Seq(Byte)
            /\ Len(x) = Len(s) + Block /\ Written(x, st, e, Len(s), 0)
<1> DEFINE h == HeadIn(st, e)
           t == HeaderBytes(h)
           x == s \o t
           n == Len(s)
<1>1. h \in HeaderOf
  <2>1. SizeIn(st, e) \in Nat
    BY SizeInType
  <2> QED BY <2>1 DEF HeadIn, HeaderOf
<1> HIDE DEF h
<1>2. t \in Seq(Byte) /\ Len(t) = Block /\ \A k \in 1..Block : t[k] = <<"header", h, k>>
  BY <1>1, HeaderBytesReal
<1>3. Block \in Nat
  BY TarAssumption
<1> HIDE DEF t
<1>4. /\ n \in Nat /\ x \in Seq(Byte) /\ Len(x) = n + Block
      /\ \A k \in 1..Block : x[n + k] = t[k]
  BY <1>2, Concatenation
<1> HIDE DEF x, n
<1>5. \A k \in 1..Block : x[n + k] = <<"header", h, k>>
  BY <1>2, <1>4
<1>6. n + Block + 0 <= Len(x) /\ \A k \in 1..0 : FALSE
  BY <1>3, <1>4
<1>7. Written(x, st, e, n, 0)
  BY <1>5, <1>6 DEF Written, h
<1> QED BY <1>2, <1>4, <1>7 DEF n, x, t, h

\* An entry that is all header.
LEMMA DirLaid ==
  ASSUME NEW s \in Seq(Byte), NEW st \in [RegFile -> Nat], NEW es, NEW ps, Sound(s, st, es, ps),
         ps[Len(es)] = Len(s), NEW e \in Entry, e \in Dir, e \notin Archived(es),
         NEW x, x = s \o HeaderBytes(HeadIn(st, e))
  PROVE  Extended(x, st, es, e)
<1> DEFINE t == HeaderBytes(HeadIn(st, e))
<1>1. t \in Seq(Byte) /\ x = s \o t
  BY HeaderLaid
<1>2. x \in Seq(Byte) /\ Len(x) = Len(s) + Block /\ Written(x, st, e, Len(s), 0)
  BY HeaderLaid
<1>3. Sound(x, st, es, ps)
  BY <1>1, SoundMore
<1> HIDE DEF t
<1>4. e \in Packed \ {Root} /\ SizeIn(st, e) = 0
  BY TreeFacts DEF Packed, SizeIn
<1>5. After(st, e, ps[Len(es)]) = Len(x)
  <2>1. Padding(0) = 0
    <3>1. Block \in Nat /\ Block > 0
      BY TarAssumption
    <3>2. 0 % Block = 0 /\ Block % Block = 0
      BY <3>1
    <3>3. Block - 0 = Block
      BY <3>1
    <3> QED BY <3>2, <3>3 DEF Padding
  <2>2. Block \in Nat /\ Len(s) \in Nat
    BY TarAssumption
  <2> QED BY <1>2, <1>4, <2>1, <2>2 DEF After
<1>6. Written(x, st, e, ps[Len(es)], SizeIn(st, e))
  BY <1>2, <1>4
<1>7. x \in Seq(Byte)
  BY <1>2
<1>8. e \in Packed \ {Root}
  BY <1>4
<1> QED BY <1>3, <1>5, <1>6, <1>7, <1>8, SoundNext

LEMMA DirEntered ==
  ASSUME NEW s \in Seq(Byte), NEW st \in [RegFile -> Nat], NEW stk \in Seq(Frame), stk # <<>>,
         Scanned(s, st, stk), NEW e \in Entry \intersect Dir, e \in stk[Len(stk)].todo,
         NEW stk2 \in Seq(Frame), Taken(stk, stk2, e)
  PROVE  Scanned(s \o HeaderBytes(HeadIn(st, e)), st, Append(stk2, [dir |-> e, todo |-> Children[e]]))
<1> DEFINE x == s \o HeaderBytes(HeadIn(st, e))
           stk3 == Append(stk2, [dir |-> e, todo |-> Children[e]])
<1>1. PICK es, ps : Sound(s, st, es, ps) /\ ps[Len(es)] = Len(s) /\ WalkInv(stk, Archived(es))
  BY DEF Scanned
<1>2. WalkInv(stk3, Archived(es) \union {e}) /\ e \notin Archived(es)
  BY <1>1, WalkEnter
<1> HIDE DEF stk3
<1>3. Extended(x, st, es, e)
  BY <1>1, <1>2, DirLaid
<1> HIDE DEF x
<1>4. Scanned(x, st, stk3)
  BY <1>2, <1>3 DEF Scanned, Extended
<1> QED BY <1>4 DEF x, stk3

LEMMA FileStarted ==
  ASSUME NEW s \in Seq(Byte), NEW st \in [RegFile -> Nat], NEW stk \in Seq(Frame), stk # <<>>,
         Scanned(s, st, stk), NEW e \in RegFile, e \in stk[Len(stk)].todo, NEW n \in Nat,
         NEW stk2, Taken(stk, stk2, e), NEW st2, st2 = [st EXCEPT ![e] = n]
  PROVE  InFile(s \o HeaderBytes(HeadIn(st2, e)), st2, stk2, e, 0)
<1> DEFINE t == HeaderBytes(HeadIn(st2, e))
           x == s \o t
<1>1. PICK es, ps : Sound(s, st, es, ps) /\ ps[Len(es)] = Len(s) /\ WalkInv(stk, Archived(es))
  BY DEF Scanned
<1>2. WalkInv(stk2, Archived(es) \union {e}) /\ e \notin Archived(es)
  BY <1>1, WalkFile
<1>3. st2 \in [RegFile -> Nat] /\ e \in Entry
  BY TreeFacts
<1>4. x \in Seq(Byte) /\ Len(x) = Len(s) + Block /\ Written(x, st2, e, Len(s), 0)
  BY <1>3, HeaderLaid
<1>5. t \in Seq(Byte)
  BY <1>3, HeaderLaid
<1>6. Sound(s, st2, es, ps)
  BY <1>1, <1>2, SoundOther
<1>7. Sound(x, st2, es, ps)
  BY <1>3, <1>5, <1>6, SoundMore
<1> HIDE DEF x, t
<1>8. Len(x) = ps[Len(es)] + Block + 0
  <2>1. Block \in Nat /\ Len(s) \in Nat
    BY TarAssumption
  <2> QED BY <1>1, <1>4, <2>1
<1>9. InFile(x, st2, stk2, e, 0)
  BY <1>1, <1>2, <1>4, <1>7, <1>8 DEF InFile
<1> QED BY <1>9 DEF x, t

LEMMA FileGoesOn ==
  ASSUME NEW s \in Seq(Byte), NEW st \in [RegFile -> Nat], NEW stk, NEW f \in RegFile,
         NEW a \in Nat, NEW b \in Nat, a <= b, InFile(s, st, stk, f, a)
  PROVE  InFile(s \o FileBytes(f, a, b), st, stk, f, b)
<1> DEFINE t == FileBytes(f, a, b)
           x == s \o t
<1>1. PICK es, ps : /\ Sound(s, st, es, ps) /\ f \notin Archived(es)
                    /\ Written(s, st, f, ps[Len(es)], a) /\ Len(s) = ps[Len(es)] + Block + a
                    /\ WalkInv(stk, Archived(es) \union {f})
  BY DEF InFile
<1> DEFINE p == ps[Len(es)]
<1>2. p \in Nat /\ Block \in Nat
  BY <1>1, SoundPlace, TarAssumption
<1>3. t \in Seq(Byte) /\ Len(t) = b - a /\ \A k \in 1..(b - a) : t[k] = <<"file", f, a + k>>
  BY FileBytesReal
<1>4. Sound(x, st, es, ps) /\ Written(x, st, f, p, a)
  BY <1>1, <1>2, <1>3, SoundMore, WrittenMore
<1> HIDE DEF t
<1>5. /\ Len(x) = Len(s) + Len(t) /\ \A k \in 1..Len(t) : x[Len(s) + k] = t[k]
  BY <1>3, Concatenation
<1> HIDE DEF x, p
<1>6. Len(s) = p + Block + a
  BY <1>1 DEF p
<1>7. Len(x) = p + Block + b
  BY <1>2, <1>3, <1>5, <1>6
<1>8. ASSUME NEW k \in 1..b PROVE x[p + Block + k] = <<"file", f, k>>
  <2>1. CASE k \in 1..a
    BY <1>4, <2>1 DEF Written
  <2>2. CASE k \notin 1..a
    <3> DEFINE j == k - a
    <3>1. j \in 1..(b - a) /\ a + j = k /\ Len(s) + j = p + Block + k
      BY <1>2, <1>6, <2>2
    <3> HIDE DEF j
    <3>2. x[Len(s) + j] = t[j] /\ t[j] = <<"file", f, a + j>>
      BY <1>3, <1>5, <3>1
    <3> QED BY <3>1, <3>2
  <2> QED BY <2>1, <2>2
<1>9. p + Block + b <= Len(x)
  BY <1>2, <1>7
<1>10. Written(x, st, f, p, b)
  BY <1>4, <1>8, <1>9 DEF Written
<1>11. InFile(x, st, stk, f, b)
  BY <1>1, <1>4, <1>7, <1>10 DEF InFile, p
<1> QED BY <1>11 DEF x, t

LEMMA ZerosReal ==
  ASSUME NEW n \in Nat
  PROVE  Zeros(n) \in Seq(Byte) /\ Len(Zeros(n)) = n /\ \A k \in 1..n : Zeros(n)[k] = Zero
<1>1. Zero \in Byte
  BY DEF Zero, Byte
<1>2. Zeros(n) = [k \in 1..n |-> Zero]
  BY DEF Zeros, Zero
<1> HIDE DEF Byte
<1> QED BY <1>1, <1>2

LEMMA FilePadded ==
  ASSUME NEW s \in Seq(Byte), NEW st \in [RegFile -> Nat], NEW stk, NEW f \in RegFile,
         InFile(s, st, stk, f, st[f])
  PROVE  Scanned(s \o Zeros(Padding(st[f])), st, stk)
<1> DEFINE n == Padding(st[f])
           t == Zeros(n)
           x == s \o t
<1>1. PICK es, ps : /\ Sound(s, st, es, ps) /\ f \notin Archived(es)
                    /\ Written(s, st, f, ps[Len(es)], st[f]) /\ Len(s) = ps[Len(es)] + Block + st[f]
                    /\ WalkInv(stk, Archived(es) \union {f})
  BY DEF InFile
<1>2. ps[Len(es)] \in Nat /\ Block \in Nat /\ st[f] \in Nat /\ SizeIn(st, f) = st[f]
  BY <1>1, SoundPlace, TarAssumption DEF SizeIn
<1>3. n \in Nat
  <2>1. n \in 0..(Block - 1)
    BY <1>2, PaddingType
  <2> HIDE DEF n
  <2> QED BY <1>2, <2>1
<1>4. After(st, f, ps[Len(es)]) = ps[Len(es)] + Block + st[f] + n
  BY <1>2 DEF After
<1> HIDE DEF n
<1>5. t \in Seq(Byte) /\ Len(t) = n
  BY <1>3, ZerosReal
<1>6. /\ Sound(x, st, es, ps) /\ Written(x, st, f, ps[Len(es)], SizeIn(st, f))
  BY <1>1, <1>2, <1>5, SoundMore, WrittenMore
<1>7. x \in Seq(Byte) /\ Len(x) = Len(s) + n
  BY <1>5, Concatenation
<1> HIDE DEF t, x
<1>8. After(st, f, ps[Len(es)]) = Len(x)
  BY <1>1, <1>2, <1>3, <1>4, <1>7
<1>9. f \in Packed \ {Root}
  BY TreeFacts DEF Packed
<1>10. Extended(x, st, es, f)
  BY <1>1, <1>6, <1>7, <1>8, <1>9, SoundNext
<1>11. Scanned(x, st, stk)
  BY <1>1, <1>10 DEF Scanned, Extended
<1> QED BY <1>11 DEF x, t, n

LEMMA ArchiveEnded ==
  ASSUME NEW s \in Seq(Byte), NEW st \in [RegFile -> Nat], Scanned(s, st, <<>>)
  PROVE  Whole(s \o Zeros(2 * Block), st)
<1> DEFINE n == 2 * Block
           t == Zeros(n)
           x == s \o t
<1>1. PICK es, ps : Sound(s, st, es, ps) /\ ps[Len(es)] = Len(s) /\ WalkInv(<<>>, Archived(es))
  BY DEF Scanned
<1>2. Archived(es) = RegFile \union (Dir \ {Root})
  BY <1>1, WalkEnds
<1>3. n \in Nat
  BY TarAssumption
<1>4. t \in Seq(Byte) /\ Len(t) = n /\ \A k \in 1..n : t[k] = Zero
  BY <1>3, ZerosReal
<1>5. Sound(x, st, es, ps)
  BY <1>1, <1>4, SoundMore
<1>6. Len(x) = Len(s) + n /\ \A k \in 1..n : x[Len(s) + k] = t[k]
  BY <1>4, Concatenation
<1> HIDE DEF x, t
<1>7. \A k \in 1..n : x[ps[Len(es)] + k] = Zero
  BY <1>1, <1>4, <1>6
<1>8. Len(x) = ps[Len(es)] + n
  BY <1>1, <1>6
<1>9. Ended(x, st, es, ps)
  BY <1>2, <1>5, <1>7, <1>8 DEF Ended
<1> QED BY <1>9 DEF Whole, x, t

LEMMA GoodSteps == TarType /\ TornInv /\ GoodInv /\ [TarNext]_tarVars => GoodInv'
<1> SUFFICES ASSUME TarType, TornInv, GoodInv, [TarNext]_tarVars, disturbed' = {}
             PROVE  /\ (tarStep' = "scan" => Scanned(stream', statted', stack'))
                    /\ (tarStep' = "body" => InFile(stream', statted', stack', file', off'))
                    /\ (tarStep' = "close" /\ rc' = 0 => Whole(stream', statted'))
                    /\ (tarResult' = "0" => Whole(onDisk', statted'))
  BY DEF GoodInv
<1> DEFINE Now == /\ (tarStep = "scan" => Scanned(stream, statted, stack))
                  /\ (tarStep = "body" => InFile(stream, statted, stack, file, off))
                  /\ (tarStep = "close" /\ rc = 0 => Whole(stream, statted))
                  /\ (tarResult = "0" => Whole(onDisk, statted))
           Goal == /\ (tarStep' = "scan" => Scanned(stream', statted', stack'))
                   /\ (tarStep' = "body" => InFile(stream', statted', stack', file', off'))
                   /\ (tarStep' = "close" /\ rc' = 0 => Whole(stream', statted'))
                   /\ (tarResult' = "0" => Whole(onDisk', statted'))
<1> USE DEF fsVars
<1>0. Block \in Nat /\ Block > 0
  BY TarAssumption
<1>n. tarStep # "closed" => tarResult = "none"
  BY DEF TornInv
<1>t. stream \in Seq(Byte) /\ statted \in [RegFile -> Nat] /\ stack \in Seq(Frame)
  BY DEF TarType
<1>1. ASSUME NEW f \in RegFile, ChangeFile(f) PROVE Goal
  BY <1>1 DEF ChangeFile, GoodInv
<1>2. CASE OpenArchive
  <2>1. stream' = <<>> /\ tarResult' = "none" /\ tarStep' = "scan"
    BY <1>2, <1>n DEF OpenArchive, TornInv
  <2>2. Scanned(<<>>, statted', stack')
    BY <1>2, ScanStarts DEF OpenArchive
  <2> QED BY <2>1, <2>2
<1>3. CASE OpenArchiveFails
  BY <1>3 DEF OpenArchiveFails
<1>4. ASSUME NEW e \in Entry, EnterDir(e) PROVE Goal
  <2>1. /\ tarStep = "scan" /\ tarStep' = "scan" /\ stack # <<>> /\ e \in Todo /\ e \in Dir
        /\ stack' = Append(Visited(e), [dir |-> e, todo |-> Children[e]])
        /\ stream' = stream \o HeaderBytes(Header(e, "5", 0)) /\ statted' = statted
        /\ disturbed = {} /\ CutNames(e) = {} /\ tarResult' = "none"
    BY <1>4, <1>n DEF EnterDir, WriteHeader
  <2>2. Header(e, "5", 0) = HeadIn(statted, e)
    <3>1. nameLen[e] < NameField
      BY <2>1 DEF CutNames
    <3>2. e \notin RegFile
      BY <2>1, TreeFacts
    <3> QED BY <3>1, <3>2 DEF Header, HeaderName, HeadIn, SizeIn
  <2>3. Taken(stack, Visited(e), e) /\ Visited(e) \in Seq(Frame) /\ Todo = stack[Len(stack)].todo
    BY <2>1, VisitedTaken
  <2>4. Scanned(stream, statted, stack)
    BY <2>1 DEF GoodInv
  <2>5. e \in stack[Len(stack)].todo /\ e \in Entry \intersect Dir
    BY <2>1, <2>3
  <2>6. Scanned(stream \o HeaderBytes(HeadIn(statted, e)), statted,
                Append(Visited(e), [dir |-> e, todo |-> Children[e]]))
    BY <1>t, <2>1, <2>3, <2>4, <2>5, DirEntered
  <2>7. Scanned(stream', statted', stack')
    BY <2>1, <2>2, <2>6
  <2> QED BY <2>1, <2>7
<1>5. ASSUME NEW e \in Entry, StartFile(e) PROVE Goal
  <2>1. /\ tarStep = "scan" /\ tarStep' = "body" /\ stack # <<>> /\ e \in Todo /\ e \in RegFile
        /\ stack' = Visited(e) /\ file' = e /\ off' = 0
        /\ stream' = stream \o HeaderBytes(Header(e, "0", size[e]))
        /\ statted' = [statted EXCEPT ![e] = size[e]]
        /\ disturbed = {} /\ CutNames(e) = {} /\ tarResult' = "none"
    BY <1>5, <1>n DEF StartFile, WriteHeader
  <2>2. Header(e, "0", size[e]) = HeadIn(statted', e)
    <3>1. nameLen[e] < NameField
      BY <2>1 DEF CutNames
    <3>2. statted'[e] = size[e]
      BY <1>t, <2>1
    <3> QED BY <2>1, <3>1, <3>2 DEF Header, HeaderName, HeadIn, SizeIn
  <2>3. Taken(stack, Visited(e), e) /\ Todo = stack[Len(stack)].todo
    BY <2>1, VisitedTaken
  <2>4. Scanned(stream, statted, stack) /\ size[e] \in Nat
    BY <2>1 DEF GoodInv, TarType
  <2>5. e \in stack[Len(stack)].todo
    BY <2>1, <2>3
  <2>6. InFile(stream \o HeaderBytes(HeadIn(statted', e)), statted', Visited(e), e, 0)
    BY <1>t, <2>1, <2>3, <2>4, <2>5, FileStarted
  <2>7. InFile(stream', statted', stack', file', off')
    BY <2>1, <2>2, <2>6
  <2> QED BY <2>1, <2>7
<1>6. ASSUME NEW e \in Entry, SkipSpecial(e) PROVE Goal
  <2>1. /\ tarStep = "scan" /\ tarStep' = "scan" /\ stack # <<>> /\ e \in Todo /\ e \notin Packed
        /\ stack' = Visited(e) /\ stream' = stream /\ statted' = statted
        /\ disturbed = {} /\ tarResult' = "none"
    BY <1>6, <1>n DEF SkipSpecial, Packed
  <2>2. PICK es, ps : /\ Sound(stream, statted, es, ps) /\ ps[Len(es)] = Len(stream)
                      /\ WalkInv(stack, Archived(es))
    BY <2>1 DEF GoodInv, Scanned
  <2>3. Taken(stack, Visited(e), e) /\ e \in stack[Len(stack)].todo
    BY <2>1, VisitedTaken
  <2>4. WalkInv(Visited(e), Archived(es))
    BY <1>t, <2>1, <2>2, <2>3, WalkSpecial
  <2>5. Scanned(stream', statted', stack')
    BY <2>1, <2>2, <2>4 DEF Scanned
  <2> QED BY <2>1, <2>5
<1>7. CASE OpendirFails
  BY <1>7 DEF OpendirFails
<1>8. CASE ReadChunk
  <2>1. /\ tarStep = "body" /\ tarStep' = "body" /\ off < size[file] /\ off' = size[file]
        /\ stream' = stream \o FileBytes(file, off, size[file]) /\ statted' = statted
        /\ stack' = stack /\ file' = file /\ disturbed = {} /\ tarResult' = "none"
    BY <1>8, <1>n DEF ReadChunk
  <2>2. file \in RegFile /\ off \in Nat /\ size[file] \in Nat
    BY <2>1 DEF TarType
  <2>3. off <= size[file]
    BY <2>1, <2>2
  <2>4. InFile(stream, statted, stack, file, off)
    BY <2>1 DEF GoodInv
  <2>5. InFile(stream \o FileBytes(file, off, size[file]), statted, stack, file, size[file])
    BY <1>t, <2>2, <2>3, <2>4, FileGoesOn
  <2>6. InFile(stream', statted', stack', file', off')
    BY <2>1, <2>5
  <2> QED BY <2>1, <2>6
<1>9. CASE PadFile
  <2>1. /\ tarStep = "body" /\ tarStep' = "scan" /\ disturbed = {} /\ off = statted[file]
        /\ stream' = stream \o Zeros(Padding(statted[file])) /\ statted' = statted
        /\ stack' = stack /\ tarResult' = "none"
    BY <1>9, <1>n DEF PadFile
  <2>2. file \in RegFile
    BY <2>1 DEF TarType
  <2>3. InFile(stream, statted, stack, file, statted[file])
    BY <2>1 DEF GoodInv
  <2>4. Scanned(stream \o Zeros(Padding(statted[file])), statted, stack)
    BY <1>t, <2>2, <2>3, FilePadded
  <2>5. Scanned(stream', statted', stack')
    BY <2>1, <2>4
  <2> QED BY <2>1, <2>5
<1>10. CASE LeaveDir
  <2>1. /\ tarStep = "scan" /\ tarStep' = "scan" /\ stack # <<>> /\ stack[Len(stack)].todo = {}
        /\ stack' = Front(stack) /\ stream' = stream /\ statted' = statted
        /\ disturbed = {} /\ tarResult' = "none"
    BY <1>10, <1>n DEF LeaveDir, Todo
  <2>2. PICK es, ps : /\ Sound(stream, statted, es, ps) /\ ps[Len(es)] = Len(stream)
                      /\ WalkInv(stack, Archived(es))
    BY <2>1 DEF GoodInv, Scanned
  <2>3. WalkInv(Front(stack), Archived(es))
    BY <1>t, <2>1, <2>2, WalkLeave
  <2>4. Scanned(stream', statted', stack')
    BY <2>1, <2>2, <2>3 DEF Scanned
  <2> QED BY <2>1, <2>4
<1>11. CASE WalkFails
  BY <1>11, <1>n DEF WalkFails
<1>12. ASSUME NEW n \in 0..2, EndArchive(n) PROVE Goal
  <2>1. /\ tarStep = "scan" /\ tarStep' = "close" /\ stack = <<>> /\ disturbed = {}
        /\ stream' = stream \o Zeros(n * Block) /\ statted' = statted
        /\ (rc' = 0 => n = 2) /\ tarResult' = "none"
    BY <1>12, <1>n DEF EndArchive
  <2>2. Scanned(stream, statted, <<>>)
    BY <2>1 DEF GoodInv
  <2>3. Whole(stream \o Zeros(2 * Block), statted)
    BY <1>t, <2>2, ArchiveEnded
  <2>4. rc' = 0 => Whole(stream', statted')
    BY <2>1, <2>3
  <2> QED BY <2>1, <2>4
<1>13. ASSUME NEW n \in {0, Len(stream) \div 2, Len(stream)}, CloseArchive(n) PROVE Goal
  <2>1. /\ tarStep = "close" /\ tarStep' = "closed" /\ onDisk' = SubSeq(stream, 1, n)
        /\ n = Len(stream) /\ disturbed = {} /\ statted' = statted
    BY <1>13 DEF CloseArchive
  <2>2. tarResult' = "0" => rc = 0
    BY <1>13 DEF CloseArchive
  <2>3. SubSeq(stream, 1, Len(stream)) = stream
    <3> HIDE DEF Byte
    <3> QED BY <1>t
  <2>4. rc = 0 => Whole(stream, statted)
    BY <2>1 DEF GoodInv
  <2>5. tarResult' = "0" => Whole(onDisk', statted')
    BY <2>1, <2>2, <2>3, <2>4
  <2> QED BY <2>1, <2>5
<1>14. CASE UNCHANGED tarVars
  BY <1>14 DEF tarVars, GoodInv
<1> QED BY <1>1, <1>2, <1>3, <1>4, <1>5, <1>6, <1>7, <1>8, <1>9, <1>10, <1>11, <1>12, <1>13,
           <1>14 DEF TarNext

\* A whole archive gives back what was in the directory, every entry once.
LEMMA WholeRestores ==
  ASSUME TarType, Whole(onDisk, statted)
  PROVE  LET x == Extract(onDisk)
         IN /\ Last(x) = "end"
            /\ ToSet(Front(x)) = Expected
            /\ Len(x) = Cardinality(Expected) + 1
<1> DEFINE x == Extract(onDisk)
<1>1. onDisk \in Seq(Byte) /\ statted \in [RegFile -> Nat]
  BY DEF TarType
<1>2. PICK es, ps : Ended(onDisk, statted, es, ps)
  BY DEF Whole
<1> DEFINE n == Len(es)
<1>3. /\ n \in Nat /\ (\E V : x \in Seq(V)) /\ Len(x) = n + 1
      /\ \A i \in 1..n : x[i] = ItemIn(statted, es[i])
      /\ x[n + 1] = "end"
  BY <1>1, <1>2, ReadAll
<1>4. PICK V : x \in Seq(V)
  BY <1>3
<1> HIDE DEF x, n
<1>5. Last(x) = "end"
  BY <1>3 DEF Last
<1>6. Len(Front(x)) = n /\ \A i \in 1..n : Front(x)[i] = ItemIn(statted, es[i])
  <2>1. x # <<>>
    BY <1>3
  <2>2. /\ Len(x) \in Nat /\ Len(x) > 0 /\ Len(Front(x)) = Len(x) - 1
        /\ \A k \in 1..(Len(x) - 1) : Front(x)[k] = x[k]
    BY <1>4, <2>1, FrontFacts
  <2>3. Len(x) - 1 = n
    BY <1>3
  <2> QED BY <1>3, <2>2, <2>3
<1>7. Archived(es) = {es[i] : i \in 1..n} /\ Archived(es) = RegFile \union (Dir \ {Root})
      /\ \A i, j \in 1..n : es[i] = es[j] => i = j
  BY <1>2 DEF Ended, Sound, Archived, n
<1>8. Expected = {ItemIn(statted, e) : e \in Archived(es)}
  <2>1. ASSUME NEW f \in RegFile
        PROVE  ItemIn(statted, f) = [name |-> <<"whole", f>>, type |-> "0", body |-> FileBytes(f, 0, statted[f])]
    BY DEF ItemIn, SizeIn
  <2>2. ASSUME NEW d \in Dir
        PROVE  ItemIn(statted, d) = [name |-> <<"whole", d>>, type |-> "5", body |-> <<>>]
    <3>1. d \notin RegFile
      BY TreeFacts
    <3>2. FileBytes(d, 0, 0) = <<>>
      BY DEF FileBytes
    <3> QED BY <3>1, <3>2 DEF ItemIn, SizeIn
  <2>3. Expected = {ItemIn(statted, f) : f \in RegFile} \union {ItemIn(statted, d) : d \in Dir \ {Root}}
    <3>1. {ItemIn(statted, f) : f \in RegFile}
          = {[name |-> <<"whole", f>>, type |-> "0", body |-> FileBytes(f, 0, statted[f])] : f \in RegFile}
      BY <2>1
    <3>2. {ItemIn(statted, d) : d \in Dir \ {Root}}
          = {[name |-> <<"whole", d>>, type |-> "5", body |-> <<>>] : d \in Dir \ {Root}}
      BY <2>2
    <3> QED BY <3>1, <3>2 DEF Expected
  <2> QED BY <1>7, <2>3
<1>9. Expected = {ItemIn(statted, es[i]) : i \in 1..n}
  BY <1>7, <1>8
<1>10. ToSet(Front(x)) = Expected
  BY <1>6, <1>9 DEF ToSet
<1>11. Cardinality(Expected) = n
  <2> DEFINE g == [i \in 1..n |-> ItemIn(statted, es[i])]
  <2>1. ASSUME NEW d, NEW e, ItemIn(statted, d) = ItemIn(statted, e) PROVE d = e
    <3>1. ItemIn(statted, d).name = <<"whole", d>> /\ ItemIn(statted, e).name = <<"whole", e>>
      BY DEF ItemIn
    <3>2. <<"whole", d>> = <<"whole", e>>
      BY <2>1, <3>1
    <3> QED BY <3>2
  <2>2. \A i, j \in 1..n : g[i] = g[j] => i = j
    BY <1>7, <2>1
  <2>3. g \in Bijection(1..n, Expected)
    <3>1. g \in [1..n -> Expected]
      BY <1>9
    <3>2. \A t \in Expected : \E i \in 1..n : g[i] = t
      BY <1>9
    <3> HIDE DEF g
    <3>3. g \in Injection(1..n, Expected)
      BY <2>2, <3>1 DEF Injection, IsInjective
    <3>4. g \in Surjection(1..n, Expected)
      BY <3>1, <3>2 DEF Surjection
    <3> QED BY <3>3, <3>4 DEF Bijection
  <2>4. IsFiniteSet(1..n) /\ Cardinality(1..n) = n
    BY <1>3, FS_Interval
  <2> QED BY <2>3, <2>4, FS_Bijection DEF ExistsBijection
<1>12. Len(x) = Cardinality(Expected) + 1
  BY <1>3, <1>11
<1> QED BY <1>5, <1>10, <1>12 DEF x

\* What rrd_archive_create() calls good, and nothing disturbed, gives every
\* file with the bytes it had and every directory back, each once, whatever
\* the tree, the sizes and the block size are.
THEOREM GoodAlwaysRestores == TarSpec => []GoodArchiveRestores
<1>1. TarInit => GoodInv
  BY DEF TarInit, GoodInv
<1>2. TarType /\ GoodInv => GoodArchiveRestores
  <2> SUFFICES ASSUME TarType, GoodInv, tarResult = "0", disturbed = {}
               PROVE  LET x == Extract(onDisk)
                      IN /\ Last(x) = "end"
                         /\ ToSet(Front(x)) = Expected
                         /\ Len(x) = Cardinality(Expected) + 1
    BY DEF GoodArchiveRestores
  <2>1. Whole(onDisk, statted)
    BY DEF GoodInv
  <2> QED BY <2>1, WholeRestores
<1> QED BY <1>1, <1>2, TarInitially, TarSteps, GoodSteps, PTL DEF TarSpec
=============================================================================
