----------------------------- MODULE RrdConfig ------------------------------
(***************************************************************************)
(* rrd_config_load(): where the upload server, the upload link, the        *)
(* protocol and the build type come from.  Two property files of the       *)
(* image are read first; then, unless /opt/dcm.properties overrides them,  *)
(* RFC and /tmp/DCMSettings.conf; and when the server or the link is still *)
(* missing, a dcm.properties file.                                         *)
(*                                                                         *)
(* A value is known by the source it came from.  The files may be changed  *)
(* while the function runs, so what a source holds is chosen when it is    *)
(* read, and whether /opt/dcm.properties exists each time it is asked.     *)
(* RDK_PATH and LOG_PATH are read like UPLOAD_PROTOCOL and used nowhere.   *)
(***************************************************************************)
EXTENDS Naturals, Sequences

CONSTANTS
  PropertiesText,  \* bound: what the lines of a property file may hold,
  DcmText          \* and those of DCMSettings.conf; "" is an empty value

Field == {"LOG_SERVER", "HTTP_UPLOAD_LINK", "UPLOAD_PROTOCOL", "BUILD_TYPE"}
Text == UNION {[F -> {"", "x", "prod", "dev"}] : F \in SUBSET Field}

\* A file that is absent or cannot be opened is one without lines.
ASSUME ConfigAssumption ==
  PropertiesText \subseteq Text /\ DcmText \subseteq Text /\ <<>> \in PropertiesText

\* What the two parameters of RFC hold; "" when there is no tr181, or it fails.
RfcText == [{"LOG_SERVER", "HTTP_UPLOAD_LINK"} -> {"", "null", "x"}]

VARIABLES
  step,      \* the next step of rrd_config_load(), "loaded" at the end
  config,    \* the source and the value of every field
  override,  \* is_prod_with_override
  useRfc,    \* use_rfc_config
  given,     \* history: the sources gone through and what they held, in order
  result

configVars == <<step, config, override, useRfc, given, result>>

Unset == [from |-> "none", value |-> ""]

ConfigInit ==
  /\ step = "include"
  /\ config = [f \in Field |->
       IF f = "UPLOAD_PROTOCOL" THEN [from |-> "default", value |-> "HTTP"] ELSE Unset]
  /\ override = FALSE /\ useRfc = FALSE
  /\ given = <<>>
  /\ result = "none"
-----------------------------------------------------------------------------
\* What the lines of a property file assign: an empty value assigns nothing.
ParsedProperties(text) == [f \in {g \in DOMAIN text : text[g] # ""} |-> text[f]]

\* In DCMSettings.conf an empty protocol means HTTP.
ParsedDcm(text) ==
  [f \in {g \in DOMAIN text : text[g] # "" \/ g = "UPLOAD_PROTOCOL"} |->
     IF text[f] = "" THEN "HTTP" ELSE text[f]]

\* Source src, which holds text, assigns a, a value for each field of its
\* domain.
Assign(src, text, a) ==
  /\ config' = [f \in Field |->
       IF f \in DOMAIN a THEN [from |-> src, value |-> a[f]] ELSE config[f]]
  /\ given' = Append(given, [from |-> src, text |-> text])

IsSet(f) == config[f].value # ""
OffProd == config["BUILD_TYPE"].value # "prod"

\* The two property files of the image.
ParseProperties(file, next) ==
  /\ step = file
  /\ \E text \in PropertiesText : Assign(file, text, ParsedProperties(text))
  /\ step' = next
  /\ UNCHANGED <<override, useRfc, result>>

\* Outside production an existing /opt/dcm.properties keeps RFC and
\* DCMSettings.conf from being read.
ChooseSources(exists) ==
  /\ step = "choose"
  /\ override' = (OffProd /\ exists)
  /\ step' = IF override' THEN "fallback" ELSE "rfc"
  /\ UNCHANGED <<config, useRfc, given, result>>

\* Two tr181 queries, the one for the link only when there is none yet: an
\* empty answer and "null" give nothing, a link gets the path of the script.
RfcAnswers(text) ==
  [f \in {g \in DOMAIN text : text[g] \notin {"", "null"} /\ ~(g = "HTTP_UPLOAD_LINK" /\ IsSet(g))} |->
     IF f = "HTTP_UPLOAD_LINK" THEN "x/cgi-bin/S3.cgi" ELSE "x"]

\* The server of RFC replaces that of the property files.
QueryRfc ==
  /\ step = "rfc"
  /\ \E text \in RfcText :
       /\ Assign("rfc", text, RfcAnswers(text))
       /\ useRfc' = (DOMAIN RfcAnswers(text) # {})
  /\ step' = "DCMSettings"
  /\ UNCHANGED <<override, result>>

\* Mutant: an empty value in DCMSettings.conf empties the field.
ParseDcmSettingsEmpty ==
  /\ step = "DCMSettings"
  /\ \E text \in DcmText : Assign("DCMSettings", text, text)
  /\ step' = "fallback"
  /\ UNCHANGED <<override, useRfc, result>>

ParseDcmSettings ==
  /\ step = "DCMSettings"
  /\ \E text \in DcmText : Assign("DCMSettings", text, ParsedDcm(text))
  /\ step' = "fallback"
  /\ UNCHANGED <<override, useRfc, result>>

\* Mutant: dcm.properties is tried only when both are missing.
NeedsFallbackBoth == ~IsSet("LOG_SERVER") /\ ~IsSet("HTTP_UPLOAD_LINK")

NeedsFallback == ~IsSet("LOG_SERVER") \/ ~IsSet("HTTP_UPLOAD_LINK")

\* A dcm.properties file assigns all it has, also a field that was set.
ParseFallback(exists) ==
  /\ step = "fallback"
  /\ NeedsFallback
  /\ \E text \in PropertiesText :
       Assign(IF OffProd /\ exists THEN "opt" ELSE "etc", text, ParsedProperties(text))
  /\ step' = "validate"
  /\ UNCHANGED <<override, useRfc, result>>

NoFallback ==
  /\ step = "fallback"
  /\ ~NeedsFallback
  /\ step' = "validate"
  /\ UNCHANGED <<config, override, useRfc, given, result>>

Validate ==
  /\ step = "validate"
  /\ result' = CASE ~IsSet("LOG_SERVER") -> "-2"
                 [] IsSet("LOG_SERVER") /\ ~IsSet("HTTP_UPLOAD_LINK") -> "-3"
                 [] OTHER -> "0"
  /\ step' = "loaded"
  /\ UNCHANGED <<config, override, useRfc, given>>

ConfigNext ==
  \/ ParseProperties("include", "device") \/ ParseProperties("device", "choose")
  \/ \E exists \in BOOLEAN : ChooseSources(exists) \/ ParseFallback(exists)
  \/ QueryRfc \/ ParseDcmSettings \/ NoFallback \/ Validate

ConfigSpec == ConfigInit /\ [][ConfigNext]_configVars
-----------------------------------------------------------------------------
\* Source s held something for field f.
Offered(s, f) == f \in DOMAIN s.text /\ s.text[f] \notin {"", "null"}

\* rrd_config_load() gives up only when there is nothing to be had: each of
\* the sources was gone through, RFC and DCMSettings.conf unless overridden,
\* a dcm.properties in the end, and none of them held the field that is
\* missing, although which of them are asked for what, and whether what they
\* hold is taken, depends on what the ones before them left.
FailureIsReal ==
  result \in {"-2", "-3"} =>
    LET missing == IF result = "-2" THEN "LOG_SERVER" ELSE "HTTP_UPLOAD_LINK"
        asked == {given[i].from : i \in 1..Len(given)}
    IN /\ \A i \in 1..Len(given) : ~Offered(given[i], missing)
       /\ {"include", "device"} \subseteq asked
       /\ ~override => {"rfc", "DCMSettings"} \subseteq asked
       /\ {"opt", "etc"} \intersect asked # {}

\* A field that has a value never loses it again, whatever the later sources
\* hold: empty lines, empty files, a null answer.
ValuesKept ==
  [][\A f \in Field : config[f].value # "" => config'[f].value # ""]_configVars
=============================================================================
