---------------------------- MODULE MCRrdService ----------------------------
(***************************************************************************)
(* An instance of RrdService for TLC: a profile with a category that mixes *)
(* issue types with and without commands, a flat one, a nested one, and    *)
(* one called like the word for all; the strings set are two in another    *)
(* case, one with a second line, which the file cuts off, and the two that *)
(* stand for all.                                                          *)
(***************************************************************************)
EXTENDS RrdService, TLC

MCCategory == {"all", "", "device", "device+", "video", "Nested"}
MCFirstLine == [c \in MCCategory |-> IF c = "device+" THEN "device" ELSE c]
MCProfile ==
  "Device" :> ("Info" :> TRUE @@ "More" :> FALSE)
  @@ "Video" :> ("Decoder" :> TRUE)
  @@ "Nested" :> ("Category" :> FALSE)
  @@ "All" :> ("Any" :> TRUE)
MCKeyOf ==
  [c \in MCCategory |->
     CASE c = "device" -> "Device" [] c = "video" -> "Video"
       [] c = "Nested" -> "Nested" [] c = "all" -> "All" [] OTHER -> NoKey]
=============================================================================
