----------------------------- MODULE MCCampaign -----------------------------
(* CoreMark, a benchmark of Embench that -c excludes, and one of the       *)
(* repository's own, each with two rows in two classes.                    *)
EXTENDS Campaign

MCBenches == <<"coremark", "edn", "pidctl">>
MCExclude == {"nettle-aes", "nettle-sha256", "md5sum", "aha-mont64", "picojpeg", "edn"}
MCLetters == [b \in Name |->
  IF b = "coremark" THEN {"c", "o", "r", "e", "m", "a", "k"}
  ELSE IF b = "edn" THEN {"e", "d", "n"} ELSE {"p", "i", "d", "c", "t", "l"}]

Counted(cls, bitwidth, count) == [cls |-> cls, bitwidth |-> bitwidth, count |-> count]

MCRows == [b \in Name |->
  IF b = "coremark" THEN << Counted("ALU", 1, 3), Counted("ST", 0, 1) >>
  ELSE IF b = "edn" THEN << Counted("ALU", 0, 1), Counted("ST", 2, 2) >>
  ELSE << Counted("ALU", 1, 1), Counted("ST", 1, 1) >>]

MCRepositories == << {"coremark"}, {"edn"} >>
MCBuildOrder   == <<"edn", "coremark", "pidctl">>

MCByHand ==
  { All, [Target EXCEPT !.no_by_benchmark = TRUE], [All EXCEPT !.name = "edn"] }
=============================================================================
