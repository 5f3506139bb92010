---------------------------- MODULE MCKipSettings ----------------------------
(* A console with one or two releases of hoc.kip, two KIP settings, another  *)
(* setting and one title.                                                    *)
EXTENDS KipSettings

MCFields == {"stock", "tuned", "torn", "mixed"}
MCCrc == {NoCrc} \cup (Release \X MCFields \X Speedo)
=============================================================================
