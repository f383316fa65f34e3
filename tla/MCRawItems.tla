----------------------------- MODULE MCRawItems -----------------------------
(* Small instances of RawItems. *)
EXTENDS RawItems

(* Items 1 and 3 tell one story, item 2 one of its own: the item of the    *)
(* second batch meets the event of the first.                              *)
MCStory(i) == IF i = 3 THEN 1 ELSE i
MCContent(i) == i

(* Items 1 and 2 are copies of one text.                                   *)
MCSame(i) == IF i = 2 THEN 1 ELSE i
=============================================================================
