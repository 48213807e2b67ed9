---------------------------- MODULE MCDictionary ----------------------------
(* Every dictionary of up to MaxEntries words with every MaxTags tags.        *)
EXTENDS Dictionary

CONSTANTS MaxEntries, MaxTags

MCRequests ==
  UNION {[dictionary : [1 .. n -> Words], tag_name : [1 .. MaxTags -> Numbers]] :
           n \in 0 .. MaxEntries}
=============================================================================
