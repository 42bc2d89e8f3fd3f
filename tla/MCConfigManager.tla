-------------------------- MODULE MCConfigManager --------------------------
(* Small instances of ConfigManager.  The last candidate of a base is never *)
(* taken, so a base that is tried k times here has k + 1 candidates.        *)
EXTENDS ConfigManager, TLC

\* One name is made by the window, one by the start and by renaming, and one by
\* the pre-0.4 file.
Plain == {"Default", "New", "Work"}
PlainFold == [n \in Plain |-> n]
PlainSuffixed ==
  ("New config" :> <<"New", "Default">>) @@
  ("Default" :> <<"Default", "Work">>) @@
  ("old_config" :> <<"Work", "New">>)

\* Two names are enough for what a crash leaves behind: a renamed file, one
\* whose entry is gone, one half written.
Few == {"Default", "New"}
FewFold == [n \in Few |-> n]
FewSuffixed == [b \in Bases |-> <<IF b = "New config" THEN "New" ELSE "Default", "New">>]

\* One more name, so that two of a base can be there at once.
Wide == {"Default", "New", "New1", "Work"}
WideFold == [n \in Wide |-> n]
WideSuffixed ==
  ("New config" :> <<"New", "New1", "Work">>) @@
  ("Default" :> <<"Default", "Work">>) @@
  ("old_config" :> <<"New1", "Work">>)

Identities == Permutations(Ids)
=============================================================================
