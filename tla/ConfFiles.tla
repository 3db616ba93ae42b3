------------------------------ MODULE ConfFiles ------------------------------
(***************************************************************************)
(* The configuration files of a flash root, and the three functions of     *)
(* sysconf that preserve them: sysconf_save_conffiles makes a list and a   *)
(* copy, sysconf_restore_conffiles puts the copy back, asking the user     *)
(* about the files marked 'diff', and sysconf_test_restore tells in        *)
(* advance whether it would ask.  A tree gives each path its content, or   *)
(* None where there is no file.                                            *)
(***************************************************************************)
EXTENDS Naturals, Sequences

CONSTANTS
    File,      \* configuration files, other than the three of System
    Preserve,  \* those that etc/default/conffiles marks 'preserve'
    Diff,      \* those that it marks 'diff'
    None       \* no file; also no command, no exit status

ASSUME ConfAssumption ==
    /\ Preserve \subseteq File
    /\ Diff \subseteq File \ Preserve
    /\ File \cap {"sysconf", "system", "motd"} = {}

(***************************************************************************)
(* /etc/default/sysconf, the system files made from it (etc/hostname,      *)
(* etc/resolv.conf, etc/network/interfaces, ...) and etc/motd: all marked  *)
(* 'preserve'.  The files of File in neither set are found, and marked     *)
(* 'diff', when they are newer than etc/.configured.                       *)
(***************************************************************************)
Path == File \cup {"sysconf", "system", "motd"}
IsDiff(p) == p \in File \ Preserve

\* The files that sysconf_save_conffiles lists and copies.
ToSave(tree, newer) ==
    {p \in Path : /\ tree[p] # None
                  /\ p \in File \ (Preserve \cup Diff) => p \in newer}

SavedFiles(tree, list) == [p \in Path |-> IF p \in list THEN tree[p] ELSE None]

-----------------------------------------------------------------------------
(***************************************************************************)
(* sysconf_restore_conffiles.  A file that is missing or marked 'preserve' *)
(* is copied; a changed 'diff' file is shown to the user.                  *)
(***************************************************************************)
Asked(tree, saved, list) ==
    {p \in list : IsDiff(p) /\ tree[p] # None /\ tree[p] # saved[p]}

\* The files it copies, when the user keeps the old version of those in keep.
ToCopy(tree, saved, list, keep) ==
    {p \in list : tree[p] # saved[p] /\ (tree[p] = None \/ ~IsDiff(p) \/ p \in keep)}

\* The saved files it reports as handled, which are then removed.
Handled(tree, saved, list, keep) == (list \ Asked(tree, saved, list)) \cup keep

\* Mutation: only the files named in conffiles are compared.
TestRestoreListed(tree, saved, list) ==
    \A p \in list : p \in Diff => tree[p] = None \/ tree[p] = saved[p]

\* sysconf_test_restore: no 'diff' file needs the user.
TestRestore(tree, saved, list) ==
    \A p \in list : IsDiff(p) => tree[p] = None \/ tree[p] = saved[p]

-----------------------------------------------------------------------------
(***************************************************************************)
(* /etc/default/sysconf: the network section, and the lists of preserved   *)
(* files, one for each line [preserve].                                    *)
(***************************************************************************)
Nets == {"factory", "default", "user", "torn"}
Torn == [net |-> "torn", lists |-> <<>>]

(***************************************************************************)
(* syssection preserve.  sed prints from a line [preserve] to the next     *)
(* section line; where that is another [preserve] it ends the range, so    *)
(* every second list is skipped.                                           *)
(***************************************************************************)
syssection(text) ==
    UNION {text.lists[i] : i \in {j \in DOMAIN text.lists : j % 2 = 1}}
=============================================================================
