---------------------------- MODULE DurableFiles ----------------------------
(***************************************************************************)
(* What the store's file primitives leave behind.  internal/store only     *)
(* ever publishes a fully written and synced temporary file, so a name is  *)
(* either absent or holds its whole body; what can be lost is the name.    *)
(*                                                                         *)
(* A directory of create-once files is [vis, dur]: the entries a reader    *)
(* sees now, and those a power loss cannot take away because the directory *)
(* was synced after they appeared.                                         *)
(*                                                                         *)
(* A file replaced by rename is [vis, may]: the body a reader sees now and *)
(* every body a power loss may bring back, since a rename is only settled  *)
(* by the next sync of its directory.                                      *)
(***************************************************************************)

EmptyDirectory == [vis |-> {}, dur |-> {}]

\* os.Link of a synced temporary: the new entry is visible, not yet durable.
Linked(dir, entry) == [dir EXCEPT !.vis = @ \cup {entry}]

\* syncDirectory: every entry visible in the directory becomes durable.
Synced(dir) == [dir EXCEPT !.dur = dir.vis]

\* After a power loss each entry that was never synced is there or is gone.
AfterPowerLoss(dir) ==
  {[vis |-> kept, dur |-> kept] :
     kept \in {entries \in SUBSET dir.vis : dir.dur \subseteq entries}}

ReplaceableFile(body) == [vis |-> body, may |-> {body}]

\* renameHeadNoFollow over the published name.
Renamed(file, body) == [vis |-> body, may |-> file.may \cup {body}]

SyncedFile(file) == [file EXCEPT !.may = {file.vis}]

FileAfterPowerLoss(file) == {ReplaceableFile(body) : body \in file.may}

\* One file or directory for each key, each taken from that key's own choices.
OneOfEach(choices) ==
  {pick \in [DOMAIN choices -> UNION {choices[k] : k \in DOMAIN choices}] :
     \A k \in DOMAIN choices : pick[k] \in choices[k]}
=============================================================================
