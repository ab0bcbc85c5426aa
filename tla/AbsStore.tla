------------------------------ MODULE AbsStore ------------------------------
(***************************************************************************)
(* What BilbyFs's object store promises the file system operations         *)
(* (bilbyfs.h on ostore_write_obj_list, ostore_sync and ostore_mount): a   *)
(* list of objects is written as a whole or not at all, what ostore_sync   *)
(* reported to be on the flash survives a power failure, and of the later  *)
(* lists a power failure keeps some first ones, in the order of the calls. *)
(*                                                                         *)
(* log holds the contents the store went through since the last            *)
(* synchronisation, the current one last.  A content maps each identifier  *)
(* to a value; Absent stands for no object.                                *)
(***************************************************************************)
EXTENDS ObjIds

CONSTANTS Absent

VARIABLES
    log,      \* the contents since the last synchronisation
    mounted,  \* whether the file system is mounted
    reused    \* sequence numbers on the flash may be given out again

store_vars == <<log, mounted, reused>>

Content == log[Len(log)]
Empty == [x \in Ids |-> Absent]

StoreInit == log = <<Empty>> /\ mounted = FALSE /\ reused = FALSE

(* ostore_write_obj_list returns 0.                                        *)
WriteObjs(objs) ==
    /\ log' = Append(log, Apply(Content, objs))
    /\ UNCHANGED <<mounted, reused>>

(* ostore_sync returns 0.                                                  *)
SyncObjs == log' = <<Content>> /\ UNCHANGED <<mounted, reused>>

(* ostore_mount returns 0, having found the nth content of log, unless     *)
(* sequence numbers may have been reused before: then the store promises   *)
(* nothing about what it finds.  They may be from this mount on.           *)
MountAt(n) == ~mounted /\ mounted' = TRUE /\ ~reused /\ log' = <<log[n]>>
MountObjs ==
    \/ (\E n \in DOMAIN log : MountAt(n)) /\ reused' \in BOOLEAN
    \/ reused /\ ~mounted /\ mounted' = TRUE /\ reused' = TRUE /\ Len(log') = 1

(* The memory is gone: a power failure, an unmount or a failed mount.      *)
Down == mounted' = FALSE /\ UNCHANGED <<log, reused>>
=============================================================================
