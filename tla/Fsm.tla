-------------------------------- MODULE Fsm --------------------------------
(***************************************************************************)
(* The free space manager (fsm.c): which LEBs of the log are in use, how   *)
(* many bytes of each are garbage, how many are free and which one the     *)
(* write buffer is filling.                                                *)
(***************************************************************************)
EXTENDS ObjDefs

VARIABLES
    dirty_list,      \* garbage bytes of each LEB
    used_leb_list,   \* whether a LEB is in use
    fsm_nb_free_eb,  \* number of free LEBs
    fsm_lnum         \* the LEB being filled, 0 when there is none

fsm_vars == <<dirty_list, used_leb_list, fsm_nb_free_eb, fsm_lnum>>

(* fsm_init.  The counter starts at the number of LEBs of the volume, the  *)
(* ones in front of the log included.                                      *)
fsm_init ==
    /\ dirty_list = [l \in Lnums |-> 0]
    /\ used_leb_list = [l \in Lnums |-> FALSE]
    /\ fsm_nb_free_eb = LebCnt
    /\ fsm_lnum = 0

fsm_reset ==
    /\ dirty_list' = [l \in Lnums |-> 0]
    /\ used_leb_list' = [l \in Lnums |-> FALSE]
    /\ fsm_nb_free_eb' = LebCnt
    /\ fsm_lnum' = 0

(* fsm_check_free_space: whether a writer with this flag may take a LEB.   *)
fsm_check_free_space(flag) ==
    /\ fsm_nb_free_eb < NbReservedGc => flag = "GC"
    /\ fsm_nb_free_eb < NbReservedDel + NbReservedGc => flag \in {"DEL", "GC"}

\* Mutants of fsm_mark_used: the counter, the flag is forgotten.
Mutant_mark_used_count(lnum) ==
    /\ used_leb_list' = [used_leb_list EXCEPT ![lnum] = TRUE]
    /\ UNCHANGED fsm_nb_free_eb
Mutant_mark_used_flag(lnum) ==
    /\ fsm_nb_free_eb' = fsm_nb_free_eb - 1
    /\ UNCHANGED used_leb_list
fsm_mark_used(lnum) ==
    /\ used_leb_list' = [used_leb_list EXCEPT ![lnum] = TRUE]
    /\ fsm_nb_free_eb' = fsm_nb_free_eb - 1

(* fsm_mark_dirty, as a function of the list: len more bytes of an LEB are *)
(* garbage.  The counters are 32 bit wide.                                 *)
fsm_mark_dirty(dirty, lnum, len) == [dirty EXCEPT ![lnum] = (@ + len) % U32]

fsm_mark_erased(lnum) ==
    /\ used_leb_list' = [used_leb_list EXCEPT ![lnum] = FALSE]
    /\ fsm_nb_free_eb' = fsm_nb_free_eb + 1
    /\ dirty_list' = [dirty_list EXCEPT ![lnum] = 0]

(* The search at the end of fsm_alloc_eb: the first LEB not in use.        *)
FreeLebs == {l \in Lnums : ~used_leb_list[l]}
fsm_take_first_free ==
    \E l \in FreeLebs :
        /\ \A k \in FreeLebs : l <= k
        /\ fsm_mark_used(l)
        /\ fsm_lnum' = l
        /\ UNCHANGED dirty_list

(* fsm_get_dirtiest_eb: the first of the used LEBs, the one being filled   *)
(* excepted, that have the most garbage; none if no LEB has any.           *)
fsm_is_dirtiest(lnum) ==
    LET Candidates == {l \in Lnums : used_leb_list[l] /\ l # fsm_lnum
                                       /\ dirty_list[l] > 0}
    IN /\ lnum \in Candidates
       /\ \A l \in Candidates : /\ dirty_list[l] <= dirty_list[lnum]
                                /\ l < lnum => dirty_list[l] < dirty_list[lnum]

=============================================================================
