---------------------------- MODULE MCPageRequests ----------------------------
(*****************************************************************************)
(* Values for the constants of PageRequests.                                  *)
(*****************************************************************************)
EXTENDS PageRequests, TLC

Symmetry ==
    Permutations(Pages) \cup Permutations(Addresses) \cup Permutations(Requests)
        \cup Permutations(Dialogs)

(* Pages, dialogs, popups and POST pages under way, the last two counting      *)
(* besides their pages: two dialogs on two pages, or one and a popup, or three *)
(* pages and one of these, or a POST with two pages or dialogs beside its own. *)
MaxObjects == 4

FewObjects ==
    Cardinality({p \in Pages : addr[p] # NoAddress})
        + Cardinality({p \in Pages : opener[p] # NoPage})
        + Cardinality({d \in Dialogs : dialogPage[d] # NoPage})
        + Cardinality({r \in Requests : req[r].pc \in {"opening", "navigating"}}) <= MaxObjects

=============================================================================
