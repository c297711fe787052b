----------------------------- MODULE RevokeWalk ------------------------------
(***************************************************************************)
(* cap_revoke as revoke.rs runs it: discovery passes over every cell of    *)
(* every CSpace, in index order, until one pass adds nothing to the set,   *)
(* then one more pass that clears the members one cell at a time.  The     *)
(* call is not preempted (INV-1), so nothing else happens until it returns *)
(* and it must look like the one step CapSystem makes of it.               *)
(***************************************************************************)
EXTENDS CapSystem

CONSTANTS Order,         (* The cells, processes first, then slots.         *)
          None           (* No revocation is running.                       *)

N == Cardinality(Cell)

ASSUME OrderAssumption ==
  /\ Order \in [1 .. N -> Cell]
  /\ \A c \in Cell : \E i \in 1 .. N : Order[i] = c

VARIABLES
  phase,    (* "idle", "discover" or "clear".                               *)
  cursor,   (* Position of the cell that is visited next.                   *)
  set,      (* RevokeSet: the bitmap of cells found so far.                 *)
  changed,  (* Whether this pass has added a cell.                          *)
  before    (* History: the tables as the revocation found them.            *)

walkVars == <<phase, cursor, set, changed, before>>
allVars  == <<vars, walkVars>>

Here == Order[cursor]

(* cap_revoke checks the cap and revoke seeds the set with it.              *)
begin_revoke(p, s) ==
  /\ phase = "idle"
  /\ MayCall(p)
  /\ Occupied(<<p, s>>) /\ Write \in caps[<<p, s>>].rights
  /\ phase' = "discover" /\ cursor' = 1
  /\ set' = {<<p, s>>} /\ changed' = FALSE
  /\ before' = [caps |-> caps, gen |-> gen, refs |-> refs,
                handle |-> handle, worn |-> worn, target |-> <<p, s>>]
  /\ UNCHANGED vars

(* Mutants: a single pass, and passes for as long as there are descendants. *)
NextPass_single(added) ==
  IF cursor < N
  THEN phase' = phase /\ cursor' = cursor + 1 /\ changed' = (changed \/ added)
  ELSE phase' = "clear" /\ cursor' = 1 /\ changed' = FALSE

NextPass_unbounded(added) ==
  IF cursor < N
  THEN phase' = phase /\ cursor' = cursor + 1 /\ changed' = (changed \/ added)
  ELSE /\ phase' = IF set # {before.target} THEN "discover" ELSE "clear"
       /\ cursor' = 1 /\ changed' = FALSE

(* The while loop around a pass.                                            *)
NextPass(added) ==
  IF cursor < N
  THEN phase' = phase /\ cursor' = cursor + 1 /\ changed' = (changed \/ added)
  ELSE /\ phase' = IF changed \/ added THEN "discover" ELSE "clear"
       /\ cursor' = 1 /\ changed' = FALSE

BelongsToSet ==
  /\ Here \notin set /\ Occupied(Here)
  /\ caps[Here].parent # ROOT
  /\ caps[Here].parent.cell \in set
  /\ caps[Here].parent.gen = gen[caps[Here].parent.cell]

discover ==
  /\ phase = "discover"
  /\ set' = IF BelongsToSet THEN set \cup {Here} ELSE set
  /\ NextPass(BelongsToSet)
  /\ UNCHANGED <<vars, before>>

ClearPass(bumped) ==
  /\ phase = "clear"
  /\ IF Here \in set /\ Occupied(Here)
     THEN ClearCells({Here}, SaturatingBump(bumped)) /\ UNCHANGED <<open, status>>
     ELSE UNCHANGED vars
  /\ IF cursor < N
     THEN cursor' = cursor + 1 /\ UNCHANGED <<phase, set, before>>
     ELSE phase' = "idle" /\ cursor' = 0 /\ set' = {} /\ before' = None
  /\ UNCHANGED changed

(* Mutant: only the revoked cap's own cell gets a new generation.           *)
clear_target_only == ClearPass({Here} \cap {before.target})

clear == ClearPass({Here})

WalkInit ==
  /\ Init
  /\ phase = "idle" /\ cursor = 0 /\ set = {} /\ changed = FALSE /\ before = None

Between ==
  /\ phase = "idle"
  /\ \/ \E p \in Tier1 : PlainStep(p)
     \/ \E p \in Tier1 : \E w \in BOOLEAN : install_tier1_grants(p, w)
  /\ UNCHANGED walkVars

WalkNext ==
  \/ Between
  \/ \E p \in Tier1 : \E s \in Slots : begin_revoke(p, s)
  \/ discover
  \/ clear

(* A host function runs until it returns.                                   *)
WalkSpec ==
  WalkInit /\ [][WalkNext]_allVars /\ WF_allVars(discover \/ clear)

-----------------------------------------------------------------------------
(* However children and parents are placed, the passes stop with exactly the *)
(* revoked cap and its descendants in the bitmap (revoke.rs, discover).      *)
DiscoverExact ==
  phase = "clear" /\ cursor = 1 => set = RevokeSet(before.target)

(* Cell by cell, the walk does what cap_revoke of CapSystem does at once:    *)
(* clear bumps each cell's generation and drops each cap's reference once.   *)
Now(field, current) == IF phase = "idle" THEN current ELSE before[field]

Atomic == INSTANCE CapSystem WITH
  caps <- Now("caps", caps), gen <- Now("gen", gen), refs <- Now("refs", refs),
  handle <- Now("handle", handle), worn <- Now("worn", worn)

ImplementsAtomicRevoke == Atomic!Spec

(* A revocation returns: every pass but the last adds a cell.                *)
WalkReturns == phase # "idle" ~> phase = "idle"

=============================================================================
