------------------------------ MODULE NetSockets ------------------------------
(***************************************************************************)
(* The socket service over CapSystem: a tenant's Socket cap resolves to a    *)
(* Socket pool entry and that to a slot of the net driver's socket table     *)
(* (kernel/src/cap/syscall.rs), the kernel times each slot's accept calls    *)
(* (runtime/tier2_net.rs), and the driver keeps one smoltcp socket per slot  *)
(* (drivers/net, nic_iface).  Neither table knows of the other's clients.    *)
(*                                                                         *)
(* A host function runs the driver to completion, so each call is one        *)
(* action.  A tenant that polls net_socket_accept keeps the hart (apps/hello *)
(* never yields): meanwhile only time passes and frames arrive.              *)
(***************************************************************************)
EXTENDS CapSystem

CONSTANTS Deadline,    (* ACCEPT_DEADLINE_MS, in ticks of the clock.          *)
          NoWindow,    (* ACCEPT_FIRST_MS is None: no accept window is open.  *)
          NoPoller     (* No tenant is in an accept loop.                     *)

ASSUME DeadlineAssumption == Deadline \in Nat \ {0} /\ NoWindow \notin Nat

VARIABLES
  tcp,       (* State of the smoltcp socket in each driver slot.             *)
  bound,     (* Driver slots whose SOCKET_BOUND_PORT is set.                 *)
  window,    (* ACCEPT_FIRST_MS, as the time since the first accept.         *)
  logged,    (* ACCEPT_EXPIRED_LOGGED.                                       *)
  poller     (* The tenant that is polling accept, and the slot of its cap.  *)

netVars == <<tcp, bound, window, logged, poller>>

TcpState == {"closed", "listen", "handshake", "established", "closewait",
             "closing", "timewait"}

may_send(t)  == t \in {"established", "closewait"}
is_active(t) == t \notin {"closed", "listen", "timewait"}
is_open(t)   == t \notin {"closed", "timewait"}

(* What segments and timers may make of a smoltcp socket between two looks.  *)
Arrival(t) ==
  {t} \cup CASE t = "listen"      -> {"handshake"}
             [] t = "handshake"   -> {"listen", "established"}
             [] t = "established" -> {"closewait", "closed"}
             [] t = "closewait"   -> {"closed"}
             [] t = "closing"     -> {"timewait", "closed"}
             [] t = "timewait"    -> {"closed"}
             [] OTHER             -> {}

(* One driver poll: smoltcp serves every socket of its set.                  *)
Polled(before, after) ==
  after \in {f \in [Handles -> TcpState] :
               \A h \in Handles : f[h] \in Arrival(before[h])}

(* nic_iface, what the driver does with its slots.                            *)
driver_create(h) == tcp' = [tcp EXCEPT ![h] = "closed"] /\ UNCHANGED bound

driver_close(h) ==
  IF h \in open
  THEN tcp' = [tcp EXCEPT ![h] = "closed"] /\ bound' = bound \ {h}
  ELSE UNCHANGED <<tcp, bound>>

driver_bind(h) == h \in open /\ bound' = bound \cup {h} /\ UNCHANGED tcp

driver_listen(h) ==
  /\ h \in open \cap bound /\ ~is_open(tcp[h])
  /\ tcp' = [tcp EXCEPT ![h] = "listen"]
  /\ UNCHANGED bound

driver_accepts(h, t) == is_active(t[h]) /\ may_send(t[h])

(* The canned reply is queued and the socket half-closed.                     *)
driver_send_canned(h, after) ==
  h \in open /\ may_send(tcp[h]) /\ after = [tcp EXCEPT ![h] = "closing"]

Free == poller = NoPoller

(* resolve_socket_handle: a Socket cap with WRITE whose pool entry is live.   *)
Resolves(p, s, h) ==
  /\ MayCall(p)
  /\ IsSocket(caps[<<p, s>>].obj)
  /\ Write \in caps[<<p, s>>].rights
  /\ refs[caps[<<p, s>>].obj] > 0
  /\ h = handle[caps[<<p, s>>].obj]

Expired(h) == window[h] # NoWindow /\ window[h] >= Deadline

-----------------------------------------------------------------------------
(* Opening and closing.                                                      *)

(* Closing, and a connection accepted, end the window of a driver slot.      *)
ForgetWindow(h) ==
  /\ window' = [window EXCEPT ![h] = NoWindow]
  /\ logged' = [logged EXCEPT ![h] = FALSE]

create_socket(p, target, h, i) ==
  /\ Free
  /\ net_socket_create(p, target, h, i)
  /\ driver_create(h)
  /\ UNCHANGED <<window, logged, poller>>

(* Mutants, here and below: the definition that follows with a slip in it.   *)
create_rolled_back_forgotten(p, target, h) ==
  /\ Free /\ MayCall(p)
  /\ caps[<<p, SlotNet>>].obj \in NetObjects
  /\ Write \in caps[<<p, SlotNet>>].rights
  /\ ~Occupied(<<p, target>>)
  /\ FirstFree(h, open, Handles)
  /\ \A i \in SocketIds : refs[i] > 0
  /\ open' = open \cup {h}
  /\ driver_create(h)
  /\ UNCHANGED <<caps, gen, refs, handle, status, worn, window, logged, poller>>

(* The Socket pool is full: the driver's new socket is closed again, so that    *)
(* its slot is free after the call as it was before.                         *)
create_rolled_back(p, target, h) ==
  /\ Free /\ MayCall(p)
  /\ caps[<<p, SlotNet>>].obj \in NetObjects
  /\ Write \in caps[<<p, SlotNet>>].rights
  /\ ~Occupied(<<p, target>>)
  /\ FirstFree(h, open, Handles)
  /\ \A i \in SocketIds : refs[i] > 0
  /\ ForgetWindow(h)
  /\ tcp' = [tcp EXCEPT ![h] = "closed"] /\ bound' = bound \ {h}
  /\ UNCHANGED <<vars, poller>>

(* The kernel drops the window before it calls the driver, which refuses a    *)
(* slot that is not taken.                                                    *)
close_socket(p, s, released) ==
  /\ Free
  /\ net_socket_close(p, s, released)
  /\ LET h == handle[caps[<<p, s>>].obj]
     IN  /\ ForgetWindow(h)
         /\ IF released THEN driver_close(h) ELSE UNCHANGED <<tcp, bound>>
  /\ UNCHANGED poller

-----------------------------------------------------------------------------
(* Serving.                                                                  *)
socket_bind(p, s) ==
  /\ Free
  /\ \E h \in Handles : Resolves(p, s, h) /\ driver_bind(h)
  /\ UNCHANGED <<vars, window, logged, poller>>

socket_listen(p, s) ==
  /\ Free
  /\ \E h \in Handles : Resolves(p, s, h) /\ driver_listen(h)
  /\ UNCHANGED <<vars, window, logged, poller>>

OpenWindow_each_time(h) == window' = [window EXCEPT ![h] = 0]

(* The first accept opens the window; later ones leave its start alone.       *)
OpenWindow(h) ==
  window' = IF window[h] = NoWindow THEN [window EXCEPT ![h] = 0] ELSE window

AcceptExpired(p, s, h) ==
  /\ Expired(h)
  /\ logged' = [logged EXCEPT ![h] = TRUE]
  /\ poller' = NoPoller
  /\ UNCHANGED <<vars, tcp, bound, window>>

AcceptReady(p, s, h) ==
  /\ ~Expired(h) /\ h \in open
  /\ Polled(tcp, tcp')
  /\ driver_accepts(h, tcp')
  /\ ForgetWindow(h)
  /\ poller' = NoPoller
  /\ UNCHANGED <<vars, bound>>

AcceptPending(p, s, h) ==
  /\ ~Expired(h) /\ h \in open
  /\ Polled(tcp, tcp')
  /\ ~driver_accepts(h, tcp')
  /\ OpenWindow(h)
  /\ poller' = <<p, s>>
  /\ UNCHANGED <<vars, bound, logged>>

(* The driver traps, or knows of no socket in the slot.                       *)
AcceptFails(p, s, h) ==
  /\ ~Expired(h)
  /\ Polled(tcp, tcp')
  /\ OpenWindow(h)
  /\ poller' = NoPoller
  /\ UNCHANGED <<vars, bound, logged>>

AcceptCall_window_last(p, s) ==
  /\ poller \in {NoPoller, <<p, s>>}
  /\ \E h \in Handles :
       /\ Resolves(p, s, h)
       /\ \/ AcceptReady(p, s, h) \/ AcceptPending(p, s, h) \/ AcceptFails(p, s, h)
          \/ /\ Expired(h) /\ h \in open
             /\ Polled(tcp, tcp') /\ may_send(tcp'[h])
             /\ ForgetWindow(h) /\ poller' = NoPoller
             /\ UNCHANGED <<vars, bound>>
          \/ AcceptExpired(p, s, h)

AcceptCall(p, s) ==
  /\ poller \in {NoPoller, <<p, s>>}
  /\ \E h \in Handles :
       /\ Resolves(p, s, h)
       /\ \/ AcceptExpired(p, s, h)
          \/ AcceptReady(p, s, h)
          \/ AcceptPending(p, s, h)
          \/ AcceptFails(p, s, h)

(* The driver is polled after the send, so that the reply leaves at once.       *)
socket_send_canned(p, s) ==
  /\ Free
  /\ \E h \in Handles, after \in [Handles -> TcpState] :
       /\ Resolves(p, s, h)
       /\ driver_send_canned(h, after)
       /\ Polled(after, tcp')
  /\ UNCHANGED <<vars, bound, window, logged, poller>>

(* kmain polls the driver once every tenant has exited.                       *)
IdlePoll ==
  /\ \A p \in Tier1 : status[p] # "live"
  /\ Polled(tcp, tcp')
  /\ UNCHANGED <<vars, bound, window, logged, poller>>

Tick ==
  /\ window' = [h \in Handles |->
                  IF window[h] # NoWindow /\ window[h] < Deadline
                  THEN window[h] + 1 ELSE window[h]]
  /\ UNCHANGED <<vars, tcp, bound, logged, poller>>

-----------------------------------------------------------------------------
NetInit ==
  /\ Init
  /\ tcp = [h \in Handles |-> "closed"]
  /\ bound = {}
  /\ window = [h \in Handles |-> NoWindow]
  /\ logged = [h \in Handles |-> FALSE]
  /\ poller = NoPoller

(* The calls of CapSystem that leave the socket service alone.                *)
CapCall(p) ==
  /\ Free
  /\ \/ \E s, t \in Slots : \E r \in SUBSET Rights : cap_mint(p, s, t, r)
     \/ \E s, t \in Slots : cap_copy(p, s, t)
     \/ \E s \in Slots : cap_delete(p, s) \/ cap_revoke(p, s)
     \/ Terminate(p)
  /\ UNCHANGED netVars

SocketCall(p) ==
  \/ \E t \in Slots, h \in Handles :
       \/ \E i \in SocketIds : create_socket(p, t, h, i)
       \/ create_rolled_back(p, t, h)
  \/ \E s \in Slots :
       \/ \E released \in BOOLEAN : close_socket(p, s, released)
       \/ socket_bind(p, s) \/ socket_listen(p, s)
       \/ AcceptCall(p, s) \/ socket_send_canned(p, s)

NetNext == (\E p \in Tier1 : CapCall(p) \/ SocketCall(p)) \/ IdlePoll \/ Tick

(* Time passes, and a tenant that polls goes on polling.                      *)
NetSpec ==
  /\ NetInit /\ [][NetNext]_<<vars, netVars>>
  /\ WF_<<vars, netVars>>(Tick)
  /\ \A p \in Tier1, s \in Slots :
       WF_<<vars, netVars>>(poller = <<p, s>> /\ AcceptCall(p, s))

-----------------------------------------------------------------------------
(* "Once ACCEPT_DEADLINE_MS elapses, socket_accept returns E_TIMEDOUT          *)
(* persistently until the socket is closed" (tier2_net.rs): no connection that *)
(* comes late, and no call but a close through a cap that names the slot,      *)
(* takes the expired window away while the driver slot is in use.              *)
ExpiredUntilClosed ==
  [][\A h \in open :
       Expired(h) /\ ~Expired(h)' =>
         \E c \in Cell : /\ IsSocket(caps[c].obj) /\ handle[caps[c].obj] = h
                         /\ ~Occupied(c)']_<<vars, netVars>>

(* "Roll back the driver-side socket so we don't leak smoltcp state"           *)
(* (net_socket_create): a driver slot that is taken exactly while a live pool   *)
(* entry names it goes on so, through pools that run full, driver errors and     *)
(* reuse, until a step clears a cap whose entry names it.  A delete that does    *)
(* not tell the driver, and a close that a copy outlives, are such steps: from    *)
(* then on slot and entries may disagree.                                     *)
Named(h) == \E i \in SocketIds : refs[i] > 0 /\ handle[i] = h
Agree(h) == h \in open <=> Named(h)

SlotsAccounted ==
  [][\A h \in Handles :
       Agree(h) /\ ~Agree(h)' =>
         \E c \in Cell : /\ IsSocket(caps[c].obj) /\ handle[caps[c].obj] = h
                         /\ ~Occupied(c)']_<<vars, netVars>>

(* "The bound must hold for ANY Tier-1 caller" (tier2_net.rs): a tenant that   *)
(* polls accept gets an answer other than "still waiting" and lets the others  *)
(* and the idle loop run, whatever its peers send or do not send.              *)
AcceptEnds == poller # NoPoller ~> poller = NoPoller
=============================================================================
