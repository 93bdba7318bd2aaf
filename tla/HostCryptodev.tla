---------------------------- MODULE HostCryptodev ----------------------------
(***************************************************************************)
(* What one request does to /dev/crypto of the host.                       *)
(*                                                                         *)
(* A request is the block of kernel memory that the guest driver hands to  *)
(* the backend: cmd (syscall_type together with ioctl_cmd), hostFd         *)
(* (host_fd), ses (session_op.ses, *ses_id or crypt_op.ses), key           *)
(* (session_op.key: the caller's pointer or a host address), dst (which    *)
(* session computed the dst buffer, None while it is still zeroed) and ret *)
(* (host_return_val).  Host is [open |-> the open host file descriptors,   *)
(* ses |-> the live sessions of each].                                     *)
(*                                                                         *)
(* The backend's dispatch is vq_handle_output; the behaviour of open,      *)
(* close and the three ioctls belongs to the host kernel.                  *)
(***************************************************************************)
EXTENDS Integers

CONSTANTS
  HostFds,     \* descriptors the QEMU process can get for /dev/crypto
  SessionIds,  \* identifiers cryptodev can give to a session
  None         \* "nothing here"

ASSUME HostFdsAssumption == HostFds \subseteq Nat
ASSUME NoneAssumption    == None \notin SessionIds \cup Int

(* CIOCASYMFEAT, CIOCGSESSINFO ... : every ioctl the switch has no case for *)
Ioctls   == {"CIOCGSESSION", "CIOCFSESSION", "CIOCCRYPT", "OTHER"}
Commands == {"OPEN", "CLOSE"} \cup Ioctls

NoHostFd == -1

Requests ==
  [cmd    : Commands,
   hostFd : HostFds \cup {NoHostFd},
   ses    : SessionIds \cup {None},
   key    : {"user", "host"},
   dst    : SessionIds \cup {None},
   ret    : {0, -1}]

HostStates ==
  [open : SUBSET HostFds, ses : [HostFds -> SUBSET SessionIds]]

(* The request the driver builds: kzalloc leaves dst and ret zero. *)
Request(cmd, hostFd, ses) ==
  [cmd |-> cmd, hostFd |-> hostFd, ses |-> ses,
   key |-> "user", dst |-> None, ret |-> 0]

Outcome(h, r) == [host |-> h, req |-> r]

Live(h, r) == r.hostFd \in h.open /\ r.ses \in h.ses[r.hostFd]

(* open("/dev/crypto") gives any free descriptor or fails with -1. *)
OpenOutcomes(h, r) ==
  {Outcome([h EXCEPT !.open = @ \cup {d}], [r EXCEPT !.hostFd = d]) :
     d \in HostFds \ h.open}
  \cup {Outcome(h, [r EXCEPT !.hostFd = NoHostFd])}

(* close() ends every session of the descriptor; EBADF is only logged. *)
CloseOutcomes(h, r) ==
  IF r.hostFd \in h.open
  THEN {Outcome([open |-> h.open \ {r.hostFd},
                 ses  |-> [h.ses EXCEPT ![r.hostFd] = {}]], r)}
  ELSE {Outcome(h, r)}

(* A host that refuses an operation on a live session for a reason of its  *)
(* own, such as want of memory, is left out: -1 means a bad session.       *)

(* The backend first puts the address of its own mapping of the key in the *)
(* session_op that it shares with the guest.                               *)
GetSessionOutcomes(h, r) ==
  {Outcome(h, [r EXCEPT !.key = "host", !.ret = -1])}
  \cup {Outcome([h EXCEPT !.ses[r.hostFd] = @ \cup {i}],
                [r EXCEPT !.key = "host", !.ses = i, !.ret = 0]) :
          i \in UNION {SessionIds \ h.ses[d] : d \in h.open \cap {r.hostFd}}}

FinishSessionOutcomes(h, r) ==
  IF Live(h, r)
  THEN {Outcome([h EXCEPT !.ses[r.hostFd] = @ \ {r.ses}],
                [r EXCEPT !.ret = 0])}
  ELSE {Outcome(h, [r EXCEPT !.ret = -1])}

CryptOutcomes(h, r) ==
  IF Live(h, r)
  THEN {Outcome(h, [r EXCEPT !.dst = r.ses, !.ret = 0])}
  ELSE {Outcome(h, [r EXCEPT !.ret = -1])}

(* The inner switch has no default: host_return_val keeps what it had. *)
HostOutcomes(h, r) ==
  CASE r.cmd = "OPEN"         -> OpenOutcomes(h, r)
    [] r.cmd = "CLOSE"        -> CloseOutcomes(h, r)
    [] r.cmd = "CIOCGSESSION" -> GetSessionOutcomes(h, r)
    [] r.cmd = "CIOCFSESSION" -> FinishSessionOutcomes(h, r)
    [] r.cmd = "CIOCCRYPT"    -> CryptOutcomes(h, r)
    [] r.cmd = "OTHER"        -> {Outcome(h, r)}
==============================================================================
