------------------------------ MODULE LockfSpec ------------------------------
(***************************************************************************)
(* What advisory locks promise (fcntl.2, flock.2): each owner holds each   *)
(* byte of the file not at all, shared or exclusively.  A range is set     *)
(* only where nobody else holds a conflicting lock, replaces what the      *)
(* owner held there, and touches no other byte and no other owner.  A      *)
(* request that has to wait changes nothing, but for flock(2), which lets  *)
(* go of a shared lock before it waits for an exclusive one.               *)
(***************************************************************************)
CONSTANTS
    Owners,
    Flockers,   \* the owners that use flock(2)
    Bytes,
    Intervals   \* the sets of bytes that can be locked or unlocked at once

VARIABLE held   \* held[o][b]: the types of the locks of o on b, at most one

Conflict(s, t) == s # {} /\ t # {} /\ "F_WRLCK" \in s \cup t

Init == held = [o \in Owners |-> [b \in Bytes |-> {}]]

(* Nobody else holds in h what conflicts with a lock of type on range. *)
Free(h, o, type, range) == \A p \in Owners \ {o}, b \in range : ~Conflict({type}, h[p][b])

(* h, but o holds types, and nothing else, on the bytes of range. *)
Hold(h, o, types, range) ==
    [h EXCEPT ![o] = [b \in Bytes |-> IF b \in range THEN types ELSE @[b]]]

(* What is held after o has asked for a range, or has let go of it. *)
Requested(h, o, type, range) ==
    CASE Free(h, o, type, range) -> Hold(h, o, {type}, range)
      [] ~Free(h, o, type, range) /\ o \in Flockers /\ type = "F_WRLCK" -> Hold(h, o, {}, range)
      [] OTHER -> h

Cleared(h, o, range) == Hold(h, o, {}, range)

(* A call of o that changes what o holds; the others are stuttering steps. *)
Next ==
    \E o \in Owners :
        /\ held'[o] # held[o]
        /\ \E range \in Intervals :
              \/ held' = Cleared(held, o, range)
              \/ \E type \in {"F_RDLCK", "F_WRLCK"} : held' = Requested(held, o, type, range)

Spec == Init /\ [][Next]_held

=============================================================================
