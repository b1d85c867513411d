---------------------------- MODULE ReplayWindow ----------------------------
(***************************************************************************)
(* One direction of one AEAD channel (okvm-crypto, aead.rs): the nonce     *)
(* counter of the sending AeadSession, and the sliding anti-replay window  *)
(* of the receiving one.  The network between them loses, duplicates,      *)
(* reorders and corrupts; the cipher is ideal: a ciphertext authenticates  *)
(* exactly when the peer sealed it under the sequence number it carries.   *)
(***************************************************************************)
EXTENDS Naturals

CONSTANTS W,       \* WINDOW, also the width of the recv_window bitmap (64)
          MaxSeq   \* u64::MAX, the counter value seal refuses to use

ASSUME WAssumption == W \in Nat \ {0}
ASSUME MaxSeqAssumption == MaxSeq \in Nat \ {0}

VARIABLES next_seq,      \* sender: counter of the next seal
          max_recv,      \* receiver: largest counter opened
          recv_window,   \* receiver: offsets d with bit d set (max_recv - d seen)
          result,        \* what the last call of seal or open returned
          seals,         \* history: how often each nonce was used by seal
          opens          \* history: how often each counter was opened

vars == <<next_seq, max_recv, recv_window, result, seals, opens>>

Counter == 0 .. MaxSeq

Result == {"none", "sealed", "exhausted", "plaintext", "decrypt"}

Init == /\ next_seq = 0
        /\ max_recv = 0
        /\ recv_window = {}
        /\ result = "none"
        /\ seals = [s \in Counter |-> 0]
        /\ opens = [s \in Counter |-> 0]

-----------------------------------------------------------------------------
(* Sender.  The counter is a u64: an increment past MaxSeq would wrap.     *)

Exhausted == next_seq = MaxSeq

Seal == \/ /\ Exhausted
           /\ result' = "exhausted"
           /\ UNCHANGED <<next_seq, max_recv, recv_window, seals, opens>>
        \/ /\ ~Exhausted
           /\ seals' = [seals EXCEPT ![next_seq] = @ + 1]
           /\ next_seq' = (next_seq + 1) % (MaxSeq + 1)
           /\ result' = "sealed"
           /\ UNCHANGED <<max_recv, recv_window, opens>>

-----------------------------------------------------------------------------
(* Receiver.                                                               *)

\* Mutant: the bitmap is not consulted.
CheckIgnoresBitmap(seq) == seq > max_recv \/ max_recv - seq < W

ReplayCheck(seq) ==
  \/ seq > max_recv
  \/ /\ max_recv - seq < W
     /\ (max_recv - seq) \notin recv_window

\* recv_window << shift: every seen offset moves away, bits past W fall off
Shifted(shift) == {d \in 0 .. W-1 : d >= shift /\ (d - shift) \in recv_window}

ReplayCommit(seq) ==
  \/ /\ seq > max_recv
     /\ max_recv' = seq
     /\ recv_window' = Shifted(seq - max_recv) \cup {0}
  \/ /\ seq <= max_recv
     /\ recv_window' = recv_window \cup {max_recv - seq}
     /\ UNCHANGED max_recv

Sealed == {s \in Counter : seals[s] > 0}

\* open on a ciphertext the peer produced under seq
OpenAuthentic(seq) ==
  /\ seq \in Sealed
  /\ \/ /\ ~ReplayCheck(seq)
        /\ result' = "decrypt"
        /\ UNCHANGED <<max_recv, recv_window, opens>>
     \/ /\ ReplayCheck(seq)
        /\ ReplayCommit(seq)
        /\ opens' = [opens EXCEPT ![seq] = @ + 1]
        /\ result' = "plaintext"
  /\ UNCHANGED <<next_seq, seals>>

\* Mutant: the window is committed before the tag is verified.
CorruptCommitsFirst(seq) ==
  /\ ReplayCheck(seq)
  /\ ReplayCommit(seq)
  /\ result' = "decrypt"
  /\ UNCHANGED <<next_seq, seals, opens>>

\* open on a corrupted ciphertext, or on one carried under another seq: the
\* tag does not verify, and the window is committed only after it does
OpenCorrupt(seq) ==
  /\ result' = "decrypt"
  /\ UNCHANGED <<next_seq, max_recv, recv_window, seals, opens>>

Next == \/ Seal
        \/ \E seq \in Counter : OpenAuthentic(seq) \/ OpenCorrupt(seq)

Spec == Init /\ [][Next]_vars

-----------------------------------------------------------------------------

TypeOK == /\ next_seq \in Counter
          /\ max_recv \in Counter
          /\ recv_window \in SUBSET (0 .. W-1)
          /\ result \in Result
          /\ seals \in [Counter -> Nat]
          /\ opens \in [Counter -> Nat]

\* A nonce is never used twice under a key: the counter stops at u64::MAX
\* instead of wrapping (seal, NonceExhausted).
NonceNeverReused == \A s \in Counter : seals[s] <= 1

\* No counter is opened twice, in whatever order the network delivers and
\* however late the duplicate comes (open, replay_check, replay_commit).
OpenedAtMostOnce == \A s \in Counter : opens[s] <= 1

\* The window refuses no more than it must: a genuine message that was never
\* opened and is less than W behind the newest is still acceptable, whatever
\* corrupted or replayed traffic was processed before (commit after auth).
FreshStaysAcceptable ==
  \A s \in Sealed : opens[s] = 0 /\ max_recv < s + W => ReplayCheck(s)

\* The inductive invariant behind OpenedAtMostOnce: every opened counter is at
\* most max_recv and, while the window reaches it, its bit is set; and every
\* set bit stands for an opened counter.
WindowExact ==
  /\ \A s \in Counter :
        opens[s] > 0 => /\ s <= max_recv
                        /\ max_recv - s < W => (max_recv - s) \in recv_window
  /\ \A d \in recv_window : d <= max_recv /\ opens[max_recv - d] > 0

\* Counters at or above next_seq have not been sealed; what is opened was sealed.
CountersExact ==
  /\ \A s \in Counter : s >= next_seq => seals[s] = 0
  /\ \A s \in Counter : opens[s] > 0 => seals[s] > 0

Inv == /\ TypeOK
       /\ NonceNeverReused
       /\ OpenedAtMostOnce
       /\ WindowExact
       /\ CountersExact

\* The two sessions implement a channel that delivers at most once: what is on
\* the channel is what was sealed, what is delivered is what open returned.
Channel == INSTANCE AtMostOnce
             WITH Message <- Counter, sent <- Sealed, delivered <- opens

ChannelSpec == Channel!Spec
=============================================================================
