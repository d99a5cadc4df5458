-------------------------------- MODULE Inbox --------------------------------
(***************************************************************************)
(* One inbox of the bus: the file inbox-<agent>.jsonl and the processes     *)
(* that write it.  Every message is appended by a send.py of its own; every *)
(* acknowledgement is a read.py --ack (run by the agent, or by the API for  *)
(* it), which rewrites the whole file.  Writers take an exclusive flock;    *)
(* readers take none (InboxReaders).                                        *)
(*                                                                         *)
(* A definition commented "Fault:" is the one after it with a plausible    *)
(* bug; nothing uses it.                                                   *)
(***************************************************************************)
EXTENDS Naturals, Sequences, FiniteSets

CONSTANTS
  Message,     \* messages, each sent once
  Acker,       \* processes that run read.py --ack, again and again
  None,        \* nobody, and what a line that cannot be parsed holds
  Junk,        \* what a line that cannot even be decoded holds
  Mortal,      \* the processes that may die (a sender is named by its message)
  Split,       \* messages with a U+2028, U+2029 or U+0085 in their body
  MaxAcks,     \* bound: acknowledgements in a behaviour
  MaxCrashes   \* bound: deaths in a behaviour

ASSUME NoneAssumption   == None \notin Message \cup Acker /\ Junk \notin Message \cup {None}
ASSUME ApartAssumption  == Message \cap Acker = {}
ASSUME MortalAssumption == Mortal \subseteq Message \cup Acker
ASSUME SplitAssumption  == Split \subseteq Message
ASSUME LimitsAssumption == MaxAcks \in Nat /\ MaxCrashes \in Nat

VARIABLES
  file,      \* the lines of the file
  open,      \* its last line has no newline yet
  lock,      \* who holds the flock
  snd,       \* snd[m]: how far m's send.py is
  ack,       \* ack[a]: how far a is, the ids it acknowledges, and the copy that it
             \* writes back (of one that died: what it had not written back)
  acks,      \* history: acknowledgements so far
  crashes    \* history: deaths so far

inboxVars == <<file, open, lock, snd, ack, acks, crashes>>

\* A line cut short: between two characters, or within one.
Cut == {[m |-> None, acked |-> FALSE], [m |-> Junk, acked |-> FALSE]}

New(m) == [m |-> m, acked |-> FALSE]

\* The lines with a newline.
Whole == IF open THEN Len(file) - 1 ELSE Len(file)

\* The lines but those of bad, in their order.
Without(bad, s) ==
  LET kept   == {i \in 1 .. Len(s) : s[i].m \notin bad}
      nth(k) == CHOOSE i \in kept : Cardinality({j \in kept : j <= i}) = k
  IN  [k \in 1 .. Cardinality(kept) |-> s[nth(k)]]

\* A UTF-8 decoder takes the file, or raises.
Decodes(s) == \A i \in 1 .. Len(s) : s[i].m # Junk

\* What load_inbox returns of a file that is not rewritten meanwhile: the lines that
\* parse.  (It does not catch what the decoder raises, and then there are none.)
Loaded(s) == IF Decodes(s) THEN Without({None}, s) ELSE <<>>

\* What ack_inbox keeps: splitlines() also ends a line at a Unicode separator
\* within a body, which json.dumps(ensure_ascii=False) left as it is, and
\* neither half of such a line parses.
AckLoaded(s) == Without({None} \cup Split, s)

-----------------------------------------------------------------------------
(* send.py.                                                                 *)

\* Everything is validated and the timestamp is taken before the file is touched.
SBegin(m) ==
  /\ snd[m] = "new"
  /\ snd' = [snd EXCEPT ![m] = "ready"]
  /\ UNCHANGED <<file, open, lock, ack, acks, crashes>>

\* Fault: the line is still in the buffer when the lock is let go.
SLockNobody(m) ==
  /\ snd[m] = "ready"
  /\ snd' = [snd EXCEPT ![m] = "holds"]
  /\ UNCHANGED <<file, open, lock, ack, acks, crashes>>

SLock(m) ==
  /\ snd[m] = "ready" /\ lock = None
  /\ lock' = m
  /\ snd' = [snd EXCEPT ![m] = "holds"]
  /\ UNCHANGED <<file, open, ack, acks, crashes>>

\* Append the line and flush it.  After a line without a newline it becomes
\* part of that line, which still does not parse.
SAppend(m) ==
  /\ snd[m] = "holds"
  /\ file' = IF open THEN file ELSE Append(file, New(m))
  /\ open' = FALSE
  /\ snd' = [snd EXCEPT ![m] = "stored"]
  /\ UNCHANGED <<lock, ack, acks, crashes>>

\* Fault: the lock is never let go.
SUnlockForgets(m) ==
  /\ snd[m] = "stored"
  /\ snd' = [snd EXCEPT ![m] = "sent"]
  /\ UNCHANGED <<file, open, lock, ack, acks, crashes>>

\* Let go of the lock and report the id.
SUnlock(m) ==
  /\ snd[m] = "stored"
  /\ lock' = None
  /\ snd' = [snd EXCEPT ![m] = "sent"]
  /\ UNCHANGED <<file, open, ack, acks, crashes>>

Sender(m) == SLock(m) \/ SAppend(m) \/ SUnlock(m)

-----------------------------------------------------------------------------
(* read.py --ack.                                                           *)

AckIdle == [pc |-> "idle", ids |-> {}, copy |-> <<>>]

\* main loads the inbox before it looks at its arguments.
ABegin(a, I) ==
  /\ ack[a].pc = "idle" /\ acks < MaxAcks /\ Decodes(file)
  /\ acks' = acks + 1
  /\ ack' = [ack EXCEPT ![a] = [AckIdle EXCEPT !.pc = "wait", !.ids = I]]
  /\ UNCHANGED <<file, open, lock, snd, crashes>>

ALock(a) ==
  /\ ack[a].pc = "wait" /\ lock = None
  /\ lock' = a
  /\ ack' = [ack EXCEPT ![a].pc = "read"]
  /\ UNCHANGED <<file, open, snd, acks, crashes>>

Marked(s, I) == [i \in 1 .. Len(s) |-> [m |-> s[i].m, acked |-> s[i].acked \/ s[i].m \in I]]

\* Fault: reading and rewriting are done under two locks.
AReadUnlocks(a) ==
  /\ ack[a].pc = "read" /\ Decodes(file)
  /\ lock' = None
  /\ ack' = [ack EXCEPT ![a].pc = "copied", ![a].copy = Marked(AckLoaded(file), ack[a].ids)]
  /\ UNCHANGED <<file, open, snd, acks, crashes>>

\* Fault: a message that is acknowledged is dropped with the lines that do not parse.
AReadDrops(a) ==
  /\ ack[a].pc = "read" /\ Decodes(file)
  /\ ack' = [ack EXCEPT ![a].pc = "copied",
               ![a].copy = SelectSeq(AckLoaded(file), LAMBDA l : l.m \notin ack[a].ids)]
  /\ UNCHANGED <<file, open, lock, snd, acks, crashes>>

\* Fault: the rest of the file is given up at the first line that does not parse.
AReadStops(a) ==
  /\ ack[a].pc = "read" /\ Decodes(file)
  /\ \E n \in 0 .. Len(file) :
       /\ \A i \in 1 .. n : file[i].m # None
       /\ n < Len(file) => file[n + 1].m = None
       /\ ack' = [ack EXCEPT ![a].pc = "copied",
                    ![a].copy = Marked(SubSeq(file, 1, n), ack[a].ids)]
  /\ UNCHANGED <<file, open, lock, snd, acks, crashes>>

\* What does not parse is left out for good.
ARead(a) ==
  /\ ack[a].pc = "read" /\ Decodes(file)
  /\ ack' = [ack EXCEPT ![a].pc = "copied", ![a].copy = Marked(AckLoaded(file), ack[a].ids)]
  /\ UNCHANGED <<file, open, lock, snd, acks, crashes>>

\* The decoder raises: the lock is given up and nothing was written.
AReadRaises(a) ==
  /\ ack[a].pc = "read" /\ ~ Decodes(file)
  /\ lock' = None
  /\ ack' = [ack EXCEPT ![a] = AckIdle]
  /\ UNCHANGED <<file, open, snd, acks, crashes>>

ATruncate(a) ==
  /\ ack[a].pc = "copied"
  /\ file' = <<>> /\ open' = FALSE
  /\ ack' = [ack EXCEPT ![a].pc = "write"]
  /\ UNCHANGED <<lock, snd, acks, crashes>>

\* The buffer goes out in pieces, which may end in the middle of a line
\* or of a character.
AFlush(a) ==
  /\ ack[a].pc = "write" /\ file # ack[a].copy
  /\ \E k \in 0 .. Len(ack[a].copy) :
       LET lines == SubSeq(ack[a].copy, 1, k) IN
       \/ k > Whole /\ file' = lines /\ open' = FALSE
       \/ /\ k >= Whole /\ k < Len(ack[a].copy) /\ (open => k > Whole)
          /\ open' = TRUE /\ \E l \in Cut : file' = Append(lines, l)
  /\ UNCHANGED <<lock, snd, ack, acks, crashes>>

AUnlock(a) ==
  /\ ack[a].pc = "write" /\ file = ack[a].copy
  /\ lock' = None
  /\ ack' = [ack EXCEPT ![a] = AckIdle]
  /\ UNCHANGED <<file, open, snd, acks, crashes>>

AckStep(a) ==
  ALock(a) \/ ARead(a) \/ AReadRaises(a) \/ ATruncate(a) \/ AFlush(a) \/ AUnlock(a)

-----------------------------------------------------------------------------
(* Death.  The kernel drops the lock of a process that is gone.             *)

\* What is lost with a: what it truncated away and has not written back.
Unwritten(a) ==
  IF ack[a].pc = "write" THEN SubSeq(ack[a].copy, Whole + 1, Len(ack[a].copy)) ELSE <<>>

Die(p) ==
  /\ p \in Mortal /\ crashes < MaxCrashes
  /\ \/ /\ p \in Message /\ snd[p] \in {"ready", "holds", "stored"}
        /\ snd' = [snd EXCEPT ![p] = "dead"]
        /\ UNCHANGED ack
     \/ /\ p \in Acker /\ ack[p].pc \notin {"idle", "dead"}
        /\ ack' = [ack EXCEPT ![p] = [AckIdle EXCEPT !.pc = "dead", !.copy = Unwritten(p)]]
        /\ UNCHANGED snd
  /\ lock' = IF lock = p THEN None ELSE lock
  /\ crashes' = crashes + 1
  /\ UNCHANGED <<file, open, acks>>

\* A sender that dies within its write, or finds the disk full, leaves part of
\* the line behind.
SCut(m) ==
  /\ m \in Mortal /\ crashes < MaxCrashes
  /\ snd[m] = "holds"
  /\ \E l \in Cut :
       file' = IF ~ open THEN Append(file, l)
               ELSE [file EXCEPT ![Len(file)].m = IF @ = Junk THEN Junk ELSE l.m]
  /\ open' = TRUE
  /\ snd' = [snd EXCEPT ![m] = "dead"]
  /\ lock' = None
  /\ crashes' = crashes + 1
  /\ UNCHANGED <<ack, acks>>

-----------------------------------------------------------------------------
InboxInit ==
  /\ file = <<>> /\ open = FALSE /\ lock = None
  /\ snd = [m \in Message |-> "new"]
  /\ ack = [a \in Acker |-> AckIdle]
  /\ acks = 0 /\ crashes = 0

InboxNext ==
  \/ \E m \in Message : SBegin(m) \/ Sender(m) \/ SCut(m)
  \/ \E a \in Acker : AckStep(a) \/ (\E I \in (SUBSET Message) \ {{}} : ABegin(a, I))
  \/ \E p \in Mortal : Die(p)

InboxSpec == InboxInit /\ [][InboxNext]_inboxVars

\* A process that has begun goes on, and flock lets everyone who waits in at
\* some time.
InboxFairness ==
  /\ \A m \in Message : WF_inboxVars(Sender(m)) /\ SF_inboxVars(SLock(m))
  /\ \A a \in Acker : WF_inboxVars(AckStep(a)) /\ SF_inboxVars(ALock(a))

InboxFairSpec == InboxSpec /\ InboxFairness

-----------------------------------------------------------------------------
(* Properties.                                                              *)

Line == [m : Message \cup {None, Junk}, acked : BOOLEAN]

AckState ==
  [pc : {"idle", "wait", "read", "copied", "write", "dead"}, ids : SUBSET Message,
   copy : Seq([m : Message, acked : BOOLEAN])]

\* Every variable has its type.
InboxTypeOK ==
  /\ file \in Seq(Line) /\ open \in BOOLEAN
  /\ lock \in Message \cup Acker \cup {None}
  /\ snd \in [Message -> {"new", "ready", "holds", "stored", "sent", "dead"}]
  /\ ack \in [Acker -> AckState]
  /\ acks \in Nat /\ crashes \in Nat

\* Some ack_inbox is between its read and its unlock: the file is what it has
\* read, or truncated, or rewritten in part.
Rewriting == lock \in Acker /\ ack[lock].pc \in {"copied", "write"}

\* What the inbox amounts to.
Box == IF Rewriting THEN ack[lock].copy ELSE file

\* The file and the lock, read as a mailbox.
Promise == INSTANCE Mailbox WITH
  box <- Box, sent <- {m \in Message : snd[m] = "sent"}

\* With processes that live and no such bodies, send.py and ack_inbox implement
\* Mailbox: no message is lost, doubled or reordered, and none is
\* un-acknowledged, however appends and rewrites interleave.
KeepsMail == Promise!Spec

\* The messages that send.py reported and that load_inbox does not return any more.
Unread == {m \in Message : /\ snd[m] = "sent"
                           /\ \A i \in 1 .. Len(Loaded(Box)) : Loaded(Box)[i].m # m}

Dead == {m \in Message : snd[m] = "dead"} \cup {a \in Acker : ack[a].pc = "dead"}

\* The messages that a read.py which died had truncated away and not written back.
InHands == {m \in Message : \E a \in Acker : /\ ack[a].pc = "dead"
                                             /\ \E i \in 1 .. Len(ack[a].copy) : ack[a].copy[i].m = m}

\* Whoever dies, within its write or elsewhere, leaves at most a line without its end,
\* which costs one message of another, through any number of acknowledgements; a read.py
\* costs besides what it had not written back.  This is so while the file decodes: a cut
\* within a character keeps load_inbox from the whole file.
DeathCostsOne ==
  Decodes(Box) => Cardinality(Unread \ InHands) <= Cardinality(Dead)

\* An acknowledgement takes nothing out of the mailbox.
AckKeepsDelivered ==
  [][\A a \in Acker : AckStep(a) =>
       \A i \in 1 .. Len(Box) : \E j \in 1 .. Len(Box') : Box'[j].m = Box[i].m]_inboxVars

\* A send.py and a read.py --ack that have begun come to their end, also when
\* the one that has the lock dies.
EverybodyFinishes ==
  /\ \A m \in Message : snd[m] = "ready" ~> snd[m] \in {"sent", "dead"}
  /\ \A a \in Acker : ack[a].pc = "wait" ~> ack[a].pc \in {"idle", "dead"}

-----------------------------------------------------------------------------
(* The inductive invariant behind KeepsMail, for processes that live.       *)

\* Only the holder of the lock is between its lock and its unlock.
Exclusive ==
  /\ \A m \in Message : snd[m] \in {"holds", "stored"} <=> lock = m
  /\ \A a \in Acker : ack[a].pc \in {"read", "copied", "write"} <=> lock = a

\* Outside a rewrite every line parses; within it the file is a first part of
\* what was read.
FileInv ==
  IF lock \in Acker /\ ack[lock].pc = "write"
  THEN LET copy == ack[lock].copy IN
       \E k \in 0 .. Len(copy) :
          \/ file = SubSeq(copy, 1, k) /\ open = FALSE
          \/ k < Len(copy) /\ open = TRUE /\ \E l \in Cut : file = Append(SubSeq(copy, 1, k), l)
  ELSE open = FALSE /\ \A i \in 1 .. Len(file) : file[i].m \in Message

\* A copy that is about to be written back is the file, marked.
CopyInv ==
  lock \in Acker /\ ack[lock].pc = "copied" => ack[lock].copy = Marked(file, ack[lock].ids)

\* The mailbox holds exactly the messages that were appended.
BoxInv ==
  \A m \in Message :
     (\E i \in 1 .. Len(Box) : Box[i].m = m) <=> snd[m] \in {"stored", "sent"}

\* What the lock of send.py and ack_inbox keeps true between any two file
\* operations of theirs.
InboxInv == InboxTypeOK /\ Exclusive /\ FileInv /\ CopyInv /\ BoxInv
=============================================================================
