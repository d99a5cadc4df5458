---------------------------- MODULE InboxReaders ----------------------------
(***************************************************************************)
(* load_inbox beside the writers of Inbox.  A reader takes no lock and the  *)
(* file comes to it in chunks, so that one read may begin before an         *)
(* acknowledgement truncates the file and go on after the rewrite, at the   *)
(* offset where it stopped.  Marking a message makes its line one byte      *)
(* shorter (false becomes true): the offset may be further on in the new    *)
(* file, and in the middle of a line.                                       *)
(*                                                                         *)
(* This is for Mortal = {} and Split = {}, writers that live and bodies     *)
(* without a Unicode line separator: what else may be in the file is the    *)
(* matter of Inbox.                                                         *)
(***************************************************************************)
EXTENDS Inbox

CONSTANT Reader      \* processes that run load_inbox, again and again

VARIABLE rd  \* rd[r]: .on within load_inbox; .at lines read or passed over; .part what of
             \* the next line is read; .got the messages found; history: .odd a line put
             \* together from two states of the file parsed, .torn the read went on in the
             \* middle of a line, or under it the text before its offset was rewritten

readersVars == <<file, open, lock, snd, ack, acks, crashes, rd>>

\* Nothing; its beginning; a beginning with the middle of another line after it; its
\* middle without the beginning.
Part == {"none", "begin", "mixed", "end"}

Fresh == [on |-> TRUE, at |-> 0, part |-> "none", got |-> <<>>, odd |-> FALSE, torn |-> FALSE]

RBegin(r) ==
  /\ ~ rd[r].on
  /\ rd' = [rd EXCEPT ![r] = Fresh]

\* What q has found when it has come to the end of line n: the end of a line alone
\* does not parse.
Found(q, n) ==
  LET i == IF q.part \in {"mixed", "end"} THEN q.at + 1 ELSE q.at
  IN  q.got \o [k \in 1 .. n - i |-> file[i + k].m]

\* A chunk ends anywhere: the lines up to n come with it, and maybe a part of
\* the next one.
RChunk(r) ==
  LET q == rd[r] IN
  /\ q.on
  /\ \E n \in q.at + 1 .. Whole, p \in {"none", "begin"}, odd \in {q.odd, q.odd \/ q.part = "mixed"} :
       /\ p = "begin" => n < Len(file)
       /\ rd' = [rd EXCEPT ![r] = [q EXCEPT !.at = n, !.part = p, !.got = Found(q, n), !.odd = odd,
                                            !.torn = @ \/ q.part = "end"]]

\* ... or within the line in which it began.
RChunkWithin(r) ==
  /\ rd[r].on /\ rd[r].part = "none" /\ rd[r].at < Len(file)
  /\ rd' = [rd EXCEPT ![r].part = "begin"]

\* There is nothing more in the file.
AtEnd(q) == q.at >= Len(file) \/ (open /\ q.at = Len(file) - 1 /\ q.part # "none")

\* What is left is taken for a line, which for the beginning of one parses only if no more
\* than the newline was missing.  The loop goes on: if the file grows now, with its rest.
RLast(r) ==
  LET q == rd[r] IN
  /\ q.on /\ AtEnd(q) /\ q.part \in {"begin", "mixed"}
  /\ \/ /\ q.part = "begin"
        /\ \E got \in {q.got, Append(q.got, Box[q.at + 1].m)} :
             rd' = [rd EXCEPT ![r] = [q EXCEPT !.part = "end", !.got = got]]
     \/ /\ q.part = "mixed"
        /\ \E p \in {"none", "end"}, odd \in BOOLEAN :
             rd' = [rd EXCEPT ![r] = [q EXCEPT !.part = p, !.odd = @ \/ odd]]

REnd(r) ==
  /\ rd[r].on /\ AtEnd(rd[r]) /\ rd[r].part \in {"none", "end"}
  /\ rd' = [rd EXCEPT ![r].on = FALSE]

\* The decoder raises at a character that was cut or joined, and load_inbox with it.
RRaise(r) ==
  /\ rd[r].on
  /\ rd[r].part \in {"mixed", "end"} \/ (rd[r].part = "begin" /\ rd[r].at >= Whole)
  /\ rd' = [rd EXCEPT ![r] = [Fresh EXCEPT !.on = FALSE]]

Read(r) == RBegin(r) \/ RChunk(r) \/ RChunkWithin(r) \/ RLast(r) \/ REnd(r) \/ RRaise(r)

\* One of the first n lines is about to be written back with its mark.
Marks(copy, n) == \E i \in DOMAIN file \cap DOMAIN copy : i <= n /\ file[i] # copy[i]

Shifted(q, n, p) == [q EXCEPT !.at = n, !.part = p, !.torn = TRUE]

\* Reader q is at x in the file that an acknowledgement writes back: where it was, if no
\* line before its offset gets a mark; and otherwise further on.
Lands(q, x, copy) ==
  \/ /\ x = q
     /\ q.on => ~ Marks(copy, q.at)
  \/ /\ q.on /\ Marks(copy, IF q.part = "none" THEN q.at ELSE q.at + 1)
     /\ \E n \in q.at .. Len(copy), p \in Part :
          /\ x = Shifted(q, n, p)
          /\ IF q.part \in {"none", "end"} THEN p = "end" \/ (p = "none" /\ n > q.at)
             ELSE p = "mixed"

Landings(copy) ==
  UNION {{q} \cup {Shifted(q, n, p) : n \in 0 .. Len(copy), p \in Part} : q \in {rd[r] : r \in Reader}}

\* ATruncate, and what it means for those who are reading.
TruncateUnderReaders(a) ==
  /\ ATruncate(a)
  /\ rd' \in [Reader -> Landings(ack[a].copy)]
  /\ \A r \in Reader : Lands(rd[r], rd'[r], ack[a].copy)

-----------------------------------------------------------------------------
ReadersInit == InboxInit /\ rd = [r \in Reader |-> [Fresh EXCEPT !.on = FALSE]]

ReadersNext ==
  \/ \E r \in Reader : Read(r) /\ UNCHANGED inboxVars
  \/ \E a \in Acker : TruncateUnderReaders(a)
  \/ /\ InboxNext /\ UNCHANGED rd
     /\ \A a \in Acker : ack'[a].pc = "write" => ack[a].pc = "write"

ReadersSpec == ReadersInit /\ [][ReadersNext]_readersVars

-----------------------------------------------------------------------------
\* What load_inbox has found is in the order of the mailbox, nothing twice and nothing
\* that was not sent, whatever is rewritten under it; a read that is not torn has found
\* the oldest messages, without a gap.
Rising(place) == \A i, j \in DOMAIN place : i < j => place[i] < place[j]

ReadersKeepOrder ==
  \A r \in Reader :
     LET got == rd[r].got IN
     /\ \E place \in [1 .. Len(got) -> 1 .. Len(Box)] :
          Rising(place) /\ \A i \in 1 .. Len(got) : got[i] = Box[place[i]].m
     /\ ~ rd[r].torn => /\ ~ rd[r].odd
                         /\ Len(got) <= Len(Box) /\ \A i \in 1 .. Len(got) : got[i] = Box[i].m
=============================================================================
