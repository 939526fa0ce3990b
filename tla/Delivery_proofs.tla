-------------------------- MODULE Delivery_proofs --------------------------
(***************************************************************************)
(* That a page shows no message twice, whatever comes to it in which order: *)
(* proved for any chat messages and pages, and any number of texts, stream  *)
(* events, broken connections, reloads and restarts.                        *)
(*                                                                         *)
(* And that a patient page, alone on a session of a server that stays up,   *)
(* misses none: proved for any chat messages, texts, broken connections and *)
(* reloads, where the agents have no stream events, or none is evicted.     *)
(***************************************************************************)
EXTENDS Delivery, FiniteSetTheorems, TLAPS

\* Who wrote the chat messages of a sequence of messages or frames.
AuthorsOf(s) == {s[i].who : i \in {j \in DOMAIN s : s[j].kind = "user"}}

\* Rows are numbered from 0 on, and a chat message has one row.
SoundRows(r) ==
    /\ r \in Seq(Message)
    /\ \A i \in DOMAIN r : r[i].seq = i - 1
    /\ \A i, j \in DOMAIN r :
          (r[i].kind = "user" /\ r[j].kind = "user" /\ r[i].who = r[j].who) => i = j

SoundBuffer(b, S) ==
    /\ b \in [rows : Seq(Message), mem : Seq(Message), base : Nat]
    /\ SoundRows(b.rows)
    /\ AuthorsOf(b.rows) \subseteq S
    /\ AuthorsOf(b.mem) \subseteq S

\* A chat message that is on its way is there once, and is not stored yet.
SoundInbox(q, r, S) ==
    /\ q \in Seq(Request)
    /\ \A i \in DOMAIN q : q[i].type = "chat" => q[i].who \in S \ AuthorsOf(r)
    /\ \A i, j \in DOMAIN q :
          (q[i].type = "chat" /\ q[j].type = "chat" /\ q[i].who = q[j].who) => i = j

SoundWire(w, S) == w \in Seq(Frame) /\ AuthorsOf(w) \subseteq S

\* What a page shows is a message that was sent, once, under bounded indices.
SoundView(v, S) ==
    /\ v \subseteq [id : Nat \cup Prompt, index : Nat]
    /\ \A x \in v : x.id \in Prompt => x.id \in S
    /\ \A x, y \in v : x.id = y.id => x = y
    /\ \E top \in Nat : \A x \in v : x.index <= top

IInv ==
    /\ TypeOK
    /\ SoundBuffer(buf, sent)
    /\ SoundInbox(inbox, buf.rows, sent)
    /\ SoundWire(wire, sent)
    /\ SoundView(view, sent)
    /\ answer.rows <= Len(buf.rows)

-----------------------------------------------------------------------------
(* Largest.  The library's induction over Nat takes an operator; that a    *)
(* finite set is well founded under inclusion takes none.                   *)

\* A set of natural numbers has a least element.
LEMMA Least ==
  ASSUME NEW S, S \subseteq Nat, S # {}
  PROVE  \E n \in S : \A k \in S : n <= k
  <1>1. PICK top \in S : TRUE
    OBVIOUS
  <1>. DEFINE Below == {0..n : n \in {k \in S : k <= top}}
  <1>2. Below \subseteq SUBSET (0..top) /\ Below # {}
    BY <1>1
  <1>3. IsFiniteSet(0..top)
    BY <1>1, FS_Interval
  <1>4. IsWellFoundedOn(StrictSubsetOrdering(0..top), SUBSET (0..top))
    BY <1>3, FS_StrictSubsetOrderingWellFounded, FS_FiniteSubsetsOfFinite, Zenon
  <1>5. \E x \in Below : \A y \in Below : ~(<<y, x>> \in StrictSubsetOrdering(0..top))
    BY <1>2, <1>4, WFMin, Zenon
  <1>6. PICK n \in S :
             /\ n <= top
             /\ \A k \in S : k <= top => ~(<<0..k, 0..n>> \in StrictSubsetOrdering(0..top))
    BY <1>5
  <1>7. ASSUME NEW k \in S, k < n PROVE FALSE
    <2>1. 0..k \subseteq 0..n /\ 0..k \subseteq 0..top /\ 0..n \subseteq 0..top
      BY <1>1, <1>6, <1>7
    <2>2. n \in 0..n /\ n \notin 0..k
      BY <1>6, <1>7
    <2>3. <<0..k, 0..n>> \in StrictSubsetOrdering(0..top)
      BY <2>1, <2>2, Zenon DEF StrictSubsetOrdering
    <2>. QED
      BY <2>3, <1>1, <1>6, <1>7
  <1>. QED
    BY <1>1, <1>6, <1>7

\* The largest number of a bounded set is in it, and no other is larger.
LEMMA LargestIn ==
  ASSUME NEW S, S \subseteq Nat, S # {}, NEW top \in Nat, \A n \in S : n <= top
  PROVE  Largest(S) \in S /\ \A n \in S : n <= Largest(S)
  <1>. DEFINE Gaps == {top - n : n \in S}
  <1>0. \A n \in S : top - n \in Nat
    OBVIOUS
  <1>1. Gaps \subseteq Nat /\ Gaps # {}
    BY <1>0
  <1>2. PICK g \in Gaps : \A h \in Gaps : g <= h
    BY <1>1, Least
  <1>3. PICK n \in S : g = top - n
    BY <1>2
  <1>4. \A m \in S : top - n <= top - m
    BY <1>2, <1>3
  <1>5. \A m \in S : m <= n
    BY <1>4
  <1>. QED
    BY <1>5 DEF Largest

\* The larger of two indices, of which one may be -1.
LEMMA LargerOfTwo ==
  ASSUME NEW m \in Index, NEW n \in Index
  PROVE  Largest({m, n}) \in {m, n}
  BY DEF Largest, Index, NoSeq

-----------------------------------------------------------------------------
(* What the buffer and the loops make of messages. *)

\* What is taken from messages has no other authors than they.
LEMMA AuthorsOfPart ==
  ASSUME NEW s, NEW t, \A i \in DOMAIN t : \E j \in DOMAIN s :
              t[i].kind = s[j].kind /\ t[i].who = s[j].who
  PROVE  AuthorsOf(t) \subseteq AuthorsOf(s)
  BY Zenon DEF AuthorsOf

\* get_history answers messages that are in the list or in the table.
LEMMA HistorySound ==
  ASSUME TypeOK, SoundBuffer(buf, sent), NEW after \in Nat
  PROVE  /\ GetHistory(after) \in Seq(Message)
         /\ AuthorsOf(GetHistory(after)) \subseteq sent
  <1>. DEFINE fromMem == SubSeq(buf.mem, after - buf.base + 1, Len(buf.mem))
              fromRows == SubSeq(buf.rows, after + 1, Len(buf.rows))
  <1>1. buf.mem \in Seq(Message) /\ buf.rows \in Seq(Message) /\ buf.base \in Nat
    BY DEF SoundBuffer
  <1>2. CASE after - buf.base \in 0..Len(buf.mem) - 1
    <2>1. GetHistory(after) = fromMem
      BY <1>2 DEF GetHistory
    <2>0. after - buf.base \in Nat /\ after - buf.base < Len(buf.mem)
      BY <1>1, <1>2
    <2>2. PICK n \in Nat : n = after - buf.base /\ n < Len(buf.mem)
      BY <2>0
    <2>3. /\ SubSeq(buf.mem, n + 1, Len(buf.mem)) \in Seq(Message)
          /\ \A i \in DOMAIN SubSeq(buf.mem, n + 1, Len(buf.mem)) :
                /\ n + i \in DOMAIN buf.mem
                /\ SubSeq(buf.mem, n + 1, Len(buf.mem))[i] = buf.mem[n + i]
      <3>1. n \in Nat /\ buf.mem \in Seq(Message)
        BY <1>1, <2>2
      <3>. QED
        BY <3>1
    <2>4. /\ fromMem \in Seq(Message)
          /\ \A i \in DOMAIN fromMem : \E j \in DOMAIN buf.mem : fromMem[i] = buf.mem[j]
      BY <2>2, <2>3
    <2>5. AuthorsOf(fromMem) \subseteq AuthorsOf(buf.mem)
      BY <2>4, AuthorsOfPart
    <2>. QED
      BY <2>1, <2>4, <2>5 DEF SoundBuffer
  <1>3. CASE after - buf.base \notin 0..Len(buf.mem) - 1
    <2>1. GetHistory(after) = fromRows
      BY <1>3 DEF GetHistory
    <2>2. /\ fromRows \in Seq(Message)
          /\ \A i \in DOMAIN fromRows :
                /\ after + i \in DOMAIN buf.rows
                /\ fromRows[i] = buf.rows[after + i]
      BY <1>1
    <2>3. AuthorsOf(fromRows) \subseteq AuthorsOf(buf.rows)
      BY <2>2, AuthorsOfPart
    <2>. QED
      BY <2>1, <2>2, <2>3 DEF SoundBuffer
  <1>. QED
    BY <1>2, <1>3

\* What a loop or a replay sends of a history is sound if the history is.
LEMMA FramesSound ==
  ASSUME TypeOK, NEW h \in Seq(Message), AuthorsOf(h) \subseteq sent,
         NEW from \in Nat, NEW again \in BOOLEAN
  PROVE  SoundWire(Frames(h, from, again), sent)
  <1>. DEFINE fs == Frames(h, from, again)
  <1>1. /\ DOMAIN fs = DOMAIN h
        /\ DOMAIN h = 1..Len(h) /\ Len(h) \in Nat
        /\ \A i \in DOMAIN h :
              fs[i] = [kind |-> h[i].kind, who |-> h[i].who, replay |-> again,
                       index |-> IF h[i].seq = NoSeq THEN from + i - 1 ELSE h[i].seq]
    BY DEF Frames
  <1>2. \A i \in DOMAIN h : fs[i] \in Frame
    <2>. TAKE i \in DOMAIN h
    <2>1. h[i] \in Message /\ i \in Nat \ {0}
      BY <1>1
    <2>2. (IF h[i].seq = NoSeq THEN from + i - 1 ELSE h[i].seq) \in Nat
      BY <2>1 DEF Message, Index
    <2>. QED
      BY <1>1, <2>1, <2>2 DEF Frame, Message, Kinds
  <1>3. fs \in Seq(Frame)
    BY <1>1, <1>2 DEF Frames
  <1>4. AuthorsOf(fs) \subseteq AuthorsOf(h)
    BY <1>1, AuthorsOfPart
  <1>. QED
    BY <1>3, <1>4 DEF SoundWire

\* The index that resume puts on a frame is a number.
LEMMA ResumeIndexIsIndex ==
  ASSUME NEW h \in Seq(Message), NEW i \in 0..Len(h), NEW from \in Nat
  PROVE  ResumeIndex(h, i, from) \in Nat
  <1>. DEFINE S == {j \in 1..i : h[j].seq # NoSeq}
  <1>1. CASE S = {}
    BY <1>1 DEF ResumeIndex
  <1>2. CASE S # {}
    <2>1. S \subseteq Nat /\ \A n \in S : n <= i
      OBVIOUS
    <2>. HIDE DEF S
    <2>0. i \in Nat
      OBVIOUS
    <2>2. Largest(S) \in S
      BY <1>2, <2>0, <2>1, LargestIn, Zenon
    <2>3. h[Largest(S)] \in Message /\ h[Largest(S)].seq # NoSeq
      BY <2>2 DEF S
    <2>. QED
      BY <1>2, <2>3 DEF ResumeIndex, Message, Index, S
  <1>. QED
    BY <1>1, <1>2

\* The same of what resume sends.
LEMMA ResumeFramesSound ==
  ASSUME TypeOK, NEW h \in Seq(Message), AuthorsOf(h) \subseteq sent, NEW from \in Nat
  PROVE  SoundWire(ResumeFrames(h, from), sent)
  <1>. DEFINE fs == ResumeFrames(h, from)
  <1>1. /\ DOMAIN fs = DOMAIN h
        /\ DOMAIN h = 1..Len(h) /\ Len(h) \in Nat
        /\ \A i \in DOMAIN h :
              fs[i] = [kind |-> h[i].kind, who |-> h[i].who, replay |-> FALSE,
                       index |-> ResumeIndex(h, i, from)]
    BY DEF ResumeFrames
  <1>2. \A i \in DOMAIN h : fs[i] \in Frame
    <2>. TAKE i \in DOMAIN h
    <2>1. h[i] \in Message /\ i \in 0..Len(h)
      BY <1>1
    <2>2. ResumeIndex(h, i, from) \in Nat
      BY <2>1, ResumeIndexIsIndex
    <2>3. fs[i] = [kind |-> h[i].kind, who |-> h[i].who, replay |-> FALSE,
                   index |-> ResumeIndex(h, i, from)]
      BY <1>1
    <2>. HIDE DEF fs
    <2>. QED
      BY <2>1, <2>2, <2>3 DEF Frame, Message, Kinds
  <1>3. fs \in Seq(Frame)
    BY <1>1, <1>2 DEF ResumeFrames
  <1>4. AuthorsOf(fs) \subseteq AuthorsOf(h)
    BY <1>1, AuthorsOfPart
  <1>. QED
    BY <1>3, <1>4 DEF SoundWire

\* A signal is no chat message, so it is sound whatever was sent.
LEMMA SignalSound ==
  ASSUME NEW kind \in Kinds \ {"user"}, NEW index \in Nat, NEW S
  PROVE  SoundWire(Signal(kind, index), S)
  BY DEF SoundWire, Signal, Frame, AuthorsOf

\* What is sent is what was sent and more.
LEMMA SendsSound ==
  ASSUME SoundWire(wire, sent), NEW fs, SoundWire(fs, sent), Sends(fs)
  PROVE  SoundWire(wire', sent)
  <1>1. wire \in Seq(Frame) /\ fs \in Seq(Frame) /\ wire' = wire \o fs
    BY DEF SoundWire, Sends
  <1>2. /\ wire' \in Seq(Frame)
        /\ \A i \in DOMAIN wire' :
              \/ i \in DOMAIN wire /\ wire'[i] = wire[i]
              \/ i - Len(wire) \in DOMAIN fs /\ wire'[i] = fs[i - Len(wire)]
    BY <1>1
  <1>3. AuthorsOf(wire') \subseteq AuthorsOf(wire) \cup AuthorsOf(fs)
    BY <1>2, Zenon DEF AuthorsOf
  <1>. QED
    BY <1>2, <1>3 DEF SoundWire

\* Appending keeps the table numbered and its authors distinct, if the message
\* is a stream event or numbered next, and its author is new.
LEMMA AppendedSound ==
  ASSUME NEW b, NEW S, SoundBuffer(b, S),
         NEW m \in Message, m.seq \in {NoSeq, Len(b.rows)},
         m.kind = "user" => m.who \in S \ AuthorsOf(b.rows)
  PROVE  /\ SoundBuffer(Appended(b, m), S)
         /\ Len(b.rows) <= Len(Appended(b, m).rows)
         /\ AuthorsOf(Appended(b, m).rows) \subseteq AuthorsOf(b.rows) \cup {m.who}
         /\ m.kind # "user" => AuthorsOf(Appended(b, m).rows) \subseteq AuthorsOf(b.rows)
  <1>. DEFINE all == Append(b.mem, m)
              drop == IF Len(all) > MaxHistory THEN Len(all) - MaxHistory ELSE 0
              left == SubSeq(all, drop + 1, Len(all))
              rows == IF m.seq = NoSeq THEN b.rows ELSE Append(b.rows, m)
              base == IF b.base = 0 /\ Len(all) = 1 /\ m.seq # NoSeq
                      THEN m.seq ELSE b.base + drop
  <1>1. /\ b.rows \in Seq(Message) /\ b.mem \in Seq(Message) /\ b.base \in Nat
        /\ SoundRows(b.rows)
        /\ AuthorsOf(b.rows) \subseteq S /\ AuthorsOf(b.mem) \subseteq S
    BY DEF SoundBuffer
  <1>2. Appended(b, m) = [mem |-> left, base |-> base, rows |-> rows]
    BY DEF Appended
  <1>3. MaxHistory \in Nat
    BY ConstantsAssumption
  <1>4. /\ all \in Seq(Message)
        /\ \A i \in DOMAIN all : all[i] = m \/ \E j \in DOMAIN b.mem : all[i] = b.mem[j]
    BY <1>1
  <1>5. drop \in Nat
    BY <1>3, <1>4
  <1>6. /\ left \in Seq(Message)
        /\ \A i \in DOMAIN left : \E j \in DOMAIN all : left[i] = all[j]
    <2>. HIDE DEF all, drop
    <2>1. /\ left \in Seq(Message)
          /\ \A i \in DOMAIN left : drop + i \in DOMAIN all /\ left[i] = all[drop + i]
      BY <1>4, <1>5
    <2>. QED
      BY <2>1
  <1>7. AuthorsOf(left) \subseteq S
    <2>. HIDE DEF all, left
    <2>1. \A i \in DOMAIN left : left[i] = m \/ \E j \in DOMAIN b.mem : left[i] = b.mem[j]
      BY <1>4, <1>6
    <2>2. \A i \in DOMAIN left : left[i].kind = "user" => left[i].who \in S
      BY <1>1, <2>1 DEF AuthorsOf
    <2>. QED
      BY <2>2 DEF AuthorsOf
  <1>8. base \in Nat
    BY <1>1, <1>5 DEF Message, Index
  <1>9. /\ rows \in Seq(Message)
        /\ Len(b.rows) <= Len(rows)
        /\ \A i \in DOMAIN rows :
              \/ i \in DOMAIN b.rows /\ rows[i] = b.rows[i]
              \/ i = Len(b.rows) + 1 /\ rows[i] = m /\ m.seq = Len(b.rows)
    BY <1>1
  <1>10. SoundRows(rows)
    <2>. HIDE DEF rows
    <2>1. \A i \in DOMAIN rows : rows[i].seq = i - 1
      BY <1>1, <1>9 DEF SoundRows
    <2>2. \A i \in DOMAIN b.rows : b.rows[i].kind = "user" => b.rows[i].who \in AuthorsOf(b.rows)
      BY DEF AuthorsOf
    <2>3. \A i, j \in DOMAIN rows :
             (rows[i].kind = "user" /\ rows[j].kind = "user" /\ rows[i].who = rows[j].who) => i = j
      BY <1>1, <1>9, <2>2 DEF SoundRows
    <2>. QED
      BY <1>9, <2>1, <2>3 DEF SoundRows
  <1>11. /\ AuthorsOf(rows) \subseteq AuthorsOf(b.rows) \cup {m.who}
         /\ m.kind # "user" => AuthorsOf(rows) \subseteq AuthorsOf(b.rows)
         /\ AuthorsOf(rows) \subseteq S
    <2>. HIDE DEF rows
    <2>1. \A i \in DOMAIN rows : rows[i].kind = "user" =>
             \/ rows[i].who \in AuthorsOf(b.rows)
             \/ rows[i].who = m.who /\ m.kind = "user"
      BY <1>9 DEF AuthorsOf
    <2>. QED
      BY <1>1, <2>1 DEF AuthorsOf
  <1>. HIDE DEF left, rows, base
  <1>. QED
    BY <1>2, <1>6, <1>7, <1>8, <1>9, <1>10, <1>11 DEF SoundBuffer

\* The chat message and the running that handle_ws adds.
LEMMA AnnouncedSound ==
  ASSUME NEW b, NEW S, SoundBuffer(b, S),
         NEW p \in Prompt, p \in S \ AuthorsOf(b.rows)
  PROVE  /\ SoundBuffer(Announced(b, p), S)
         /\ Len(b.rows) <= Len(Announced(b, p).rows)
         /\ AuthorsOf(Announced(b, p).rows) \subseteq AuthorsOf(b.rows) \cup {p}
  <1>. DEFINE m == Numbered(b, "user", p)
              said == Appended(b, m)
              n == Numbered(said, "running", NoPrompt)
  <1>0. b.rows \in Seq(Message)
    BY DEF SoundBuffer
  <1>1. m \in Message /\ m.seq = Len(b.rows) /\ m.kind = "user" /\ m.who = p
    BY <1>0 DEF Numbered, Message, Index, Stored, Visible
  <1>2. /\ SoundBuffer(said, S)
        /\ Len(b.rows) <= Len(said.rows)
        /\ AuthorsOf(said.rows) \subseteq AuthorsOf(b.rows) \cup {p}
    <2>. HIDE DEF m
    <2>. QED
      BY <1>1, AppendedSound
  <1>3. said.rows \in Seq(Message)
    BY <1>2 DEF SoundBuffer
  <1>4. n \in Message /\ n.seq = Len(said.rows) /\ n.kind = "running"
    <2>. HIDE DEF said
    <2>. QED
      BY <1>3 DEF Numbered, Message, Index, Stored, Visible
  <1>5. /\ SoundBuffer(Appended(said, n), S)
        /\ Len(said.rows) <= Len(Appended(said, n).rows)
        /\ AuthorsOf(Appended(said, n).rows) \subseteq AuthorsOf(said.rows)
    <2>. HIDE DEF said, n
    <2>. QED
      BY <1>2, <1>4, AppendedSound
  <1>6. Announced(b, p) = Appended(said, n)
    BY DEF Announced
  <1>7. Len(Appended(said, n).rows) \in Nat /\ Len(b.rows) \in Nat /\ Len(said.rows) \in Nat
    BY <1>0, <1>3, <1>5 DEF SoundBuffer
  <1>. QED
    BY <1>2, <1>5, <1>6, <1>7

-----------------------------------------------------------------------------
(* The requests on their way. *)

\* The request at the head is one of them.
LEMMA HeadSound ==
  ASSUME NEW q, NEW r, NEW S, SoundInbox(q, r, S), q # <<>>
  PROVE  /\ Head(q) \in Request /\ Head(q).last \in Nat
         /\ Head(q).type = "chat" => Head(q).who \in S \ AuthorsOf(r)
  <1>1. q \in Seq(Request) /\ 1 \in DOMAIN q /\ Head(q) = q[1]
    BY DEF SoundInbox
  <1>2. q[1] \in Request
    BY <1>1
  <1>3. q[1].type = "chat" => q[1].who \in S \ AuthorsOf(r)
    BY <1>1 DEF SoundInbox
  <1>4. q[1].last \in Nat
    BY <1>2 DEF Request
  <1>. QED
    BY <1>1, <1>2, <1>3, <1>4

\* A request that is taken leaves the others sound, even if it is stored now.
LEMMA TakenSound ==
  ASSUME NEW q, NEW r, NEW S, SoundInbox(q, r, S), q # <<>>, NEW s,
         \/ AuthorsOf(s) \subseteq AuthorsOf(r)
         \/ /\ Head(q).type = "chat"
            /\ AuthorsOf(s) \subseteq AuthorsOf(r) \cup {Head(q).who}
  PROVE  SoundInbox(Tail(q), s, S)
  <1>1. q \in Seq(Request)
    BY DEF SoundInbox
  <1>2. /\ Tail(q) \in Seq(Request)
        /\ \A i \in DOMAIN Tail(q) : i + 1 \in DOMAIN q /\ i + 1 # 1 /\ Tail(q)[i] = q[i + 1]
        /\ DOMAIN Tail(q) \subseteq Nat
        /\ 1 \in DOMAIN q /\ Head(q) = q[1]
    BY <1>1
  <1>3. \A i \in DOMAIN Tail(q) : Tail(q)[i].type = "chat" => Tail(q)[i].who \in S \ AuthorsOf(s)
    BY <1>2 DEF SoundInbox
  <1>4. \A i, j \in DOMAIN Tail(q) :
           (Tail(q)[i].type = "chat" /\ Tail(q)[j].type = "chat" /\ Tail(q)[i].who = Tail(q)[j].who)
           => i = j
    <2>. TAKE i, j \in DOMAIN Tail(q)
    <2>. HAVE Tail(q)[i].type = "chat" /\ Tail(q)[j].type = "chat" /\ Tail(q)[i].who = Tail(q)[j].who
    <2>1. i + 1 = j + 1
      BY <1>2 DEF SoundInbox
    <2>. QED
      BY <1>2, <2>1
  <1>. QED
    BY <1>2, <1>3, <1>4 DEF SoundInbox

\* One that is new may be put at the end.
LEMMA AskedSound ==
  ASSUME NEW q, NEW r, NEW S, SoundInbox(q, r, S), NEW e \in Request,
         e.type = "chat" =>
            /\ e.who \in S \ AuthorsOf(r)
            /\ \A i \in DOMAIN q : q[i].type = "chat" => q[i].who # e.who
  PROVE  SoundInbox(Append(q, e), r, S)
  <1>1. q \in Seq(Request)
    BY DEF SoundInbox
  <1>2. /\ Append(q, e) \in Seq(Request)
        /\ \A i \in DOMAIN Append(q, e) :
              \/ i \in DOMAIN q /\ Append(q, e)[i] = q[i]
              \/ i = Len(q) + 1 /\ Append(q, e)[i] = e
    BY <1>1
  <1>. QED
    BY <1>2 DEF SoundInbox

\* A request that is put back is the only one of its kind.
LEMMA PutBackSound ==
  ASSUME NEW q, NEW r, NEW S, SoundInbox(q, r, S), q # <<>>
  PROVE  SoundInbox(Append(Tail(q), Head(q)), r, S)
  <1>1. SoundInbox(Tail(q), r, S)
    BY TakenSound
  <1>2. q \in Seq(Request)
    BY DEF SoundInbox
  <1>3. /\ 1 \in DOMAIN q /\ Head(q) = q[1] /\ Head(q) \in Request
        /\ \A i \in DOMAIN Tail(q) : i + 1 \in DOMAIN q /\ i + 1 # 1 /\ Tail(q)[i] = q[i + 1]
    BY <1>2
  <1>4. Head(q).type = "chat" =>
           /\ Head(q).who \in S \ AuthorsOf(r)
           /\ \A i \in DOMAIN Tail(q) : Tail(q)[i].type = "chat" => Tail(q)[i].who # Head(q).who
    BY <1>3 DEF SoundInbox
  <1>. QED
    BY <1>1, <1>3, <1>4, AskedSound

\* Nothing of this depends on what else is sent or stored.
LEMMA InboxKept ==
  ASSUME NEW q, NEW r, NEW S, SoundInbox(q, r, S), NEW s, NEW T, S \subseteq T,
         \A i \in DOMAIN q : q[i].type = "chat" => q[i].who \notin AuthorsOf(s)
  PROVE  SoundInbox(q, s, T)
  BY DEF SoundInbox

-----------------------------------------------------------------------------
(* What a page shows. *)

\* The identity of a message that is shown is its author or its number.
LEMMA IdOfFrame ==
  ASSUME NEW f \in Frame, NEW S, S \subseteq Prompt, f.kind = "user" => f.who \in S
  PROVE  /\ FrameId(f) \in Nat \cup Prompt
         /\ FrameId(f) \in Prompt => FrameId(f) \in S
  BY ConstantsAssumption DEF FrameId, Frame

\* handleIncomingMessage shows a message once.
LEMMA MergedSound ==
  ASSUME TypeOK, SoundView(view, sent), NEW f \in Frame, f.kind = "user" => f.who \in sent
  PROVE  SoundView(Merged(f), sent)
  <1>0. sent \subseteq Prompt
    BY DEF TypeOK
  <1>. DEFINE id == FrameId(f)
              again == f.index \in Indices /\ (f.replay \/ f.kind # "user" \/ FirstTurn(f))
              moved(v) == IF v.id = id /\ (f.replay \/ f.index >= v.index)
                          THEN [v EXCEPT !.index = f.index] ELSE v
              new == [id |-> id, index |-> f.index]
  <1>1. id \in Nat \cup Prompt /\ (id \in Prompt => id \in sent) /\ f.index \in Nat
    BY <1>0, IdOfFrame DEF Frame
  <1>2. PICK top \in Nat : \A x \in view : x.index <= top
    BY DEF SoundView
  <1>3. PICK top2 \in Nat : top <= top2 /\ f.index <= top2
    <2>1. CASE top <= f.index
      BY <1>1, <2>1
    <2>2. CASE f.index <= top
      BY <1>1, <2>2
    <2>. QED
      BY <1>1, <2>1, <2>2
  <1>. HIDE DEF id
  <1>4. CASE again
    BY <1>4 DEF Merged
  <1>5. CASE ~again /\ id \in Ids
    <2>1. Merged(f) = {moved(v) : v \in view}
      BY <1>5 DEF Merged, id
    <2>2. \A v \in view : /\ v \in [id : Nat \cup Prompt, index : Nat]
                          /\ moved(v) \in [id : Nat \cup Prompt, index : Nat]
                          /\ moved(v).id = v.id
                          /\ moved(v).index <= top2
      BY <1>1, <1>2, <1>3 DEF SoundView
    <2>. HIDE DEF moved
    <2>3. \A x, y \in {moved(v) : v \in view} : x.id = y.id => x = y
      BY <2>2 DEF SoundView
    <2>. QED
      BY <2>1, <2>2, <2>3 DEF SoundView
  <1>6. CASE ~again /\ id \notin Ids
    <2>1. Merged(f) = view \cup {new}
      BY <1>6 DEF Merged, id
    <2>2. new \in [id : Nat \cup Prompt, index : Nat] /\ new.id = id /\ new.index = f.index
      BY <1>1
    <2>3. \A v \in view : v.id # id
      BY <1>6 DEF Ids
    <2>4. \A v \in view : v.index <= top2
      BY <1>2, <1>3 DEF SoundView
    <2>. HIDE DEF new
    <2>. QED
      BY <1>1, <1>3, <2>1, <2>2, <2>3, <2>4 DEF SoundView
  <1>. QED
    BY <1>4, <1>5, <1>6

\* The largest index of a page is an index.
LEMMA MaxIndexIsIndex ==
  ASSUME SoundView(view, sent)
  PROVE  MaxIndex \in Nat /\ \A v \in view : v.index <= MaxIndex
  <1>. DEFINE S == Indices \cup {0}
  <1>1. S \subseteq Nat /\ S # {}
    BY DEF Indices, SoundView
  <1>2. PICK top \in Nat : \A n \in S : n <= top
    BY DEF Indices, SoundView
  <1>3. Largest(S) \in S /\ \A n \in S : n <= Largest(S)
    <2>. HIDE DEF S
    <2>. QED
      BY <1>1, <1>2, LargestIn, Zenon
  <1>. QED
    BY <1>1, <1>3 DEF MaxIndex, Indices

\* What GET /history adds is not shown yet, and its rows are different messages.
LEMMA LoadedSound ==
  ASSUME TypeOK, SoundView(view, sent), SoundBuffer(buf, sent), NEW last \in Nat,
         last <= Len(buf.rows),
         NEW new, new \subseteq {buf.rows[n] : n \in 1..last},
         \A m \in new : RowId(m) \notin Ids
  PROVE  SoundView(view \cup {[id |-> RowId(m), index |-> m.seq] : m \in new}, sent)
  <1>. DEFINE item(m) == [id |-> RowId(m), index |-> m.seq]
  <1>0. sent \subseteq Prompt
    BY DEF TypeOK
  <1>1. /\ buf.rows \in Seq(Message) /\ SoundRows(buf.rows)
        /\ AuthorsOf(buf.rows) \subseteq sent
    BY DEF SoundBuffer
  <1>2. \A m \in new : \E n \in DOMAIN buf.rows :
           /\ m = buf.rows[n] /\ m \in Message /\ m.seq = n - 1 /\ m.seq \in Nat /\ m.seq <= last
           /\ m.kind = "user" => m.who \in sent
    BY <1>1 DEF SoundRows, AuthorsOf
  <1>3. \A m \in new : /\ item(m) \in [id : Nat \cup Prompt, index : Nat]
                       /\ item(m).id \in Prompt => item(m).id \in sent
                       /\ item(m).id = RowId(m)
                       /\ item(m).index <= last
    BY <1>0, <1>2, ConstantsAssumption DEF RowId
  <1>4. \A m, n \in new : RowId(m) = RowId(n) => m = n
    <2>. TAKE m, n \in new
    <2>. HAVE RowId(m) = RowId(n)
    <2>1. PICK i \in DOMAIN buf.rows :
             m = buf.rows[i] /\ m.seq = i - 1 /\ m.seq \in Nat /\ (m.kind = "user" => m.who \in sent)
      BY <1>2
    <2>2. PICK j \in DOMAIN buf.rows :
             n = buf.rows[j] /\ n.seq = j - 1 /\ n.seq \in Nat /\ (n.kind = "user" => n.who \in sent)
      BY <1>2
    <2>3. i \in Nat /\ j \in Nat
      BY <1>1
    <2>4. CASE m.kind = "user" /\ n.kind = "user"
      BY <1>1, <2>1, <2>2, <2>4 DEF RowId, SoundRows
    <2>5. CASE m.kind # "user" /\ n.kind # "user"
      BY <2>1, <2>2, <2>3, <2>5 DEF RowId
    <2>6. ASSUME m.kind = "user", n.kind # "user" PROVE FALSE
      <3>1. m.who = n.seq
        BY <2>6 DEF RowId
      <3>. QED
        BY <1>0, <2>1, <2>2, <2>6, <3>1, ConstantsAssumption
    <2>7. ASSUME n.kind = "user", m.kind # "user" PROVE FALSE
      <3>1. n.who = m.seq
        BY <2>7 DEF RowId
      <3>. QED
        BY <1>0, <2>1, <2>2, <2>7, <3>1, ConstantsAssumption
    <2>. QED
      BY <2>4, <2>5, <2>6, <2>7
  <1>5. \A x \in view, m \in new : x.id # RowId(m)
    BY DEF Ids
  <1>6. PICK top \in Nat : \A x \in view : x.index <= top
    BY DEF SoundView
  <1>7. PICK top2 \in Nat : top <= top2 /\ last <= top2
    <2>1. CASE top <= last
      BY <2>1
    <2>2. CASE last <= top
      BY <2>2
    <2>. QED
      BY <2>1, <2>2
  <1>. DEFINE all == view \cup {item(m) : m \in new}
  <1>. HIDE DEF item
  <1>8. all \subseteq [id : Nat \cup Prompt, index : Nat]
    BY <1>3 DEF SoundView
  <1>9. \A x \in all : x.id \in Prompt => x.id \in sent
    BY <1>3 DEF SoundView
  <1>10. \A x, y \in all : x.id = y.id => x = y
    BY <1>3, <1>4, <1>5 DEF SoundView
  <1>11. \A x \in all : x.index <= top2
    BY <1>3, <1>6, <1>7, <1>8
  <1>. QED
    BY <1>8, <1>9, <1>10, <1>11 DEF SoundView, item

-----------------------------------------------------------------------------
(* The invariant holds at the start and through every action. *)

\* The answer of GET /history has a number of rows before it has come.
LEMMA AnswerType ==
  ASSUME TypeOK
  PROVE  answer.rows \in Nat
  <1>1. CASE answer = NotAsked
    <2>1. NotAsked.rows = 0
      BY Zenon DEF NotAsked
    <2>. QED
      BY <1>1, <2>1
  <1>2. CASE answer = Taken
    <2>1. Taken.rows = 0
      BY Zenon DEF Taken
    <2>. QED
      BY <1>2, <2>1
  <1>3. CASE answer \in [rows : Nat, state : Terminal \cup {"idle", "running"}]
    BY <1>3
  <1>. QED
    BY <1>1, <1>2, <1>3 DEF TypeOK

\* The invariant holds at the start.
LEMMA InitIInv == Init => IInv
  <1>. SUFFICES ASSUME Init PROVE IInv
    OBVIOUS
  <1>. USE DEF Init
  <1>1. TypeOK
    <2>1. answer \in {NotAsked, Taken} \cup [rows : Nat, state : Terminal \cup {"idle", "running"}]
      OBVIOUS
    <2>2. buf \in [rows : Seq(Message), mem : Seq(Message), base : Nat]
      OBVIOUS
    <2>3. count \in [{"text", "stream", "drop", "reload", "restart"} -> Nat]
      OBVIOUS
    <2>4. view \subseteq [id : Nat \cup Prompt, index : Nat] /\ inbox \in Seq(Request) /\ wire \in Seq(Frame)
      OBVIOUS
    <2>5. /\ state \in Terminal \cup {"idle", "running"}
          /\ loop \in Watching \cup {"closed", "outer"}
          /\ threshold \in Nat /\ highUser \in Index
      BY DEF Terminal, Watching, Infinity, Index, NoSeq
    <2>. QED
      BY <2>1, <2>2, <2>3, <2>4, <2>5 DEF TypeOK
  <1>2. /\ SoundBuffer(buf, sent)
        /\ SoundInbox(inbox, buf.rows, sent)
        /\ SoundWire(wire, sent)
    BY DEF SoundBuffer, SoundRows, SoundInbox, SoundWire, AuthorsOf
  <1>3. SoundView(view, sent)
    <2>1. 0 \in Nat /\ \A x \in view : x.index <= 0
      OBVIOUS
    <2>. QED
      BY <2>1 DEF SoundView
  <1>4. answer.rows <= Len(buf.rows)
    <2>1. answer.rows = 0 /\ Len(buf.rows) = 0
      BY DEF NotAsked
    <2>. QED
      BY <2>1
  <1>. QED
    BY <1>1, <1>2, <1>3, <1>4 DEF IInv

\* What an agent adds leaves everything else as it was.
LEMMA WorksSound ==
  ASSUME IInv, NEW m \in Message, m.kind # "user", m.seq \in {NoSeq, Len(buf.rows)}, Works(m),
         state' \in Terminal \cup {"idle", "running"}, live' \in BOOLEAN,
         count' \in [{"text", "stream", "drop", "reload", "restart"} -> Nat]
  PROVE  IInv'
  <1>1. /\ SoundBuffer(buf, sent) /\ SoundInbox(inbox, buf.rows, sent)
        /\ buf' = Appended(buf, m)
    BY DEF IInv, Works
  <1>2. /\ SoundBuffer(buf', sent)
        /\ Len(buf.rows) <= Len(buf'.rows)
        /\ AuthorsOf(buf'.rows) \subseteq AuthorsOf(buf.rows)
    BY <1>1, AppendedSound
  <1>3. SoundInbox(inbox, buf'.rows, sent)
    BY <1>1, <1>2, InboxKept DEF SoundInbox
  <1>4. UNCHANGED <<sent, loop, turn, lastSeen, inbox, wire, status, ask, answer, lastSeq, view,
                    started, threshold, highUser, spins, pending, waits, known>>
    BY DEF Works, loops, page
  <1>5. TypeOK'
    BY <1>2, <1>4, SMTT(30) DEF IInv, TypeOK, SoundBuffer
  <1>6. answer.rows \in Nat /\ Len(buf.rows) \in Nat /\ Len(buf'.rows) \in Nat
    BY <1>1, <1>2, AnswerType DEF IInv, SoundBuffer
  <1>7. answer'.rows <= Len(buf'.rows)
    BY <1>2, <1>4, <1>6 DEF IInv
  <1>. QED
    BY <1>2, <1>3, <1>4, <1>5, <1>7 DEF IInv

\* A counter that is spent is a counter.
LEMMA SpendType ==
  ASSUME TypeOK, NEW what \in {"text", "stream", "drop", "reload", "restart"}, NEW bound,
         Spend(what, bound)
  PROVE  count' \in [{"text", "stream", "drop", "reload", "restart"} -> Nat]
  BY DEF TypeOK, Spend

\* Text, Stream, Complete and Finish.
LEMMA AgentStep == IInv /\ Agent => IInv'
  <1>. SUFFICES ASSUME IInv, Agent PROVE IInv'
    OBVIOUS
  <1>0. TypeOK /\ buf.rows \in Seq(Message)
    BY DEF IInv, SoundBuffer
  <1>1. \A k \in {"text", "completed", "result"} :
           /\ Numbered(buf, k, NoPrompt) \in Message
           /\ Numbered(buf, k, NoPrompt).kind # "user"
           /\ Numbered(buf, k, NoPrompt).seq = Len(buf.rows)
    BY <1>0 DEF Numbered, Message, Index, Stored, Visible
  <1>2. CASE Text
    <2>1. count' \in [{"text", "stream", "drop", "reload", "restart"} -> Nat]
      BY <1>0, <1>2, SpendType DEF Text
    <2>. QED
      BY <1>0, <1>1, <1>2, <2>1, WorksSound DEF Text, TypeOK
  <1>3. CASE Stream
    <2>1. count' \in [{"text", "stream", "drop", "reload", "restart"} -> Nat]
      BY <1>0, <1>3, SpendType DEF Stream
    <2>2. StreamEvent \in Message /\ StreamEvent.kind # "user" /\ StreamEvent.seq = NoSeq
      BY DEF StreamEvent, Message, Index
    <2>. QED
      BY <1>0, <1>3, <2>1, <2>2, WorksSound DEF Stream, TypeOK
  <1>4. CASE Complete
    BY <1>0, <1>1, <1>4, WorksSound DEF Complete, TypeOK, Terminal
  <1>5. CASE Finish
    BY <1>0, <1>1, <1>5, WorksSound DEF Finish, TypeOK
  <1>. QED
    BY <1>2, <1>3, <1>4, <1>5 DEF Agent

\* A request reaches the outer loop.
LEMMA ServeStep == IInv /\ Serve => IInv'
  <1>. SUFFICES ASSUME IInv, Serve PROVE IInv'
    OBVIOUS
  <1>. DEFINE r == Head(inbox)
              h == GetHistory(r.last)
              new == r.type = "chat" /\ ~live
  <1>1. TypeOK /\ SoundBuffer(buf, sent) /\ SoundInbox(inbox, buf.rows, sent) /\ inbox # <<>>
    BY DEF IInv, Serve
  <1>2. /\ r \in Request /\ r.last \in Nat
        /\ r.type = "chat" => r.who \in sent \ AuthorsOf(buf.rows)
    BY <1>1, HeadSound
  <1>3. h \in Seq(Message) /\ AuthorsOf(h) \subseteq sent
    BY <1>1, <1>2, HistorySound
  <1>. HIDE DEF h
  <1>4. SoundWire(Frames(h, r.last, TRUE), sent)
    BY <1>1, <1>2, <1>3, FramesSound
  <1>5. SoundWire(wire', sent)
    BY <1>4, SendsSound DEF IInv, Serve, h
  <1>6. /\ SoundBuffer(buf', sent)
        /\ Len(buf.rows) <= Len(buf'.rows)
        /\ \/ AuthorsOf(buf'.rows) \subseteq AuthorsOf(buf.rows)
           \/ r.type = "chat" /\ AuthorsOf(buf'.rows) \subseteq AuthorsOf(buf.rows) \cup {r.who}
    <2>1. CASE new
      <3>1. buf' = Announced(buf, r.who) /\ r.who \in Prompt
        BY <1>1, <1>2, <2>1 DEF Serve, TypeOK
      <3>. QED
        BY <1>1, <1>2, <2>1, <3>1, AnnouncedSound
    <2>2. CASE ~new
      <3>1. buf' = buf
        BY <2>2 DEF Serve
      <3>. QED
        BY <1>1, <3>1 DEF SoundBuffer
    <2>. QED
      BY <2>1, <2>2
  <1>7. SoundInbox(inbox', buf'.rows, sent)
    BY <1>1, <1>6, TakenSound DEF Serve
  <1>8. UNCHANGED <<sent, status, ask, answer, lastSeq, view, started, threshold, highUser,
                    spins, pending, waits, known, count>>
    BY DEF Serve, page
  <1>9. TypeOK'
    <2>1. lastSeen' \in Nat
      BY <1>2, <1>3 DEF Serve, h
    <2>2. /\ loop' \in Watching \cup {"closed", "outer"}
          /\ turn' \in {"pull", "check"}
          /\ state' \in Terminal \cup {"idle", "running"}
      BY <1>1, <1>2 DEF Serve, TypeOK, Watching, Request
    <2>3. live' \in BOOLEAN
      BY DEF Serve
    <2>. QED
      BY <1>1, <1>5, <1>6, <1>7, <1>8, <2>1, <2>2, <2>3 DEF TypeOK, SoundBuffer, SoundInbox, SoundWire
  <1>10. answer'.rows <= Len(buf'.rows)
    <2>1. answer.rows \in Nat /\ Len(buf.rows) \in Nat /\ Len(buf'.rows) \in Nat
      BY <1>1, <1>6, AnswerType DEF SoundBuffer
    <2>. QED
      BY <1>6, <1>8, <2>1 DEF IInv
  <1>. QED
    BY <1>5, <1>6, <1>7, <1>8, <1>9, <1>10 DEF IInv

\* What handle_ws does besides: the messages stay, and what it sends is sound.
LEMMA HandlerKeeps ==
  ASSUME IInv, UNCHANGED <<buf, live, sent, status, ask, answer, page, known, count>>,
         SoundInbox(inbox', buf.rows, sent), SoundWire(wire', sent),
         state' \in Terminal \cup {"idle", "running"},
         loop' \in Watching \cup {"closed", "outer"}, turn' \in {"pull", "check"},
         lastSeen' \in Nat
  PROVE  IInv'
  <1>1. UNCHANGED <<lastSeq, view, started, threshold, highUser, spins, pending, waits>>
    BY DEF page
  <1>2. inbox' \in Seq(Request) /\ wire' \in Seq(Frame)
    BY DEF SoundInbox, SoundWire
  <1>3. TypeOK'
    BY <1>1, <1>2 DEF IInv, TypeOK
  <1>. QED
    BY <1>1, <1>3 DEF IInv

\* A request that reaches a loop.
LEMMA ItemStep == IInv /\ Item => IInv'
  <1>. SUFFICES ASSUME IInv, Item PROVE IInv'
    OBVIOUS
  <1>. DEFINE r == Head(inbox)
              ignored == r.type \in {"recover", "resume"} /\ loop # "resume"
  <1>1. /\ TypeOK /\ SoundInbox(inbox, buf.rows, sent) /\ SoundWire(wire, sent) /\ inbox # <<>>
        /\ UNCHANGED <<buf, state, live, sent, turn, lastSeen, wire, status, ask, answer, page, known, count>>
    BY DEF IInv, Item, server
  <1>2. SoundInbox(inbox', buf.rows, sent)
    <2>1. CASE ignored
      <3>1. inbox' = Tail(inbox)
        BY <2>1 DEF Item
      <3>. QED
        BY <1>1, <3>1, TakenSound
    <2>2. CASE ~ignored
      <3>1. inbox' = Append(Tail(inbox), r)
        BY <2>2 DEF Item
      <3>. QED
        BY <1>1, <3>1, PutBackSound
    <2>. QED
      BY <2>1, <2>2
  <1>3. loop' \in Watching \cup {"closed", "outer"}
    BY <1>1 DEF Item, TypeOK
  <1>. QED
    BY <1>1, <1>2, <1>3, HandlerKeeps DEF TypeOK

\* What a loop pulls is sound, and it counts on.
LEMMA PulledSound ==
  ASSUME IInv
  PROVE  /\ SoundWire(Frames(GetHistory(lastSeen), lastSeen, FALSE), sent)
         /\ SoundWire(ResumeFrames(GetHistory(lastSeen), lastSeen), sent)
         /\ lastSeen + Len(GetHistory(lastSeen)) \in Nat
         /\ ResumeIndex(GetHistory(lastSeen), Len(GetHistory(lastSeen)), lastSeen) \in Nat
  <1>. DEFINE h == GetHistory(lastSeen)
  <1>1. TypeOK /\ SoundBuffer(buf, sent) /\ lastSeen \in Nat
    BY DEF IInv, TypeOK
  <1>2. h \in Seq(Message) /\ AuthorsOf(h) \subseteq sent
    BY <1>1, HistorySound
  <1>. HIDE DEF h
  <1>3. /\ SoundWire(Frames(h, lastSeen, FALSE), sent)
        /\ SoundWire(ResumeFrames(h, lastSeen), sent)
    BY <1>1, <1>2, FramesSound, ResumeFramesSound
  <1>4. Len(h) \in Nat /\ Len(h) \in 0..Len(h)
    BY <1>2
  <1>5. ResumeIndex(h, Len(h), lastSeen) \in Nat
    BY <1>1, <1>2, <1>4, ResumeIndexIsIndex, Zenon
  <1>6. lastSeen + Len(h) \in Nat
    BY <1>1, <1>4
  <1>. QED
    BY <1>3, <1>5, <1>6 DEF h

\* A final pull is sound.
LEMMA FinalPullSound ==
  ASSUME IInv, FinalPull
  PROVE  SoundWire(wire', sent) /\ lastSeen' \in Nat
  <1>1. /\ Sends(Frames(GetHistory(lastSeen), lastSeen, FALSE))
        /\ lastSeen' = lastSeen + Len(GetHistory(lastSeen))
    BY DEF FinalPull
  <1>. QED
    BY <1>1, PulledSound, SendsSound DEF IInv

\* "Pull new messages".
LEMMA PullStep == IInv /\ Pull => IInv'
  <1>. SUFFICES ASSUME IInv, Pull PROVE IInv'
    OBVIOUS
  <1>1. /\ TypeOK /\ SoundInbox(inbox, buf.rows, sent) /\ SoundWire(wire, sent)
        /\ UNCHANGED <<buf, state, live, sent, loop, inbox, status, ask, answer, page, known, count>>
        /\ turn' = "check"
    BY DEF IInv, Pull, server
  <1>2. SoundWire(wire', sent) /\ lastSeen' \in Nat
    <2>1. CASE loop = "resume"
      <3>1. /\ Sends(ResumeFrames(GetHistory(lastSeen), lastSeen))
            /\ lastSeen' = ResumeIndex(GetHistory(lastSeen), Len(GetHistory(lastSeen)), lastSeen)
        BY <2>1 DEF Pull
      <3>. QED
        BY <1>1, <3>1, PulledSound, SendsSound
    <2>2. CASE loop # "resume"
      <3>1. /\ Sends(Frames(GetHistory(lastSeen), lastSeen, FALSE))
            /\ lastSeen' = lastSeen + Len(GetHistory(lastSeen))
        BY <2>2 DEF Pull
      <3>. QED
        BY <1>1, <3>1, PulledSound, SendsSound
    <2>. QED
      BY <2>1, <2>2
  <1>. QED
    BY <1>1, <1>2, HandlerKeeps DEF TypeOK

\* A loop looks whether it is done.
LEMMA CheckStep ==
  ASSUME IInv, CheckRecover \/ Leave \/ Stay
  PROVE  IInv'
  <1>1. /\ TypeOK /\ SoundInbox(inbox, buf.rows, sent) /\ SoundWire(wire, sent)
        /\ UNCHANGED <<buf, live, sent, inbox, status, ask, answer, page, known, count>>
        /\ turn' = "pull"
    BY DEF IInv, CheckRecover, Leave, Stay, Check
  <1>2. \A k \in {"error", "heartbeat", "dead"} : Sends(Signal(k, lastSeen)) => SoundWire(wire', sent)
    <2>. TAKE k \in {"error", "heartbeat", "dead"}
    <2>1. k \in Kinds \ {"user"} /\ lastSeen \in Nat
      BY <1>1 DEF Kinds, TypeOK
    <2>2. SoundWire(Signal(k, lastSeen), sent)
      BY <2>1, SignalSound
    <2>. QED
      BY <1>1, <2>2, SendsSound
  <1>3. UNCHANGED wire => SoundWire(wire', sent)
    BY <1>1
  <1>4. CASE CheckRecover
    <2>1. SoundWire(wire', sent) /\ lastSeen' \in Nat
      BY <1>1, <1>2, <1>3, <1>4, FinalPullSound DEF CheckRecover, TypeOK
    <2>2. state' \in Terminal \cup {"idle", "running"} /\ loop' = loop
      BY <1>1, <1>4 DEF CheckRecover, TypeOK, Terminal
    <2>. QED
      BY <1>1, <2>1, <2>2, HandlerKeeps DEF TypeOK
  <1>5. CASE Leave
    <2>1. SoundWire(wire', sent) /\ lastSeen' \in Nat
      BY <1>1, <1>3, <1>5, FinalPullSound DEF Leave, TypeOK
    <2>2. state' = state /\ loop' = "outer"
      BY <1>5 DEF Leave
    <2>. QED
      BY <1>1, <2>1, <2>2, HandlerKeeps DEF TypeOK
  <1>6. CASE Stay
    <2>1. SoundWire(wire', sent)
      BY <1>1, <1>2, <1>3, <1>6 DEF Stay
    <2>2. state' = state /\ loop' = loop /\ lastSeen' = lastSeen
      BY <1>6 DEF Stay
    <2>. QED
      BY <1>1, <2>1, <2>2, HandlerKeeps DEF TypeOK
  <1>. QED
    BY <1>4, <1>5, <1>6

-----------------------------------------------------------------------------
(* The page. *)

\* A recover or a resume may be asked for at any time.
LEMMA AskKeeps ==
  ASSUME IInv, NEW type \in {"recover", "resume"}, NEW last \in Nat, Ask(type, last, NoPrompt)
  PROVE  SoundInbox(inbox', buf.rows, sent)
  <1>. DEFINE e == [type |-> type, last |-> last, who |-> NoPrompt]
  <1>1. e \in Request /\ e.type # "chat"
    BY DEF Request
  <1>2. SoundInbox(inbox, buf.rows, sent) /\ inbox' = Append(inbox, e)
    BY DEF IInv, Ask
  <1>. HIDE DEF e
  <1>. QED
    BY <1>1, <1>2, AskedSound

\* What the page does with no chat message: the buffer and what was sent stay.
LEMMA BrowserKeeps ==
  ASSUME IInv, UNCHANGED <<server, sent, turn, lastSeen, count>>,
         loop' \in Watching \cup {"closed", "outer"},
         SoundInbox(inbox', buf.rows, sent), SoundWire(wire', sent), SoundView(view', sent),
         status' \in {"closed", "connected", "recovered"}, lastSeq' \in Nat,
         ask' \in {"no", "zero", "known"},
         answer' \in {NotAsked, Taken} \cup [rows : Nat, state : Terminal \cup {"idle", "running"}],
         answer'.rows <= Len(buf.rows),
         started' \in BOOLEAN, threshold' \in Nat, highUser' \in Index, spins' \in BOOLEAN,
         pending' \in Prompt \cup {NoPrompt}, waits' \in BOOLEAN, known' \in Nat
  PROVE  IInv'
  <1>1. UNCHANGED <<buf, state, live>>
    BY DEF server
  <1>2. /\ inbox' \in Seq(Request) /\ wire' \in Seq(Frame)
        /\ view' \subseteq [id : Nat \cup Prompt, index : Nat]
    BY DEF SoundInbox, SoundWire, SoundView
  <1>3. TypeOK'
    BY <1>1, <1>2 DEF IInv, TypeOK
  <1>. QED
    BY <1>1, <1>3 DEF IInv

\* The frame at the head is one of them, and the others stay sound.
LEMMA HeadOfWire ==
  ASSUME NEW S, SoundWire(wire, S), wire # <<>>
  PROVE  /\ Head(wire) \in Frame
         /\ Head(wire).kind = "user" => Head(wire).who \in S
         /\ SoundWire(Tail(wire), S)
  <1>1. wire \in Seq(Frame) /\ 1 \in DOMAIN wire /\ Head(wire) = wire[1] /\ wire[1] \in Frame
    BY DEF SoundWire
  <1>2. wire[1].kind = "user" => wire[1].who \in S
    BY <1>1 DEF SoundWire, AuthorsOf
  <1>3. /\ Tail(wire) \in Seq(Frame)
        /\ \A i \in DOMAIN Tail(wire) : i + 1 \in DOMAIN wire /\ Tail(wire)[i] = wire[i + 1]
    BY <1>1
  <1>4. AuthorsOf(Tail(wire)) \subseteq AuthorsOf(wire)
    BY <1>3, AuthorsOfPart
  <1>. QED
    BY <1>1, <1>2, <1>3, <1>4 DEF SoundWire

\* ws.onmessage and handleIncomingMessage.
LEMMA ReceiveStep == IInv /\ Receive => IInv'
  <1>. SUFFICES ASSUME IInv, Receive PROVE IInv'
    OBVIOUS
  <1>. DEFINE f == Head(wire)
  <1>1. /\ TypeOK /\ SoundInbox(inbox, buf.rows, sent) /\ SoundWire(wire, sent) /\ wire # <<>>
        /\ SoundView(view, sent)
        /\ UNCHANGED <<server, sent, loop, turn, lastSeen, status, ask, answer, threshold, count>>
    BY DEF IInv, Receive, loops
  <1>2. /\ f \in Frame /\ (f.kind = "user" => f.who \in sent)
        /\ SoundWire(wire', sent)
    BY <1>1, HeadOfWire DEF Receive
  <1>3. f.index \in Nat /\ f.index \in Index /\ lastSeq \in Index /\ highUser \in Index
    BY <1>1, <1>2 DEF Frame, Index, TypeOK
  <1>4. lastSeq' \in Nat
    <2>1. lastSeq' = SeqAfter(f)
      BY DEF Receive
    <2>. QED
      BY <1>1, <1>3, <2>1, LargerOfTwo DEF SeqAfter, TypeOK
  <1>5. SoundView(view', sent)
    <2>1. SoundView(Merged(f), sent)
      BY <1>1, <1>2, MergedSound
    <2>2. view' = Merged(f) \/ view' = view
      BY DEF Receive
    <2>. QED
      BY <1>1, <2>1, <2>2
  <1>6. highUser' \in Index
    <2>1. highUser' = Largest({highUser, f.index}) \/ highUser' = highUser
      BY DEF Receive
    <2>. QED
      BY <1>3, <2>1, LargerOfTwo
  <1>7. SoundInbox(inbox', buf.rows, sent)
    <2>1. Ask("recover", 0, NoPrompt) \/ inbox' = inbox
      BY DEF Receive
    <2>. QED
      BY <1>1, <2>1, AskKeeps
  <1>8. spins' \in BOOLEAN
    <2>1. spins' = ShowsRunning(f) /\ spins \in BOOLEAN
      BY <1>1 DEF Receive, TypeOK
    <2>. HIDE DEF f
    <2>. QED
      BY <2>1, Zenon DEF ShowsRunning
  <1>9. started' \in BOOLEAN /\ waits' \in BOOLEAN
    BY Zenon DEF Receive
  <1>10. pending' \in Prompt \cup {NoPrompt} /\ known' \in Nat
    BY <1>1, <1>3 DEF Receive, TypeOK
  <1>11. answer'.rows <= Len(buf.rows)
    BY <1>1 DEF IInv
  <1>. HIDE DEF f
  <1>. QED
    BY <1>1, <1>2, <1>4, <1>5, <1>6, <1>7, <1>8, <1>9, <1>10, <1>11, BrowserKeeps DEF TypeOK

\* The answer of GET /history comes: what is new is shown.
LEMMA LoadStep == IInv /\ Load => IInv'
  <1>. SUFFICES ASSUME IInv, Load PROVE IInv'
    OBVIOUS
  <1>. DEFINE rows == {buf.rows[n] : n \in 1..answer.rows}
              new  == {m \in rows : m.seq \notin Indices /\ RowId(m) \notin Ids}
  <1>1. /\ TypeOK /\ SoundBuffer(buf, sent) /\ SoundInbox(inbox, buf.rows, sent)
        /\ SoundWire(wire, sent) /\ SoundView(view, sent)
        /\ answer.rows \in Nat /\ answer.rows <= Len(buf.rows)
        /\ UNCHANGED <<server, sent, loop, turn, lastSeen, wire, status, lastSeq, started,
                       threshold, highUser, pending, known, count>>
        /\ answer' = Taken
    BY AnswerType DEF IInv, Load, loops
  <1>2. SoundView(view', sent)
    <2>1. view' = view \cup {[id |-> RowId(m), index |-> m.seq] : m \in new}
      BY DEF Load
    <2>2. new \subseteq rows /\ \A m \in new : RowId(m) \notin Ids
      OBVIOUS
    <2>. HIDE DEF new
    <2>. QED
      BY <1>1, <2>1, <2>2, LoadedSound
  <1>3. /\ SoundInbox(inbox', buf.rows, sent)
        /\ ask' \in {"no", "zero", "known"} /\ waits' \in BOOLEAN
    <2>1. \/ UNCHANGED <<inbox, ask, waits>>
          \/ Ask("recover", answer.rows, NoPrompt) /\ ask' = "no" /\ waits' = TRUE
      BY DEF Load
    <2>. QED
      BY <1>1, <2>1, AskKeeps DEF TypeOK
  <1>4. spins' \in BOOLEAN
    <2>1. spins' = Resolved(answer.state) /\ spins \in BOOLEAN
      BY <1>1 DEF Load, TypeOK
    <2>. QED
      BY <2>1, Zenon DEF Resolved
  <1>5. /\ answer' \in {NotAsked, Taken} \cup [rows : Nat, state : Terminal \cup {"idle", "running"}]
        /\ answer'.rows <= Len(buf.rows)
    <2>1. Taken.rows = 0
      BY Zenon DEF Taken
    <2>2. Len(buf.rows) \in Nat
      BY <1>1 DEF SoundBuffer
    <2>. QED
      BY <1>1, <2>1, <2>2
  <1>. QED
    BY <1>1, <1>2, <1>3, <1>4, <1>5, BrowserKeeps DEF TypeOK

\* The rows are counted when the answer of GET /history is made.
LEMMA FetchStep == IInv /\ Fetch => IInv'
  <1>. SUFFICES ASSUME IInv, Fetch PROVE IInv'
    OBVIOUS
  <1>1. /\ TypeOK /\ SoundBuffer(buf, sent) /\ SoundInbox(inbox, buf.rows, sent)
        /\ SoundWire(wire, sent) /\ SoundView(view, sent)
        /\ UNCHANGED <<server, sent, loop, turn, lastSeen, inbox, wire, status, lastSeq, ask, view,
                       started, threshold, highUser, spins, pending, waits, known, count>>
    BY DEF IInv, Fetch, loops, page
  <1>2. Len(buf.rows) \in Nat
    BY <1>1 DEF SoundBuffer
  <1>3. answer' = [rows |-> Len(buf.rows), state |-> state] /\ state \in Terminal \cup {"idle", "running"}
    BY <1>1 DEF Fetch, TypeOK
  <1>4. answer' \in [rows : Nat, state : Terminal \cup {"idle", "running"}] /\ answer'.rows = Len(buf.rows)
    BY <1>2, <1>3
  <1>. QED
    BY <1>1, <1>2, <1>4, BrowserKeeps DEF TypeOK

\* The other actions of the page but Send: nothing new is shown.
LEMMA AsksStep ==
  ASSUME IInv, SendFailed \/ Open \/ Recover \/ Stale \/ RecoverTimeout \/ StoreElsewhere
  PROVE  IInv'
  <1>1. /\ TypeOK /\ SoundBuffer(buf, sent) /\ SoundInbox(inbox, buf.rows, sent)
        /\ SoundWire(wire, sent) /\ SoundView(view, sent) /\ answer.rows <= Len(buf.rows)
    BY DEF IInv
  <1>2. /\ UNCHANGED <<server, sent, turn, lastSeen, wire, lastSeq, answer, view, started,
                       threshold, highUser, count>>
        /\ spins' \in BOOLEAN /\ waits' \in BOOLEAN
        /\ pending' \in Prompt \cup {NoPrompt}
    BY <1>1 DEF SendFailed, Open, Recover, Stale, RecoverTimeout, StoreElsewhere, loops, page, TypeOK
  <1>3. known' \in Nat
    <2>1. CASE StoreElsewhere
      <3>1. PICK m \in VisibleRows : known' = m.seq
        BY <2>1 DEF StoreElsewhere
      <3>2. PICK i \in DOMAIN buf.rows : m = buf.rows[i] /\ m.seq = i - 1
        BY <1>1, <3>1 DEF VisibleRows, SoundBuffer, SoundRows
      <3>3. i \in Nat \ {0}
        BY <1>1, <3>2 DEF SoundBuffer
      <3>. QED
        BY <3>1, <3>2, <3>3
    <2>2. CASE SendFailed \/ Open \/ Recover \/ Stale \/ RecoverTimeout
      BY <1>1, <2>2 DEF SendFailed, Open, Recover, Stale, RecoverTimeout, page, TypeOK
    <2>. QED
      BY <2>1, <2>2
  <1>4. /\ loop' \in Watching \cup {"closed", "outer"}
        /\ status' \in {"closed", "connected", "recovered"}
        /\ ask' \in {"no", "zero", "known"}
    BY <1>1 DEF SendFailed, Open, Recover, Stale, RecoverTimeout, StoreElsewhere, loops, TypeOK
  <1>5. \/ UNCHANGED inbox
        \/ Ask("resume", lastSeq, NoPrompt)
        \/ Ask("recover", 0, NoPrompt)
        \/ Ask("recover", known, NoPrompt)
        \/ Ask("recover", RecoverIndex, NoPrompt)
    BY DEF SendFailed, Open, Recover, Stale, RecoverTimeout, StoreElsewhere
  <1>6. lastSeq \in Nat /\ known \in Nat /\ RecoverIndex \in Nat
    BY <1>1, MaxIndexIsIndex DEF TypeOK, RecoverIndex
  <1>7. SoundInbox(inbox', buf.rows, sent)
    BY <1>1, <1>5, <1>6, AskKeeps
  <1>. QED
    BY <1>1, <1>2, <1>3, <1>4, <1>7, BrowserKeeps DEF TypeOK

\* handleSend: a message that was not sent before is shown, and is asked for.
LEMMA SendStep ==
  ASSUME IInv, NEW p \in Prompt, Send(p)
  PROVE  IInv'
  <1>. DEFINE new == [id |-> p, index |-> MaxIndex + 1]
              e == [type |-> "chat", last |-> MaxIndex + 1, who |-> p]
  <1>1. /\ TypeOK /\ SoundBuffer(buf, sent) /\ SoundInbox(inbox, buf.rows, sent)
        /\ SoundWire(wire, sent) /\ SoundView(view, sent)
    BY DEF IInv
  <1>2. /\ p \notin sent /\ sent' = sent \cup {p}
        /\ view' = view \cup {new} /\ threshold' = MaxIndex /\ inbox' = Append(inbox, e)
        /\ UNCHANGED <<buf, state, live, loop, turn, lastSeen, wire, status, lastSeq, ask, answer,
                       highUser, waits, known, count>>
        /\ started' = FALSE /\ spins' = TRUE /\ pending' = p
    BY DEF Send, Ask, server, loops
  <1>3. MaxIndex \in Nat /\ \A v \in view : v.index <= MaxIndex
    BY <1>1, MaxIndexIsIndex
  <1>4. SoundBuffer(buf', sent')
    BY <1>1, <1>2 DEF SoundBuffer
  <1>5. SoundWire(wire', sent')
    BY <1>1, <1>2 DEF SoundWire
  <1>6. SoundInbox(inbox', buf'.rows, sent')
    <2>1. SoundInbox(inbox, buf.rows, sent')
      BY <1>1, <1>2, InboxKept DEF SoundInbox
    <2>2. e \in Request /\ e.type = "chat" /\ e.who = p
      BY <1>3 DEF Request
    <2>3. p \in sent' \ AuthorsOf(buf.rows)
      BY <1>1, <1>2 DEF SoundBuffer
    <2>4. \A i \in DOMAIN inbox : inbox[i].type = "chat" => inbox[i].who # p
      BY <1>1, <1>2 DEF SoundInbox
    <2>. HIDE DEF e
    <2>5. SoundInbox(Append(inbox, e), buf.rows, sent')
      BY <2>1, <2>2, <2>3, <2>4, AskedSound
    <2>. QED
      BY <1>2, <2>5
  <1>7. SoundView(view', sent')
    <2>1. new \in [id : Nat \cup Prompt, index : Nat] /\ new.id = p /\ new.index = MaxIndex + 1
      BY <1>3
    <2>2. \A v \in view : v.id # p
      BY <1>1, <1>2 DEF SoundView
    <2>3. MaxIndex + 1 \in Nat /\ \A v \in view : v.index <= MaxIndex + 1
      BY <1>1, <1>3 DEF SoundView
    <2>. HIDE DEF new
    <2>4. \A x \in view' : x.index <= MaxIndex + 1
      BY <1>2, <2>1, <2>3
    <2>. QED
      BY <1>1, <1>2, <2>1, <2>2, <2>3, <2>4 DEF SoundView
  <1>8. TypeOK'
    <2>1. sent' \subseteq Prompt /\ pending' \in Prompt \cup {NoPrompt} /\ threshold' \in Nat
      BY <1>1, <1>2, <1>3 DEF TypeOK
    <2>2. inbox' \in Seq(Request) /\ view' \subseteq [id : Nat \cup Prompt, index : Nat]
      BY <1>6, <1>7 DEF SoundInbox, SoundView
    <2>3. started' \in BOOLEAN /\ spins' \in BOOLEAN
      BY <1>2
    <2>. HIDE DEF new, e
    <2>. QED
      BY <1>1, <1>2, <2>1, <2>2, <2>3 DEF TypeOK
  <1>. HIDE DEF new, e
  <1>. QED
    BY <1>2, <1>4, <1>5, <1>6, <1>7, <1>8 DEF IInv

\* Another page sends one.
LEMMA SendElsewhereStep ==
  ASSUME IInv, NEW p \in Prompt, SendElsewhere(p)
  PROVE  IInv'
  <1>1. /\ TypeOK /\ SoundBuffer(buf, sent) /\ SoundInbox(inbox, buf.rows, sent)
        /\ SoundWire(wire, sent) /\ SoundView(view, sent)
    BY DEF IInv
  <1>2. /\ p \notin sent /\ sent' = sent \cup {p} /\ buf' = Announced(buf, p)
        /\ state' = "running" /\ live' = TRUE
        /\ UNCHANGED <<loop, turn, lastSeen, inbox, wire, status, ask, answer, lastSeq, view, started,
                       threshold, highUser, spins, pending, waits, known, count>>
    BY DEF SendElsewhere, loops, page
  <1>3. SoundBuffer(buf, sent') /\ p \in sent' \ AuthorsOf(buf.rows)
    BY <1>1, <1>2 DEF SoundBuffer
  <1>4. /\ SoundBuffer(buf', sent')
        /\ Len(buf.rows) <= Len(buf'.rows)
        /\ AuthorsOf(buf'.rows) \subseteq AuthorsOf(buf.rows) \cup {p}
    BY <1>2, <1>3, AnnouncedSound
  <1>5. SoundInbox(inbox', buf'.rows, sent')
    <2>1. \A i \in DOMAIN inbox : inbox[i].type = "chat" => inbox[i].who \notin AuthorsOf(buf'.rows)
      BY <1>1, <1>2, <1>4 DEF SoundInbox
    <2>. QED
      BY <1>1, <1>2, <2>1, InboxKept
  <1>6. SoundWire(wire', sent') /\ SoundView(view', sent')
    BY <1>1, <1>2 DEF SoundWire, SoundView
  <1>7. TypeOK'
    BY <1>1, <1>2, <1>4 DEF TypeOK, SoundBuffer
  <1>8. answer'.rows <= Len(buf'.rows)
    <2>1. answer.rows \in Nat /\ Len(buf.rows) \in Nat /\ Len(buf'.rows) \in Nat
      BY <1>1, <1>4, AnswerType DEF SoundBuffer
    <2>. QED
      BY <1>2, <1>4, <2>1 DEF IInv
  <1>. QED
    BY <1>4, <1>5, <1>6, <1>7, <1>8 DEF IInv

-----------------------------------------------------------------------------
(* What goes wrong. *)

\* A connection that is gone takes with it what was on its way.
LEMMA CutSound ==
  ASSUME IInv, Cut
  PROVE  /\ SoundInbox(inbox', buf.rows, sent') /\ SoundWire(wire', sent')
         /\ loop' \in Watching \cup {"closed", "outer"}
         /\ status' \in {"closed", "connected", "recovered"}
         /\ ask' \in {"no", "zero", "known"}
         /\ UNCHANGED <<sent, turn, lastSeen, known>>
  BY DEF Cut, SoundInbox, SoundWire, AuthorsOf

\* A connection breaks.
LEMMA DropStep == IInv /\ Drop => IInv'
  <1>. SUFFICES ASSUME IInv, Drop PROVE IInv'
    OBVIOUS
  <1>1. /\ TypeOK /\ SoundView(view, sent) /\ answer.rows <= Len(buf.rows)
        /\ Cut /\ Spend("drop", MaxDrops)
        /\ UNCHANGED <<buf, state, live, answer, lastSeq, view, started, threshold, highUser, spins,
                       pending, waits>>
    BY DEF IInv, Drop, server, page
  <1>2. count' \in [{"text", "stream", "drop", "reload", "restart"} -> Nat]
    BY <1>1, SpendType
  <1>3. TypeOK'
    BY <1>1, <1>2, CutSound, SMTT(30) DEF TypeOK, SoundInbox, SoundWire
  <1>. QED
    BY <1>1, <1>3, CutSound, SMTT(30) DEF IInv

\* A page that is loaded anew shows nothing.
LEMMA ReloadStep == IInv /\ Reload => IInv'
  <1>. SUFFICES ASSUME IInv, Reload PROVE IInv'
    OBVIOUS
  <1>1. /\ TypeOK /\ SoundBuffer(buf, sent) /\ Cut /\ Spend("reload", MaxReloads)
        /\ answer' = NotAsked /\ lastSeq' = 0 /\ view' = {} /\ started' = FALSE
        /\ threshold' = Infinity /\ highUser' = NoSeq /\ spins' = FALSE /\ waits' = FALSE
        /\ UNCHANGED <<buf, state, live, pending>>
    BY DEF IInv, Reload, server
  <1>2. count' \in [{"text", "stream", "drop", "reload", "restart"} -> Nat]
    BY <1>1, SpendType
  <1>3. SoundView(view', sent')
    <2>1. 0 \in Nat /\ \A x \in view' : x.index <= 0
      BY <1>1
    <2>. QED
      BY <1>1, <2>1 DEF SoundView
  <1>4. threshold' \in Nat /\ highUser' \in Index
    BY <1>1 DEF Infinity, NoSeq, Index
  <1>5. TypeOK'
    <2>1. /\ inbox' \in Seq(Request) /\ wire' \in Seq(Frame)
          /\ view' \subseteq [id : Nat \cup Prompt, index : Nat]
      BY <1>1, <1>3, CutSound DEF SoundInbox, SoundWire, SoundView
    <2>2. answer' \in {NotAsked, Taken} \cup [rows : Nat, state : Terminal \cup {"idle", "running"}]
      BY <1>1
    <2>3. started' \in BOOLEAN /\ spins' \in BOOLEAN /\ waits' \in BOOLEAN /\ lastSeq' \in Nat
      BY <1>1
    <2>. QED
      BY <1>1, <1>2, <1>4, <2>1, <2>2, <2>3, CutSound DEF TypeOK
  <1>6. answer'.rows <= Len(buf'.rows)
    <2>1. NotAsked.rows = 0
      BY Zenon DEF NotAsked
    <2>2. Len(buf.rows) \in Nat
      BY <1>1 DEF SoundBuffer
    <2>. QED
      BY <1>1, <2>1, <2>2
  <1>. QED
    BY <1>1, <1>3, <1>5, <1>6, CutSound DEF IInv

\* Memory is gone, and what is stored is not.
LEMMA RestartStep == IInv /\ Restart => IInv'
  <1>. SUFFICES ASSUME IInv, Restart PROVE IInv'
    OBVIOUS
  <1>1. /\ TypeOK /\ SoundBuffer(buf, sent) /\ SoundView(view, sent) /\ answer.rows <= Len(buf.rows)
        /\ Cut /\ Spend("restart", MaxRestarts)
        /\ buf' = [buf EXCEPT !.mem = <<>>, !.base = 0] /\ live' = FALSE
        /\ UNCHANGED <<answer, lastSeq, view, started, threshold, highUser, spins, pending, waits>>
    BY DEF IInv, Restart, page
  <1>2. count' \in [{"text", "stream", "drop", "reload", "restart"} -> Nat]
    BY <1>1, SpendType
  <1>3. /\ buf' \in [rows : Seq(Message), mem : Seq(Message), base : Nat]
        /\ buf'.rows = buf.rows /\ buf'.mem = <<>>
    <2>1. buf \in [rows : Seq(Message), mem : Seq(Message), base : Nat]
      BY <1>1 DEF SoundBuffer
    <2>2. <<>> \in Seq(Message)
      OBVIOUS
    <2>3. buf' = [rows |-> buf.rows, mem |-> <<>>, base |-> 0]
      BY <1>1, <2>1
    <2>. QED
      BY <2>1, <2>2, <2>3
  <1>4. SoundBuffer(buf', sent)
    BY <1>1, <1>3 DEF SoundBuffer, AuthorsOf
  <1>5. state' \in Terminal \cup {"idle", "running"}
    BY Zenon DEF Restart, Terminal
  <1>6. TypeOK'
    <2>1. inbox' \in Seq(Request) /\ wire' \in Seq(Frame)
      BY <1>1, CutSound DEF SoundInbox, SoundWire
    <2>. QED
      BY <1>1, <1>2, <1>3, <1>5, <2>1, CutSound DEF TypeOK
  <1>. QED
    BY <1>1, <1>3, <1>4, <1>6, CutSound DEF IInv

-----------------------------------------------------------------------------
(* The theorems. *)

\* Every step keeps the invariant, and so does none.
LEMMA StepIInv == IInv /\ [Next]_vars => IInv'
  <1>. SUFFICES ASSUME IInv, [Next]_vars PROVE IInv'
    OBVIOUS
  <1>1. CASE Agent
    BY <1>1, AgentStep
  <1>2. CASE Handler
    BY <1>2, ServeStep, ItemStep, PullStep, CheckStep DEF Handler
  <1>3. CASE Browser
    BY <1>3, ReceiveStep, LoadStep, FetchStep, AsksStep DEF Browser
  <1>4. CASE \E p \in Prompt : Send(p) \/ SendElsewhere(p)
    BY <1>4, SendStep, SendElsewhereStep
  <1>5. CASE StoreElsewhere
    BY <1>5, AsksStep
  <1>6. CASE Drop \/ Reload \/ Restart
    BY <1>6, DropStep, ReloadStep, RestartStep
  <1>7. CASE UNCHANGED vars
    <2>1. UNCHANGED <<buf, state, live, sent, loop, turn, lastSeen, inbox, wire, status, lastSeq, ask,
                      answer, view, started, threshold, highUser, spins, pending, waits, known, count>>
      BY <1>7 DEF vars
    <2>2. TypeOK'
      BY <2>1 DEF IInv, TypeOK
    <2>. QED
      BY <2>1, <2>2 DEF IInv
  <1>. QED
    BY <1>1, <1>2, <1>3, <1>4, <1>5, <1>6, <1>7 DEF Next

\* Every behaviour of the page, its loops and the agent keeps to the types.
THEOREM TypeCorrect == Spec => []TypeOK
  <1>1. IInv => TypeOK
    BY DEF IInv
  <1>. QED
    BY InitIInv, StepIInv, <1>1, PTL DEF Spec

\* No message is shown twice: what comes by GET /history, by a replay, live,
\* and as the echo of what the page has shown before is one message.
THEOREM ShownOnceAlways == Spec => []ShownOnce
  <1>1. IInv => ShownOnce
    BY DEF IInv, SoundView, ShownOnce
  <1>. QED
    BY InitIInv, StepIInv, <1>1, PTL DEF Spec

-----------------------------------------------------------------------------
(* What a page is sent.  A loop, a page and a frame name a point of the     *)
(* session by a number that is a seq or a position.  A position is never    *)
(* behind the seq of the message that has it, so a number taken for the     *)
(* one or the other never leaves out what comes after it, while no stream   *)
(* event is evicted.                                                        *)

\* The messages of a session and its stream events never fill the memory
Roomy == IsFiniteSet(Prompt) /\ 4 * Cardinality(Prompt) + MaxTexts + MaxStreams <= MaxHistory

\* One page, patient, with a server that stays up; and there are no stream events,
\* or nothing is evicted
Calm ==
    /\ Others = {} /\ OneBrowser = FALSE /\ Hasty = FALSE /\ LoseChats = FALSE
    /\ MaxRestarts = 0
    /\ MaxStreams = 0 \/ Roomy

\* The position after the last message
End(b) == b.base + Len(b.mem)

RowsToShow(b) == {b.rows[i] : i \in {j \in DOMAIN b.rows : b.rows[j].kind \in Visible}}

\* The list in memory ends as the table does, with the stream events in between
Ordered(b) ==
    /\ Len(b.mem) <= MaxHistory
    /\ b.base <= Len(b.rows)
    /\ b.mem = <<>> => b.base = Len(b.rows)
    /\ \A i \in DOMAIN b.mem : b.mem[i].seq = NoSeq => b.mem[i].kind = "stream"
    /\ \A i \in DOMAIN b.mem : b.mem[i].seq # NoSeq =>
          /\ b.base <= b.mem[i].seq /\ b.mem[i].seq < b.base + i
          /\ b.mem[i].seq < Len(b.rows)
          /\ b.rows[b.mem[i].seq + 1] = b.mem[i]
    /\ \A i, j \in DOMAIN b.mem :
          (i < j /\ b.mem[i].seq # NoSeq /\ b.mem[j].seq # NoSeq) => b.mem[i].seq < b.mem[j].seq
    /\ \A n \in DOMAIN b.rows : n > b.base => \E i \in DOMAIN b.mem : b.mem[i] = b.rows[n]

\* What an agent at work has yet to store
Stages == IF ~live THEN 0 ELSE IF Done THEN 1 ELSE 2

\* A chat message has four messages, with running, completed and the result
Counted ==
    /\ count["text"] <= MaxTexts /\ count["stream"] <= MaxStreams
    /\ Len(buf.mem) + Stages <= 4 * Cardinality(AuthorsOf(buf.rows)) + count["text"] + count["stream"]

NoStreams(b) == \A i \in DOMAIN b.mem : b.mem[i].seq # NoSeq
Room(b, n)   == b.base = 0 /\ Len(b.mem) + n <= MaxHistory

\* No stream event is evicted
Lasting ==
    \/ MaxStreams = 0 /\ NoStreams(buf)
    \/ Roomy /\ buf.base = 0 /\ Counted

\* How the table ends says how far the agent is
Turns ==
    LET n == Len(buf.rows)
    IN  IF ~live
        THEN \/ n = 0 /\ state = "idle"
             \/ /\ n > 2 /\ Done
                /\ buf.rows[n].kind = "result" /\ buf.rows[n - 1].kind = "completed"
        ELSE n > 1 /\ IF Done THEN buf.rows[n].kind = "completed" ELSE state = "running"

\* get_history from n on has the row
Left(b, n, m) ==
    IF n < b.base THEN m.seq >= n
    ELSE \E i \in DOMAIN b.mem : b.base + i > n /\ b.mem[i] = m

\* A row is shown, under its seq or a larger index
Right(v, m) == \E x \in v : x.id = RowId(m) /\ x.index >= m.seq

\* A row is one of the first k frames on the wire
Ahead(w, k, m) == \E i \in 1 .. k : w[i].kind \in Visible /\ w[i].index = m.seq

Given(v, w, m) == Right(v, m) \/ Ahead(w, Len(w), m)

\* What is before n is shown, or given
Filled(b, v, n) == \A m \in RowsToShow(b) : Left(b, n, m) \/ Right(v, m)
Fed(b, v, w, n) == \A m \in RowsToShow(b) : Left(b, n, m) \/ Given(v, w, m)

\* A frame with a row has the number of the row; any other names a point that is
\* not behind what comes after it
FrameOf(b, f) ==
    /\ f.index <= End(b)
    /\ f.kind \in Visible =>
          /\ f.index < Len(b.rows)
          /\ b.rows[f.index + 1].kind = f.kind /\ b.rows[f.index + 1].who = f.who

Later(b, f, m) == IF f.kind \in Visible THEN m.seq >= f.index ELSE Left(b, f.index, m)

\* The frames on the wire come in the order of the rows, and leave none out
InLine(b, v, w) ==
    \A i \in DOMAIN w :
        /\ FrameOf(b, w[i])
        /\ \A m \in RowsToShow(b) : Later(b, w[i], m) \/ Right(v, m) \/ Ahead(w, i - 1, m)

Chat(p) == \E i \in DOMAIN inbox : inbox[i].type = "chat" /\ inbox[i].who = p

\* The first message of all is shown under 1, where its seq is 0
First(n) == n = 1 /\ buf.rows = <<>>

\* A request asks for no less than what was not given; there is one chat message
Asked ==
    \A i \in DOMAIN inbox :
        /\ \/ inbox[i].last <= End(buf) /\ Fed(buf, view, wire, inbox[i].last)
           \/ inbox[i].type = "chat" /\ First(inbox[i].last)
        /\ inbox[i].type = "resume" => status = "recovered"
        /\ inbox[i].type = "chat" =>
              /\ ~live /\ loop # "subscribe" /\ answer = Taken
              /\ \E v \in view : v.id = inbox[i].who
              /\ \A j \in DOMAIN inbox : inbox[j].type = "chat" => inbox[j].who = inbox[i].who

\* The handler has no request and no loop, and the page has none to ask for
Resting == loop = "outer" /\ inbox = <<>> /\ status = "connected" /\ ask = "no"

\* What is shown under an index is a row; or a message under an index of the
\* page's own, which is on its way or followed by a running; or a row that is not
\* visible, which comes with the history and so before the page sends anything
Based(v) ==
    \/ \E m \in RowsToShow(buf) : m.seq = v.index
    \/ \E i \in DOMAIN buf.rows : buf.rows[i].kind = "running" /\ i > v.index
    \/ v.index < Len(buf.rows) /\ loop # "subscribe" /\ ~Resting
    \/ Chat(v.id) /\ (v.index <= Len(buf.rows) \/ First(v.index))

\* ... and the rows up to it are shown
Settled ==
    \A v \in view :
        /\ Based(v)
        /\ \A m \in RowsToShow(buf) : m.seq <= v.index => Right(view, m)
        /\ v.id \notin Prompt => v.id = v.index /\ v.index < Len(buf.rows)

\* Before the history is taken in, a message is shown under its seq
Young ==
    answer # Taken =>
        \A v \in view, m \in RowsToShow(buf) : RowId(m) = v.id => v.index >= m.seq

\* What is stored in the browser is no further than what is shown
KnownLast ==
    /\ known <= Len(buf.rows)
    /\ \/ Filled(buf, view, known)
       \/ view = {} /\ answer # Taken /\ (answer # NotAsked => known <= answer.rows)
    /\ ask = "known" => view # {}

\* A handler with no request and no loop has left a subscribe loop, and has sent
\* all but the result
Idle ==
    Resting =>
        /\ answer = Taken /\ Done
        /\ \A m \in RowsToShow(buf) : live \/ m.seq < Len(buf.rows) - 1 => Given(view, wire, m)

Follows ==
    /\ loop = "closed" <=> status = "closed"
    /\ loop = "subscribe" => answer = Taken
    /\ loop = "resume" => status = "recovered"
    /\ loop \in Watching => lastSeen <= End(buf) /\ Fed(buf, view, wire, lastSeen)
    /\ lastSeq <= End(buf) /\ Filled(buf, view, lastSeq)

Gapless ==
    /\ Ordered(buf) /\ Lasting /\ Turns /\ InLine(buf, view, wire)
    /\ Asked /\ Settled /\ Young /\ KnownLast /\ Idle /\ Follows
-----------------------------------------------------------------------------
(* Points of a session. *)

\* A row to show has its seq, and is where its seq says.
LEMMA RowToShow ==
  ASSUME NEW b, NEW S, SoundBuffer(b, S), NEW m \in RowsToShow(b)
  PROVE  /\ m \in Message /\ m.kind \in Visible
         /\ m.seq \in Nat /\ m.seq < Len(b.rows)
         /\ m.seq + 1 \in DOMAIN b.rows /\ b.rows[m.seq + 1] = m
  <1>1. PICK i \in DOMAIN b.rows : m = b.rows[i] /\ b.rows[i].kind \in Visible
    BY DEF RowsToShow
  <1>2. b.rows \in Seq(Message) /\ b.rows[i].seq = i - 1
    BY DEF SoundBuffer, SoundRows
  <1>3. i \in Nat \ {0} /\ i <= Len(b.rows) /\ b.rows[i] \in Message
    BY <1>2
  <1>. QED
    BY <1>1, <1>2, <1>3

\* There are at least as many positions as rows.
LEMMA RowsEnd ==
  ASSUME NEW b, NEW S, SoundBuffer(b, S), Ordered(b)
  PROVE  Len(b.rows) <= End(b) /\ Len(b.rows) \in Nat /\ End(b) \in Nat
  <1>1. /\ b.mem \in Seq(Message) /\ b.rows \in Seq(Message) /\ b.base \in Nat
        /\ \A i \in DOMAIN b.rows : b.rows[i].seq = i - 1
    BY DEF SoundBuffer, SoundRows
  <1>2. CASE b.mem = <<>>
    BY <1>1, <1>2 DEF End, Ordered
  <1>3. CASE b.mem # <<>> /\ Len(b.rows) > b.base
    <2>1. Len(b.rows) \in DOMAIN b.rows
      BY <1>1, <1>3
    <2>2. PICK i \in DOMAIN b.mem : b.mem[i] = b.rows[Len(b.rows)]
      BY <1>3, <2>1 DEF Ordered
    <2>3. b.mem[i].seq = Len(b.rows) - 1 /\ b.mem[i].seq # NoSeq /\ i \in 1..Len(b.mem)
      BY <1>1, <1>3, <2>1, <2>2 DEF NoSeq
    <2>4. Len(b.rows) - 1 < b.base + i
      BY <2>3 DEF Ordered
    <2>5. /\ Len(b.rows) \in Nat /\ Len(b.mem) \in Nat /\ b.base \in Nat
          /\ i \in Nat /\ i <= Len(b.mem)
      BY <1>1, <2>3
    <2>6. Len(b.rows) <= b.base + Len(b.mem)
      BY <2>4, <2>5
    <2>. QED
      BY <2>5, <2>6 DEF End
  <1>4. CASE Len(b.rows) <= b.base
    BY <1>1, <1>4 DEF End
  <1>5. Len(b.rows) \in Nat /\ End(b) \in Nat
    BY <1>1 DEF End
  <1>. QED
    BY <1>1, <1>2, <1>3, <1>4, <1>5

\* A row that is not behind a point in number is not behind it in position.
LEMMA LeftBySeq ==
  ASSUME NEW b, NEW S, SoundBuffer(b, S), Ordered(b),
         NEW m \in RowsToShow(b), NEW n \in Nat, n <= m.seq
  PROVE  Left(b, n, m)
  <1>1. /\ b.mem \in Seq(Message) /\ b.base \in Nat
        /\ m.seq \in Nat /\ m.seq + 1 \in DOMAIN b.rows /\ b.rows[m.seq + 1] = m
    BY RowToShow DEF SoundBuffer
  <1>2. CASE n < b.base
    BY <1>2 DEF Left
  <1>3. CASE ~(n < b.base)
    <2>1. m.seq + 1 > b.base
      BY <1>1, <1>3
    <2>2. PICK i \in DOMAIN b.mem : b.mem[i] = m
      BY <1>1, <2>1 DEF Ordered
    <2>3. m.seq # NoSeq /\ i \in Nat
      BY <1>1 DEF NoSeq
    <2>4. m.seq < b.base + i
      BY <2>2, <2>3 DEF Ordered
    <2>5. b.base + i > n
      BY <1>1, <2>3, <2>4
    <2>. QED
      BY <1>3, <2>2, <2>5 DEF Left
  <1>. QED
    BY <1>2, <1>3

\* What comes after a point comes after an earlier one.
LEMMA LeftEarlier ==
  ASSUME NEW b, NEW S, SoundBuffer(b, S), Ordered(b),
         NEW m \in RowsToShow(b), NEW n \in Nat, NEW k \in Nat, n <= k, Left(b, k, m)
  PROVE  Left(b, n, m)
  <1>1. b.mem \in Seq(Message) /\ b.base \in Nat /\ m.seq \in Nat
    BY RowToShow DEF SoundBuffer
  <1>2. CASE k < b.base
    BY <1>1, <1>2 DEF Left
  <1>3. CASE ~(k < b.base)
    <2>1. PICK i \in DOMAIN b.mem : b.base + i > k /\ b.mem[i] = m
      BY <1>3 DEF Left
    <2>2. m.seq # NoSeq
      BY <1>1 DEF NoSeq
    <2>3. b.base <= m.seq
      BY <2>1, <2>2 DEF Ordered
    <2>4. i \in Nat
      BY <1>1, <2>1
    <2>5. b.base + i > n
      BY <1>1, <2>1, <2>4
    <2>. QED
      BY <1>1, <2>1, <2>3, <2>5 DEF Left
  <1>. QED
    BY <1>2, <1>3

\* What get_history(after) has: rows and stream events, in order, to the end, and
\* all that is left from after on.
History(b, after, h) ==
    /\ h \in Seq(Message)
    /\ after <= End(b) => after + Len(h) <= End(b)
    /\ \A k \in DOMAIN h : h[k].seq # NoSeq =>
          h[k].seq < Len(b.rows) /\ b.rows[h[k].seq + 1] = h[k]
    /\ \A k \in DOMAIN h : h[k].seq = NoSeq =>
          /\ h[k].kind = "stream"
          /\ after + k - 1 < End(b)
          /\ \A m \in RowsToShow(b) :
                Left(b, after, m) => (Left(b, after + k - 1, m) \/ \E j \in 1 .. k - 1 : h[j] = m)
    /\ \A j, k \in DOMAIN h :
          (j < k /\ h[j].seq # NoSeq /\ h[k].seq # NoSeq) => h[j].seq < h[k].seq
    /\ \A m \in RowsToShow(b) : Left(b, after, m) <=> \E k \in DOMAIN h : h[k] = m

\* What get_history(after) returns is such a history, by position and by seq.
LEMMA HistoryIs ==
  ASSUME SoundBuffer(buf, sent), Ordered(buf), NEW after \in Nat
  PROVE  History(buf, after, GetHistory(after))
  <1>1. /\ buf.mem \in Seq(Message) /\ buf.rows \in Seq(Message) /\ buf.base \in Nat
        /\ \A i \in DOMAIN buf.rows : buf.rows[i].seq = i - 1
    BY DEF SoundBuffer, SoundRows
  <1>2. CASE after - buf.base \in 0..Len(buf.mem) - 1
    <2>0. after - buf.base \in Nat /\ after - buf.base < Len(buf.mem)
      BY <1>1, <1>2
    <2>1. PICK n \in Nat : n = after - buf.base /\ n < Len(buf.mem)
      BY <2>0
    <2>. DEFINE h == SubSeq(buf.mem, n + 1, Len(buf.mem))
    <2>2. GetHistory(after) = h
      BY <1>2, <2>1 DEF GetHistory
    <2>3. /\ h \in Seq(Message) /\ Len(h) = Len(buf.mem) - n
          /\ \A i \in DOMAIN h : n + i \in DOMAIN buf.mem /\ h[i] = buf.mem[n + i] /\ i \in Nat \ {0}
          /\ DOMAIN h = 1..Len(h)
      <3>1. n \in Nat /\ buf.mem \in Seq(Message) /\ n < Len(buf.mem)
        BY <1>1, <2>1
      <3>. QED
        BY <3>1
    <2>. HIDE DEF h
    <2>4. after = buf.base + n /\ Len(buf.mem) \in Nat /\ DOMAIN buf.mem = 1..Len(buf.mem)
      BY <1>1, <2>1
    <2>5. Len(h) \in Nat /\ Len(h) = Len(buf.mem) - n /\ DOMAIN h = 1..Len(h)
      BY <2>3
    <2>6. buf.base \in Nat /\ after = buf.base + n
      BY <1>1, <2>1
    <2>7. \A i \in DOMAIN buf.mem : buf.base + i > after => i \in Nat /\ i - n \in DOMAIN h /\ n + (i - n) = i
      <3>. TAKE i \in DOMAIN buf.mem
      <3>. HAVE buf.base + i > after
      <3>1. i \in Nat /\ i <= Len(buf.mem) /\ i > n
        BY <2>4, <2>6
      <3>2. i - n \in 1 .. Len(buf.mem) - n
        BY <2>1, <2>4, <3>1
      <3>. QED
        BY <2>5, <3>1, <3>2
    <2>8. after + Len(h) <= End(buf)
      BY <1>1, <2>3, <2>4 DEF End
    <2>9. \A k \in DOMAIN h : h[k].seq # NoSeq =>
             h[k].seq < Len(buf.rows) /\ buf.rows[h[k].seq + 1] = h[k]
      BY <2>3 DEF Ordered
    <2>10. \A k \in DOMAIN h : h[k].seq = NoSeq => h[k].kind = "stream"
      BY <2>3 DEF Ordered
    <2>11. \A j, k \in DOMAIN h :
             (j < k /\ h[j].seq # NoSeq /\ h[k].seq # NoSeq) => h[j].seq < h[k].seq
      <3>. TAKE j, k \in DOMAIN h
      <3>. HAVE j < k /\ h[j].seq # NoSeq /\ h[k].seq # NoSeq
      <3>1. n + j < n + k
        BY <2>1, <2>3
      <3>. QED
        BY <2>3, <3>1 DEF Ordered
    <2>12. \A k \in DOMAIN h : \A m :
             (\E i \in DOMAIN buf.mem : buf.base + i > after /\ buf.mem[i] = m)
             => \/ \E i \in DOMAIN buf.mem : buf.base + i > after + k - 1 /\ buf.mem[i] = m
                \/ \E j \in 1 .. k - 1 : h[j] = m
      <3>. TAKE k \in DOMAIN h
      <3>. TAKE m
      <3>. HAVE \E i \in DOMAIN buf.mem : buf.base + i > after /\ buf.mem[i] = m
      <3>1. PICK i \in DOMAIN buf.mem : buf.base + i > after /\ buf.mem[i] = m
        OBVIOUS
      <3>2. i \in Nat /\ i - n \in DOMAIN h /\ n + (i - n) = i
        BY <2>7, <3>1
      <3>3. h[i - n] = m
        BY <2>3, <3>1, <3>2
      <3>4. CASE i - n <= k - 1
        <4>1. i - n \in 1 .. k - 1
          BY <2>1, <2>5, <3>2, <3>4
        <4>. QED
          BY <3>3, <4>1
      <3>5. CASE ~(i - n <= k - 1)
        <4>0. i \in Nat /\ k \in Nat /\ n \in Nat
          BY <2>1, <2>5, <3>2
        <4>1. i > n + k - 1
          BY <3>5, <4>0
        <4>2. \A B, K, M \in Nat : M > n + K - 1 => B + M > (B + n) + K - 1
          BY <2>1
        <4>3. buf.base + i > after + k - 1
          BY <2>6, <4>0, <4>1, <4>2
        <4>. QED
          BY <3>1, <4>3
      <3>. QED
        BY <3>4, <3>5
    <2>13. \A m : (\E i \in DOMAIN buf.mem : buf.base + i > after /\ buf.mem[i] = m)
                 <=> \E k \in DOMAIN h : h[k] = m
      <3>. TAKE m
      <3>1. ASSUME NEW i \in DOMAIN buf.mem, buf.base + i > after, buf.mem[i] = m
            PROVE  \E k \in DOMAIN h : h[k] = m
        <4>1. i - n \in DOMAIN h /\ n + (i - n) = i
          BY <2>7, <3>1
        <4>. QED
          BY <2>3, <3>1, <4>1
      <3>2. ASSUME NEW k \in DOMAIN h, h[k] = m
            PROVE  \E i \in DOMAIN buf.mem : buf.base + i > after /\ buf.mem[i] = m
        <4>1. n + k \in DOMAIN buf.mem /\ buf.mem[n + k] = m
          BY <2>3, <3>2
        <4>2. buf.base + (n + k) > after
          BY <2>1, <2>4, <2>5, <2>6
        <4>. QED
          BY <4>1, <4>2
      <3>. QED
        BY <3>1, <3>2
    <2>14. \A k \in DOMAIN h : after + k - 1 < End(buf) /\ ~(after + k - 1 < buf.base)
      <3>. TAKE k \in DOMAIN h
      <3>1. k \in Nat /\ 1 <= k /\ k <= Len(buf.mem) - n /\ Len(buf.mem) \in Nat
        BY <2>1, <2>4, <2>5
      <3>2. \A A, B, M, K, L \in Nat : (A = B + M /\ 1 <= K /\ K <= L - M) =>
               A + K - 1 < B + L /\ ~(A + K - 1 < B)
        OBVIOUS
      <3>3. after + k - 1 < buf.base + Len(buf.mem) /\ ~(after + k - 1 < buf.base)
        BY <2>1, <2>6, <3>1, <3>2, Zenon
      <3>. QED
        BY <3>3 DEF End
    <2>15. ~(after < buf.base)
      BY <1>1, <2>1, <2>4
    <2>16. \A m : Left(buf, after, m) <=> \E i \in DOMAIN buf.mem : buf.base + i > after /\ buf.mem[i] = m
      BY <2>15 DEF Left
    <2>17. \A k \in DOMAIN h : \A m :
              (\E i \in DOMAIN buf.mem : buf.base + i > after + k - 1 /\ buf.mem[i] = m)
              => Left(buf, after + k - 1, m)
      BY <2>14 DEF Left
    <2>18. \A m : Left(buf, after, m) <=> \E k \in DOMAIN h : h[k] = m
      BY <2>13, <2>16
    <2>19. \A k \in DOMAIN h : \A m : Left(buf, after, m) =>
              (Left(buf, after + k - 1, m) \/ \E j \in 1 .. k - 1 : h[j] = m)
      BY <2>12, <2>16, <2>17
    <2>. QED
      BY <2>2, <2>3, <2>8, <2>9, <2>11, <2>14, <2>18, <2>19, <2>10 DEF History
  <1>3. CASE after - buf.base \notin 0..Len(buf.mem) - 1
    <2>. DEFINE h == SubSeq(buf.rows, after + 1, Len(buf.rows))
    <2>1. GetHistory(after) = h
      BY <1>3 DEF GetHistory
    <2>2. buf.rows \in Seq(Message) /\ after \in Nat
      BY <1>1
    <2>3. /\ h \in Seq(Message)
          /\ Len(h) = IF after < Len(buf.rows) THEN Len(buf.rows) - after ELSE 0
          /\ DOMAIN h = 1..Len(h)
          /\ \A i \in DOMAIN h : after + i \in DOMAIN buf.rows /\ h[i] = buf.rows[after + i] /\ i \in Nat \ {0}
      BY <2>2
    <2>. HIDE DEF h
    <2>4. \A k \in DOMAIN h : h[k].seq = after + k - 1
      BY <1>1, <2>3
    <2>5. Len(buf.rows) <= End(buf)
      BY RowsEnd
    <2>6. after <= End(buf) => after + Len(h) <= End(buf)
      BY <1>1, <2>3, <2>5 DEF End
    <2>7. \A k \in DOMAIN h : h[k].seq # NoSeq /\ h[k].seq < Len(buf.rows) /\ buf.rows[h[k].seq + 1] = h[k]
      <3>. TAKE k \in DOMAIN h
      <3>1. after + k \in DOMAIN buf.rows /\ h[k] = buf.rows[after + k] /\ k \in Nat \ {0}
        BY <2>3
      <3>2. h[k].seq = after + k - 1
        BY <2>4
      <3>3. after + k <= Len(buf.rows) /\ (after + k - 1) + 1 = after + k /\ after + k - 1 \in Nat
        BY <2>2, <3>1
      <3>4. h[k].seq # NoSeq /\ h[k].seq < Len(buf.rows)
        BY <2>2, <3>2, <3>3 DEF NoSeq
      <3>. QED
        BY <3>1, <3>2, <3>3, <3>4
    <2>8. \A j, k \in DOMAIN h : j < k => h[j].seq < h[k].seq
      BY <2>3, <2>4
    <2>9. ASSUME NEW m \in RowsToShow(buf)
          PROVE  Left(buf, after, m) <=> \E k \in DOMAIN h : h[k] = m
      <3>1. /\ m.seq \in Nat /\ m.seq < Len(buf.rows)
            /\ m.seq + 1 \in DOMAIN buf.rows /\ buf.rows[m.seq + 1] = m
        BY RowToShow
      <3>2. ASSUME Left(buf, after, m) PROVE m.seq >= after
        <4>1. CASE after < buf.base
          BY <3>2, <4>1 DEF Left
        <4>2. CASE ~(after < buf.base)
          <5>1. PICK i \in DOMAIN buf.mem : buf.base + i > after
            BY <3>2, <4>2 DEF Left
          <5>. QED
            BY <1>1, <1>3, <4>2, <5>1
        <4>. QED
          BY <4>1, <4>2
      <3>3. ASSUME m.seq >= after PROVE \E k \in DOMAIN h : h[k] = m
        <4>1. Len(h) = Len(buf.rows) - after /\ DOMAIN h = 1..Len(h) /\ Len(buf.rows) \in Nat
          BY <1>1, <2>3, <3>1, <3>3
        <4>2. m.seq - after + 1 \in DOMAIN h /\ after + (m.seq - after + 1) = m.seq + 1
          BY <3>1, <3>3, <4>1
        <4>. QED
          BY <2>3, <3>1, <4>2
      <3>4. ASSUME NEW k \in DOMAIN h, h[k] = m PROVE Left(buf, after, m)
        <4>1. after <= m.seq
          BY <2>3, <2>4, <3>4
        <4>. QED
          BY <4>1, LeftBySeq
      <3>. QED
        BY <3>2, <3>3, <3>4
    <2>. QED
      BY <2>1, <2>3, <2>6, <2>7, <2>8, <2>9 DEF History
  <1>. QED
    BY <1>2, <1>3

\* Frames that tell what comes after a point: each is what it says, and none is
\* ahead of a row that is left there and has no earlier one.
Continues(b, fs, n) ==
    \A k \in DOMAIN fs :
        /\ FrameOf(b, fs[k])
        /\ \A m \in RowsToShow(b) : Left(b, n, m) => (Later(b, fs[k], m) \/ Ahead(fs, k - 1, m))

Covers(b, fs, n) == \A m \in RowsToShow(b) : Left(b, n, m) => Ahead(fs, Len(fs), m)

\* Copies of a history do, if a stream event is not ahead of the next row.
LEMMA CopiesContinue ==
  ASSUME NEW b, NEW S, SoundBuffer(b, S), Ordered(b), NEW n \in Nat, NEW h, History(b, n, h),
         NEW fs \in Seq(Frame), Len(fs) = Len(h),
         \A k \in DOMAIN h : fs[k].kind = h[k].kind /\ fs[k].who = h[k].who,
         \A k \in DOMAIN h : h[k].seq # NoSeq => fs[k].index = h[k].seq,
         \A k \in DOMAIN h : h[k].seq = NoSeq =>
            /\ fs[k].index <= End(b)
            /\ \A m \in RowsToShow(b) :
                  Left(b, n, m) => (Left(b, fs[k].index, m) \/ \E j \in 1 .. k - 1 : h[j] = m)
  PROVE  Continues(b, fs, n) /\ Covers(b, fs, n)
  <1>1. /\ h \in Seq(Message) /\ DOMAIN h = 1..Len(h) /\ DOMAIN fs = DOMAIN h /\ Len(h) \in Nat
        /\ \A k \in DOMAIN h : h[k] \in Message /\ k \in Nat
    BY DEF History
  <1>2. \A m \in RowsToShow(b) : m.seq \in Nat /\ m.seq # NoSeq /\ m.kind \in Visible
    BY RowToShow DEF NoSeq
  <1>3. \A m \in RowsToShow(b), j \in DOMAIN h :
           h[j] = m => fs[j].kind \in Visible /\ fs[j].index = m.seq
    BY <1>2
  <1>4. \A m \in RowsToShow(b), k \in DOMAIN h :
           (\E j \in 1 .. k - 1 : h[j] = m) => Ahead(fs, k - 1, m)
    <2>. TAKE m \in RowsToShow(b), k \in DOMAIN h
    <2>. HAVE \E j \in 1 .. k - 1 : h[j] = m
    <2>1. PICK j \in 1 .. k - 1 : h[j] = m
      OBVIOUS
    <2>2. j \in DOMAIN h
      BY <1>1
    <2>. QED
      BY <1>3, <2>1, <2>2 DEF Ahead
  <1>5. Covers(b, fs, n)
    BY <1>1, <1>3 DEF Covers, Ahead, History
  <1>6. ASSUME NEW k \in DOMAIN h, h[k].seq # NoSeq
        PROVE  /\ FrameOf(b, fs[k])
               /\ \A m \in RowsToShow(b) : Left(b, n, m) => (Later(b, fs[k], m) \/ Ahead(fs, k - 1, m))
    <2>1. /\ h[k].seq < Len(b.rows) /\ b.rows[h[k].seq + 1] = h[k] /\ fs[k].index = h[k].seq
          /\ h[k].seq \in Nat
      BY <1>1, <1>6 DEF History, Message, Index
    <2>2. FrameOf(b, fs[k])
      BY <2>1, RowsEnd DEF FrameOf
    <2>3. ASSUME NEW m \in RowsToShow(b), Left(b, n, m)
          PROVE  Later(b, fs[k], m) \/ Ahead(fs, k - 1, m)
      <3>1. PICK j \in DOMAIN h : h[j] = m
        BY <2>3 DEF History
      <3>2. CASE j < k
        <4>1. j \in 1 .. k - 1
          BY <1>1, <3>2
        <4>. QED
          BY <1>4, <3>1, <4>1
      <3>3. CASE j >= k
        <4>1. m.seq >= h[k].seq
          <5>1. CASE j = k
            BY <1>2, <3>1, <5>1
          <5>2. CASE j > k
            <6>1. h[k].seq < h[j].seq
              BY <1>2, <1>6, <3>1, <5>2 DEF History
            <6>. QED
              BY <1>2, <2>1, <3>1, <6>1
          <5>. QED
            BY <1>1, <3>3, <5>1, <5>2
        <4>2. Left(b, h[k].seq, m)
          BY <2>1, <4>1, LeftBySeq
        <4>. QED
          BY <2>1, <4>1, <4>2 DEF Later
      <3>. QED
        BY <1>1, <3>2, <3>3
    <2>. QED
      BY <2>2, <2>3
  <1>7. ASSUME NEW k \in DOMAIN h, h[k].seq = NoSeq
        PROVE  /\ FrameOf(b, fs[k])
               /\ \A m \in RowsToShow(b) : Left(b, n, m) => (Later(b, fs[k], m) \/ Ahead(fs, k - 1, m))
    <2>1. fs[k].kind \notin Visible
      BY <1>7 DEF History, Visible
    <2>. QED
      BY <1>4, <1>7, <2>1 DEF FrameOf, Later
  <1>. QED
    BY <1>1, <1>5, <1>6, <1>7 DEF Continues

\* What recover, subscribe and a replay send.
LEMMA FramesContinue ==
  ASSUME IInv, Ordered(buf), NEW n \in Nat, n <= End(buf), NEW again \in BOOLEAN
  PROVE  /\ Frames(GetHistory(n), n, again) \in Seq(Frame)
         /\ Continues(buf, Frames(GetHistory(n), n, again), n)
         /\ Covers(buf, Frames(GetHistory(n), n, again), n)
         /\ n + Len(GetHistory(n)) \in Nat /\ n + Len(GetHistory(n)) <= End(buf)
  <1>. DEFINE h == GetHistory(n)
              fs == Frames(h, n, again)
  <1>0. TypeOK /\ SoundBuffer(buf, sent)
    BY DEF IInv
  <1>1. History(buf, n, h)
    BY <1>0, HistoryIs
  <1>2. h \in Seq(Message) /\ AuthorsOf(h) \subseteq sent
    BY <1>0, HistorySound
  <1>. HIDE DEF h
  <1>3. fs \in Seq(Frame)
    BY <1>0, <1>2, FramesSound DEF SoundWire
  <1>4. /\ DOMAIN fs = DOMAIN h /\ DOMAIN h = 1..Len(h) /\ Len(h) \in Nat
        /\ \A k \in DOMAIN h : k \in Nat /\
              fs[k] = [kind |-> h[k].kind, who |-> h[k].who, replay |-> again,
                       index |-> IF h[k].seq = NoSeq THEN n + k - 1 ELSE h[k].seq]
    BY <1>2 DEF Frames
  <1>. HIDE DEF fs
  <1>5. Len(fs) = Len(h)
    BY <1>3, <1>4
  <1>6. End(buf) \in Nat
    BY <1>0, RowsEnd
  <1>7. \A k \in DOMAIN h : h[k].seq = NoSeq =>
            /\ fs[k].index <= End(buf)
            /\ \A m \in RowsToShow(buf) :
                  Left(buf, n, m) => (Left(buf, fs[k].index, m) \/ \E j \in 1 .. k - 1 : h[j] = m)
    <2>. TAKE k \in DOMAIN h
    <2>. HAVE h[k].seq = NoSeq
    <2>1. fs[k].index = n + k - 1
      BY <1>4
    <2>2. n + k - 1 < End(buf) /\ k \in Nat
      BY <1>1, <1>4 DEF History
    <2>3. n + k - 1 <= End(buf)
      BY <1>6, <2>2
    <2>. QED
      BY <1>1, <2>1, <2>3 DEF History
  <1>8. Continues(buf, fs, n) /\ Covers(buf, fs, n)
    <2>1. /\ \A k \in DOMAIN h : fs[k].kind = h[k].kind /\ fs[k].who = h[k].who
          /\ \A k \in DOMAIN h : h[k].seq # NoSeq => fs[k].index = h[k].seq
      BY <1>4
    <2>. QED
      BY <1>0, <1>1, <1>3, <1>5, <1>7, <2>1, CopiesContinue
  <1>9. n + Len(h) \in Nat /\ n + Len(h) <= End(buf)
    BY <1>1, <1>4 DEF History
  <1>. QED
    BY <1>3, <1>8, <1>9 DEF h, fs

\* What the resume loop sends: a stream event goes under the index of the row
\* before it.
LEMMA ResumeFramesContinue ==
  ASSUME IInv, Ordered(buf), NEW n \in Nat, n <= End(buf)
  PROVE  /\ ResumeFrames(GetHistory(n), n) \in Seq(Frame)
         /\ Continues(buf, ResumeFrames(GetHistory(n), n), n)
         /\ Covers(buf, ResumeFrames(GetHistory(n), n), n)
         /\ ResumeIndex(GetHistory(n), Len(GetHistory(n)), n) <= End(buf)
  <1>. DEFINE h == GetHistory(n)
              fs == ResumeFrames(h, n)
  <1>0. TypeOK /\ SoundBuffer(buf, sent)
    BY DEF IInv
  <1>1. History(buf, n, h)
    BY <1>0, HistoryIs
  <1>2. h \in Seq(Message) /\ AuthorsOf(h) \subseteq sent
    BY <1>0, HistorySound
  <1>. HIDE DEF h
  <1>3. fs \in Seq(Frame)
    BY <1>0, <1>2, ResumeFramesSound DEF SoundWire
  <1>4. /\ DOMAIN fs = DOMAIN h /\ DOMAIN h = 1..Len(h) /\ Len(h) \in Nat
        /\ \A k \in DOMAIN h : k \in Nat \ {0} /\
              fs[k] = [kind |-> h[k].kind, who |-> h[k].who, replay |-> FALSE,
                       index |-> ResumeIndex(h, k, n)]
    BY <1>2 DEF ResumeFrames
  <1>. HIDE DEF fs
  <1>5. Len(fs) = Len(h)
    BY <1>3, <1>4
  <1>6. End(buf) \in Nat /\ Len(buf.rows) <= End(buf) /\ Len(buf.rows) \in Nat
    BY <1>0, RowsEnd
  <1>. DEFINE Rows(k) == {j \in 1..k : h[j].seq # NoSeq}
  <1>7. ASSUME NEW k \in 0..Len(h)
        PROVE  IF Rows(k) = {} THEN ResumeIndex(h, k, n) = n
               ELSE \E j \in Rows(k) : ResumeIndex(h, k, n) = h[j].seq /\ \A i \in Rows(k) : i <= j
    <2>1. CASE Rows(k) = {}
      BY <2>1 DEF ResumeIndex
    <2>2. CASE Rows(k) # {}
      <3>1. k \in Nat /\ Rows(k) \subseteq Nat /\ \A i \in Rows(k) : i <= k
        OBVIOUS
      <3>2. ResumeIndex(h, k, n) = h[Largest(Rows(k))].seq
        BY <2>2 DEF ResumeIndex
      <3>. HIDE DEF Rows
      <3>3. Largest(Rows(k)) \in Rows(k) /\ \A i \in Rows(k) : i <= Largest(Rows(k))
        BY <2>2, <3>1, LargestIn
      <3>. QED
        BY <2>2, <3>2, <3>3
    <2>. QED
      BY <2>1, <2>2
  <1>8. \A k \in DOMAIN h : h[k].seq # NoSeq => fs[k].index = h[k].seq
    <2>. TAKE k \in DOMAIN h
    <2>. HAVE h[k].seq # NoSeq
    <2>1. k \in Rows(k) /\ k \in 0..Len(h)
      BY <1>4
    <2>2. PICK j \in Rows(k) : ResumeIndex(h, k, n) = h[j].seq /\ k <= j
      BY <1>7, <2>1
    <2>3. j = k
      BY <1>4, <2>2
    <2>. QED
      BY <1>4, <2>2, <2>3
  <1>9. \A k \in DOMAIN h : h[k].seq = NoSeq =>
            /\ fs[k].index <= End(buf)
            /\ \A m \in RowsToShow(buf) :
                  Left(buf, n, m) => (Left(buf, fs[k].index, m) \/ \E j \in 1 .. k - 1 : h[j] = m)
    <2>. TAKE k \in DOMAIN h
    <2>. HAVE h[k].seq = NoSeq
    <2>0. k \in 0..Len(h) /\ fs[k].index = ResumeIndex(h, k, n)
      BY <1>4
    <2>1. CASE Rows(k) = {}
      BY <1>7, <2>0, <2>1
    <2>2. CASE Rows(k) # {}
      <3>1. PICK j \in Rows(k) : ResumeIndex(h, k, n) = h[j].seq
        BY <1>7, <2>0, <2>2
      <3>2. j \in DOMAIN h /\ h[j].seq # NoSeq /\ j < k
        BY <1>4
      <3>3. h[j].seq < Len(buf.rows) /\ h[j].seq \in Nat
        <4>1. h[j] \in Message
          BY <1>2, <3>2
        <4>. QED
          BY <1>1, <3>2, <4>1 DEF History, Message, Index
      <3>4. ASSUME NEW m \in RowsToShow(buf), Left(buf, n, m)
            PROVE  Left(buf, h[j].seq, m) \/ \E i \in 1 .. k - 1 : h[i] = m
        <4>1. PICK i \in DOMAIN h : h[i] = m
          BY <1>1, <3>4 DEF History
        <4>2. m.seq \in Nat /\ m.seq # NoSeq
          BY <1>0, RowToShow DEF NoSeq
        <4>3. CASE i < k
          BY <1>4, <4>1, <4>3
        <4>4. CASE i >= k
          <5>1. j < i
            BY <1>4, <3>2, <4>4
          <5>2. h[j].seq < m.seq
            BY <1>1, <3>2, <4>1, <4>2, <5>1 DEF History
          <5>. QED
            BY <1>0, <3>3, <4>2, <5>2, LeftBySeq
        <4>. QED
          BY <1>4, <4>3, <4>4
      <3>. QED
        BY <1>6, <2>0, <3>1, <3>3, <3>4
    <2>. QED
      BY <2>1, <2>2
  <1>10. \A k \in DOMAIN h : fs[k].kind = h[k].kind /\ fs[k].who = h[k].who
    BY <1>4
  <1>11. Continues(buf, fs, n) /\ Covers(buf, fs, n)
    BY <1>0, <1>1, <1>3, <1>5, <1>8, <1>9, <1>10, CopiesContinue
  <1>12. ResumeIndex(h, Len(h), n) <= End(buf)
    <2>0. Len(h) \in 0..Len(h)
      BY <1>4
    <2>1. CASE Rows(Len(h)) = {}
      BY <1>7, <2>0, <2>1
    <2>2. CASE Rows(Len(h)) # {}
      <3>1. PICK j \in Rows(Len(h)) : ResumeIndex(h, Len(h), n) = h[j].seq
        BY <1>7, <2>0, <2>2
      <3>2. h[j].seq < Len(buf.rows) /\ h[j].seq \in Nat
        <4>1. j \in DOMAIN h /\ h[j].seq # NoSeq
          BY <1>4
        <4>2. h[j] \in Message
          BY <1>2, <4>1
        <4>. QED
          BY <1>1, <4>1, <4>2 DEF History, Message, Index
      <3>. QED
        BY <1>6, <3>1, <3>2
    <2>. QED
      BY <2>1, <2>2
  <1>. QED
    BY <1>3, <1>11, <1>12 DEF h, fs

\* A sign of life is not ahead of what the loop has still to send.
LEMMA SignalContinues ==
  ASSUME NEW b, NEW kind \in {"error", "heartbeat", "dead"}, NEW n \in Nat, n <= End(b)
  PROVE  Signal(kind, n) \in Seq(Frame) /\ Continues(b, Signal(kind, n), n)
  <1>1. kind \notin Visible /\ kind \in Kinds
    BY DEF Visible, Kinds
  <1>. QED
    BY <1>1 DEF Signal, Frame, Continues, FrameOf, Later

\* What continues what was given may be sent.
LEMMA Sent ==
  ASSUME NEW b, NEW S, SoundBuffer(b, S), NEW v, NEW w \in Seq(Frame), NEW fs \in Seq(Frame), NEW n \in Nat,
         InLine(b, v, w), Fed(b, v, w, n), Continues(b, fs, n)
  PROVE  /\ InLine(b, v, w \o fs)
         /\ \A m \in RowsToShow(b) : Given(v, w, m) => Given(v, w \o fs, m)
         /\ Covers(b, fs, n) => \A m \in RowsToShow(b) : Given(v, w \o fs, m)
  <1>. DEFINE u == w \o fs
  <1>1. /\ Len(u) = Len(w) + Len(fs) /\ Len(w) \in Nat /\ Len(fs) \in Nat
        /\ DOMAIN u = 1..Len(u) /\ DOMAIN w = 1..Len(w) /\ DOMAIN fs = 1..Len(fs)
        /\ \A i \in DOMAIN w : u[i] = w[i]
        /\ \A i \in DOMAIN fs : u[Len(w) + i] = fs[i]
    OBVIOUS
  <1>. HIDE DEF u
  <1>2. \A m, k : (k \in 0..Len(w) /\ Ahead(w, k, m)) => Ahead(u, k, m)
    BY <1>1 DEF Ahead
  <1>3. \A m : Ahead(w, Len(w), m) => \A k \in Len(w)..Len(u) : Ahead(u, k, m)
    BY <1>1 DEF Ahead
  <1>4. \A m, k : (k \in 0..Len(fs) /\ Ahead(fs, k, m)) => Ahead(u, Len(w) + k, m)
    <2>. TAKE m, k
    <2>. HAVE k \in 0..Len(fs) /\ Ahead(fs, k, m)
    <2>1. PICK i \in 1..k : fs[i].kind \in Visible /\ fs[i].index = m.seq
      BY DEF Ahead
    <2>2. i \in DOMAIN fs /\ Len(w) + i \in 1..(Len(w) + k)
      BY <1>1
    <2>. QED
      BY <1>1, <2>1, <2>2 DEF Ahead
  <1>5. \A m \in RowsToShow(b) : Given(v, w, m) => Given(v, u, m)
    BY <1>1, <1>3 DEF Given
  <1>6. Covers(b, fs, n) => \A m \in RowsToShow(b) : Given(v, u, m)
    BY <1>1, <1>4, <1>5 DEF Covers, Fed, Given
  <1>7. ASSUME NEW i \in DOMAIN u
        PROVE  /\ FrameOf(b, u[i])
               /\ \A m \in RowsToShow(b) : Later(b, u[i], m) \/ Right(v, m) \/ Ahead(u, i - 1, m)
    <2>1. CASE i <= Len(w)
      <3>1. i \in DOMAIN w /\ u[i] = w[i] /\ i - 1 \in 0..Len(w)
        BY <1>1, <2>1
      <3>. QED
        BY <1>2, <3>1 DEF InLine
    <2>2. CASE ~(i <= Len(w))
      <3>1. PICK k \in DOMAIN fs : i = Len(w) + k /\ u[i] = fs[k]
        <4>1. i - Len(w) \in DOMAIN fs /\ i = Len(w) + (i - Len(w))
          BY <1>1, <2>2
        <4>. QED
          BY <1>1, <4>1
      <3>2. FrameOf(b, u[i])
        BY <3>1 DEF Continues
      <3>3. ASSUME NEW m \in RowsToShow(b)
            PROVE  Later(b, u[i], m) \/ Right(v, m) \/ Ahead(u, i - 1, m)
        <4>1. i - 1 = Len(w) + (k - 1) /\ k - 1 \in 0..Len(fs) /\ i - 1 \in Len(w)..Len(u)
          BY <1>1, <3>1
        <4>2. CASE Left(b, n, m)
          BY <1>4, <3>1, <4>1, <4>2 DEF Continues
        <4>3. CASE ~Left(b, n, m)
          BY <1>3, <4>1, <4>3 DEF Fed, Given
        <4>. QED
          BY <4>2, <4>3
      <3>. QED
        BY <3>2, <3>3
    <2>. QED
      BY <2>1, <2>2
  <1>. QED
    BY <1>5, <1>6, <1>7 DEF InLine, u

-----------------------------------------------------------------------------
(* The buffer grows. *)

\* Messages are added to the table, and come after every point there was.
Grows(b, c) ==
    /\ Len(b.rows) <= Len(c.rows) /\ End(b) <= End(c)
    /\ \A i \in DOMAIN b.rows : i \in DOMAIN c.rows /\ c.rows[i] = b.rows[i]
    /\ \A m \in RowsToShow(c) : m.seq < Len(b.rows) => m \in RowsToShow(b)
    /\ \A n \in 0..End(b), m \in RowsToShow(c) :
          (m \in RowsToShow(b) => Left(b, n, m)) => Left(c, n, m)

\* A buffer that stays as it is has grown in that sense.
LEMMA GrowsNot ==
  ASSUME NEW b, NEW S, SoundBuffer(b, S)
  PROVE  Grows(b, b)
  <1>1. Len(b.rows) \in Nat /\ End(b) \in Nat
    BY DEF SoundBuffer, End
  <1>. QED
    BY <1>1 DEF Grows

\* To grow twice is to grow.
LEMMA GrowsOn ==
  ASSUME NEW b, NEW c, NEW d, NEW S, SoundBuffer(b, S), SoundBuffer(c, S), SoundBuffer(d, S),
         Grows(b, c), Grows(c, d)
  PROVE  Grows(b, d)
  <1>1. /\ Len(b.rows) \in Nat /\ Len(c.rows) \in Nat /\ Len(d.rows) \in Nat
        /\ End(b) \in Nat /\ End(c) \in Nat /\ End(d) \in Nat
    BY DEF SoundBuffer, End
  <1>2. \A m \in RowsToShow(d) : m.seq \in Nat
    BY RowToShow
  <1>3. ASSUME NEW n \in 0..End(b), NEW m \in RowsToShow(d), m \in RowsToShow(b) => Left(b, n, m)
        PROVE  Left(d, n, m)
    <2>1. n \in 0..End(c)
      BY <1>1 DEF Grows
    <2>2. m \in RowsToShow(c) => Left(c, n, m)
      BY <1>3 DEF Grows
    <2>. QED
      BY <2>1, <2>2 DEF Grows
  <1>4. \A m \in RowsToShow(d) : m.seq < Len(b.rows) => m \in RowsToShow(b)
    BY <1>1, <1>2 DEF Grows
  <1>5. \A i \in DOMAIN b.rows : i \in DOMAIN d.rows /\ d.rows[i] = b.rows[i]
    BY DEF Grows
  <1>6. Len(b.rows) <= Len(d.rows) /\ End(b) <= End(d)
    BY <1>1 DEF Grows
  <1>. QED
    BY <1>3, <1>4, <1>5, <1>6 DEF Grows

\* How many messages go when one comes: the oldest, when the memory is full.
ToGo(b) == IF Len(b.mem) = MaxHistory THEN 1 ELSE 0

\* c is b with m as its last message and without its first d in memory.
Shifted(b, c, m, d) ==
    /\ Len(c.mem) = Len(b.mem) + 1 - d /\ c.base = b.base + d
    /\ \A i \in DOMAIN b.mem : i > d => i - d \in DOMAIN c.mem /\ c.mem[i - d] = b.mem[i]
    /\ Len(c.mem) \in DOMAIN c.mem /\ c.mem[Len(c.mem)] = m
    /\ \A i \in DOMAIN c.mem :
          i = Len(c.mem) \/ (i + d \in DOMAIN b.mem /\ c.mem[i] = b.mem[i + d])
    /\ c.rows = IF m.seq = NoSeq THEN b.rows ELSE Append(b.rows, m)

\* add_message keeps the order, if what it evicts is no stream event.
LEMMA AppendedOrdered ==
  ASSUME NEW b, NEW S, SoundBuffer(b, S), Ordered(b),
         NEW m \in Message, m.seq = Len(b.rows) \/ (m.seq = NoSeq /\ m.kind = "stream"),
         Len(b.mem) = MaxHistory => b.mem[1].seq # NoSeq
  PROVE  /\ Ordered(Appended(b, m))
         /\ Shifted(b, Appended(b, m), m, ToGo(b))
  <1>. DEFINE all == Append(b.mem, m)
              drop == IF Len(all) > MaxHistory THEN Len(all) - MaxHistory ELSE 0
              d == ToGo(b)
              c == Appended(b, m)
              H == MaxHistory
  <1>1. /\ b.rows \in Seq(Message) /\ b.mem \in Seq(Message) /\ b.base \in Nat
        /\ \A i \in DOMAIN b.rows : b.rows[i].seq = i - 1
        /\ Len(b.rows) \in Nat /\ Len(b.mem) \in Nat /\ H \in Nat \ {0} /\ Len(b.mem) <= H
        /\ DOMAIN b.mem = 1..Len(b.mem) /\ DOMAIN b.rows = 1..Len(b.rows)
    BY ConstantsAssumption DEF SoundBuffer, SoundRows, Ordered
  <1>2. \A i \in DOMAIN b.mem : b.mem[i].seq # NoSeq => b.mem[i].seq \in Nat
    <2>. TAKE i \in DOMAIN b.mem
    <2>1. b.mem[i] \in Message
      BY <1>1
    <2>. QED
      BY <2>1 DEF Message, Index
  <1>3. /\ all \in Seq(Message) /\ Len(all) = Len(b.mem) + 1 /\ all[Len(b.mem) + 1] = m
        /\ \A i \in DOMAIN b.mem : all[i] = b.mem[i]
    BY <1>1
  <1>. HIDE DEF all, H
  <1>4. drop = d /\ d \in {0, 1} /\ (d = 1 => Len(b.mem) = H /\ Len(b.mem) > 0)
    BY <1>1, <1>3 DEF H, ToGo
  <1>5. /\ c.mem = SubSeq(all, d + 1, Len(all))
        /\ c.rows = IF m.seq = NoSeq THEN b.rows ELSE Append(b.rows, m)
        /\ c.base = IF b.base = 0 /\ Len(all) = 1 /\ m.seq # NoSeq THEN m.seq ELSE b.base + d
    BY <1>4 DEF Appended, all
  <1>. HIDE DEF c, d, drop
  <1>6. /\ c.mem \in Seq(Message) /\ Len(c.mem) = Len(b.mem) + 1 - d
        /\ DOMAIN c.mem = 1..Len(c.mem)
        /\ \A i \in DOMAIN c.mem : c.mem[i] = all[d + i]
    <2>1. d \in Nat /\ d <= Len(all) /\ Len(all) \in Nat
      BY <1>1, <1>3, <1>4
    <2>2. \A t \in Seq(Message), n \in Nat : n <= Len(t) =>
             /\ SubSeq(t, n + 1, Len(t)) \in Seq(Message)
             /\ Len(SubSeq(t, n + 1, Len(t))) = Len(t) - n
             /\ \A i \in 1 .. Len(t) - n : SubSeq(t, n + 1, Len(t))[i] = t[n + i]
      OBVIOUS
    <2>3. /\ c.mem \in Seq(Message) /\ Len(c.mem) = Len(all) - d
          /\ \A i \in 1 .. Len(all) - d : c.mem[i] = all[d + i]
      BY <1>3, <1>5, <2>1, <2>2
    <2>4. DOMAIN c.mem = 1..Len(c.mem)
      BY <2>3
    <2>5. Len(all) = Len(b.mem) + 1 /\ Len(c.mem) = Len(b.mem) + 1 - d
      BY <1>1, <1>3, <2>1, <2>3
    <2>. QED
      BY <2>3, <2>4, <2>5
  <1>7. c.base = b.base + d
    <2>1. CASE b.base = 0 /\ Len(all) = 1 /\ m.seq # NoSeq
      <3>0. Len(b.mem) = 0
        BY <1>1, <1>3, <2>1
      <3>1. b.mem = <<>> /\ d = 0
        BY <1>1, <1>4, <3>0
      <3>2. Len(b.rows) = 0
        BY <2>1, <3>1 DEF Ordered
      <3>. QED
        BY <1>5, <2>1, <3>1, <3>2
    <2>2. CASE ~(b.base = 0 /\ Len(all) = 1 /\ m.seq # NoSeq)
      BY <1>5, <2>2
    <2>. QED
      BY <2>1, <2>2
  <1>8. \A i \in DOMAIN b.mem : i > d => i - d \in DOMAIN c.mem /\ c.mem[i - d] = b.mem[i]
    <2>. TAKE i \in DOMAIN b.mem
    <2>. HAVE i > d
    <2>1. i - d \in DOMAIN c.mem /\ d + (i - d) = i
      BY <1>1, <1>4, <1>6
    <2>. QED
      BY <1>3, <1>6, <2>1
  <1>9. Len(c.mem) \in DOMAIN c.mem /\ c.mem[Len(c.mem)] = m /\ Len(c.mem) \in Nat
    <2>1. Len(c.mem) \in DOMAIN c.mem /\ d + Len(c.mem) = Len(b.mem) + 1
      BY <1>1, <1>4, <1>6
    <2>. QED
      BY <1>3, <1>6, <2>1
  <1>10. \A i \in DOMAIN c.mem : i = Len(c.mem) \/ (i + d \in DOMAIN b.mem /\ c.mem[i] = b.mem[i + d])
    <2>. TAKE i \in DOMAIN c.mem
    <2>1. i \in 1 .. Len(c.mem) /\ Len(c.mem) = Len(b.mem) + 1 - d
      BY <1>6
    <2>2. d \in Nat /\ Len(b.mem) \in Nat
      BY <1>1, <1>4
    <2>3. i = Len(c.mem) \/ (i + d \in 1 .. Len(b.mem) /\ d + i = i + d)
      BY <2>1, <2>2
    <2>. QED
      BY <1>1, <1>3, <1>6, <2>3
  <1>11. \A i \in DOMAIN b.rows : i \in DOMAIN c.rows /\ c.rows[i] = b.rows[i]
    BY <1>1, <1>5
  <1>12. /\ Len(b.rows) <= Len(c.rows) /\ Len(c.rows) \in Nat
         /\ m.seq # NoSeq => Len(c.rows) = Len(b.rows) + 1 /\ c.rows[m.seq + 1] = m
         /\ m.seq = NoSeq => c.rows = b.rows
    BY <1>1, <1>5
  <1>13. Len(c.mem) <= MaxHistory
    BY <1>1, <1>4, <1>6 DEF d, H, ToGo
  <1>14. c.base <= Len(c.rows)
    <2>1. CASE d = 0
      BY <1>1, <1>7, <1>12, <2>1 DEF Ordered
    <2>2. CASE d = 1
      <3>1. b.mem[1].seq # NoSeq /\ 1 \in DOMAIN b.mem
        BY <1>1, <1>4, <2>2 DEF d, H, ToGo
      <3>2. b.base <= b.mem[1].seq /\ b.mem[1].seq < Len(b.rows) /\ b.mem[1].seq \in Int
        BY <1>2, <3>1 DEF Ordered
      <3>. QED
        BY <1>1, <1>7, <1>12, <2>2, <3>2
    <2>. QED
      BY <1>4, <2>1, <2>2
  \* The row that is evicted is the one at the base
  <1>15. d = 1 => b.mem[1].seq = b.base
    <2>. HAVE d = 1
    <2>1. b.mem[1].seq # NoSeq /\ 1 \in DOMAIN b.mem
      BY <1>1, <1>4 DEF d, H, ToGo
    <2>2. b.base <= b.mem[1].seq /\ b.mem[1].seq < b.base + 1 /\ b.mem[1].seq \in Int
      BY <1>2, <2>1 DEF Ordered
    <2>. QED
      BY <1>1, <2>2
  <1>16. ASSUME NEW i \in DOMAIN c.mem, c.mem[i].seq # NoSeq
         PROVE  /\ c.base <= c.mem[i].seq /\ c.mem[i].seq < c.base + i
                /\ c.mem[i].seq < Len(c.rows)
                /\ c.rows[c.mem[i].seq + 1] = c.mem[i]
    <2>1. CASE i = Len(c.mem)
      <3>1. c.mem[i] = m /\ m.seq = Len(b.rows) /\ m.seq \in Nat
        BY <1>1, <1>9, <1>16, <2>1
      <3>2. m.seq < c.base + i
        <4>1. Len(b.rows) <= End(b) /\ End(b) = b.base + Len(b.mem)
          BY RowsEnd DEF End
        <4>2. i = Len(b.mem) + 1 - d /\ c.base = b.base + d
          BY <1>6, <1>7, <2>1
        <4>3. d \in Nat /\ Len(b.mem) \in Nat /\ b.base \in Nat /\ Len(b.rows) \in Nat
          BY <1>1, <1>4
        <4>. QED
          BY <3>1, <4>1, <4>2, <4>3
      <3>3. c.base <= m.seq
        <4>1. CASE d = 0
          BY <1>1, <1>7, <3>1, <4>1 DEF Ordered
        <4>2. CASE d = 1
          <5>1. 1 \in DOMAIN b.mem /\ b.mem[1].seq # NoSeq
            BY <1>1, <1>4, <4>2 DEF d, H, ToGo
          <5>2. b.mem[1].seq < Len(b.rows)
            BY <5>1 DEF Ordered
          <5>. QED
            BY <1>1, <1>7, <1>15, <3>1, <4>2, <5>2
        <4>. QED
          BY <1>4, <4>1, <4>2
      <3>. QED
        BY <1>1, <1>12, <1>16, <3>1, <3>2, <3>3
    <2>2. CASE i # Len(c.mem)
      <3>1. i + d \in DOMAIN b.mem /\ c.mem[i] = b.mem[i + d] /\ i \in Nat \ {0}
        BY <1>6, <1>10, <2>2
      <3>2. /\ b.base <= c.mem[i].seq /\ c.mem[i].seq < b.base + (i + d)
            /\ c.mem[i].seq < Len(b.rows) /\ c.mem[i].seq \in Nat
            /\ b.rows[c.mem[i].seq + 1] = c.mem[i]
        BY <1>16, <1>2, <3>1 DEF Ordered
      <3>3. b.base + d <= c.mem[i].seq
        <4>1. CASE d = 0
          BY <1>1, <3>2, <4>1
        <4>2. CASE d = 1
          <5>1. 1 \in DOMAIN b.mem /\ b.mem[1].seq # NoSeq /\ 1 < i + d
            BY <1>1, <1>4, <3>1, <4>2 DEF d, H, ToGo
          <5>2. b.mem[1].seq < c.mem[i].seq
            BY <1>16, <3>1, <5>1 DEF Ordered
          <5>. QED
            BY <1>1, <1>15, <3>2, <4>2, <5>2
        <4>. QED
          BY <1>4, <4>1, <4>2
      <3>4. c.mem[i].seq + 1 \in DOMAIN b.rows
        BY <1>1, <3>2
      <3>5. c.rows[c.mem[i].seq + 1] = c.mem[i]
        BY <1>11, <3>2, <3>4
      <3>6. c.base <= c.mem[i].seq /\ c.mem[i].seq < c.base + i
        BY <1>1, <1>4, <1>7, <3>1, <3>2, <3>3
      <3>7. c.mem[i].seq < Len(c.rows)
        BY <1>1, <1>12, <3>2
      <3>. QED
        BY <3>5, <3>6, <3>7
    <2>. QED
      BY <2>1, <2>2
  <1>17. \A i \in DOMAIN c.mem : c.mem[i].seq = NoSeq => c.mem[i].kind = "stream"
    <2>1. m.seq = NoSeq => m.kind = "stream"
      BY <1>1 DEF NoSeq
    <2>. QED
      BY <1>9, <1>10, <2>1 DEF Ordered
  <1>18. ASSUME NEW i \in DOMAIN c.mem, NEW j \in DOMAIN c.mem, i < j,
                c.mem[i].seq # NoSeq, c.mem[j].seq # NoSeq
         PROVE  c.mem[i].seq < c.mem[j].seq
    <2>1. i # Len(c.mem)
      BY <1>6, <1>9, <1>18
    <2>2. i + d \in DOMAIN b.mem /\ c.mem[i] = b.mem[i + d] /\ b.mem[i + d].seq < Len(b.rows)
      BY <1>10, <1>18, <2>1 DEF Ordered
    <2>3. CASE j = Len(c.mem)
      BY <1>9, <1>18, <2>2, <2>3
    <2>4. CASE j # Len(c.mem)
      <3>1. j + d \in DOMAIN b.mem /\ c.mem[j] = b.mem[j + d] /\ i + d < j + d
        BY <1>4, <1>6, <1>10, <1>18, <2>4
      <3>. QED
        BY <1>18, <2>2, <3>1 DEF Ordered
    <2>. QED
      BY <2>3, <2>4
  <1>19. ASSUME NEW n \in DOMAIN c.rows, n > c.base
         PROVE  \E i \in DOMAIN c.mem : c.mem[i] = c.rows[n]
    <2>1. CASE n \in DOMAIN b.rows
      <3>1. n > b.base
        BY <1>1, <1>4, <1>7, <1>19, <2>1
      <3>2. PICK i \in DOMAIN b.mem : b.mem[i] = b.rows[n]
        BY <2>1, <3>1 DEF Ordered
      <3>3. i > d
        <4>1. b.rows[n].seq = n - 1
          BY <1>1, <2>1
        <4>2. d = 1 => b.mem[1].seq = b.base /\ n - 1 > b.base
          BY <1>1, <1>7, <1>15, <1>19, <2>1
        <4>. QED
          BY <1>1, <1>4, <2>1, <3>2, <4>1, <4>2
      <3>. QED
        BY <1>8, <1>11, <2>1, <3>2, <3>3
    <2>2. CASE n \notin DOMAIN b.rows
      <3>1. m.seq # NoSeq /\ m.seq = Len(b.rows)
        BY <1>5, <2>2
      <3>2. c.rows = Append(b.rows, m)
        BY <1>5, <3>1
      <3>3. c.rows[n] = m
        BY <1>1, <2>2, <3>2
      <3>. QED
        BY <1>9, <3>3
    <2>. QED
      BY <2>1, <2>2
  <1>20. c.mem # <<>>
    BY <1>9
  <1>21. Ordered(c)
    BY <1>13, <1>14, <1>16, <1>17, <1>18, <1>19, <1>20 DEF Ordered
  <1>. QED
    BY <1>5, <1>6, <1>7, <1>8, <1>9, <1>10, <1>21 DEF c, d, Shifted

\* add_message: what comes after a point stays after it, and the message does.
LEMMA AppendedGrows ==
  ASSUME NEW b, NEW S, SoundBuffer(b, S), Ordered(b),
         NEW m \in Message, m.seq = Len(b.rows) \/ (m.seq = NoSeq /\ m.kind = "stream"),
         Len(b.mem) = MaxHistory => b.mem[1].seq # NoSeq
  PROVE  Ordered(Appended(b, m)) /\ Grows(b, Appended(b, m)) /\ End(Appended(b, m)) = End(b) + 1
  <1>. DEFINE c == Appended(b, m)
              d == ToGo(b)
  <1>1. /\ b.rows \in Seq(Message) /\ b.mem \in Seq(Message) /\ b.base \in Nat
        /\ \A i \in DOMAIN b.rows : b.rows[i].seq = i - 1
        /\ Len(b.rows) \in Nat /\ Len(b.mem) \in Nat
        /\ DOMAIN b.mem = 1..Len(b.mem) /\ DOMAIN b.rows = 1..Len(b.rows)
    BY DEF SoundBuffer, SoundRows
  <1>2. /\ Ordered(c)
        /\ Len(c.mem) = Len(b.mem) + 1 - d /\ c.base = b.base + d
        /\ \A i \in DOMAIN b.mem : i > d => i - d \in DOMAIN c.mem /\ c.mem[i - d] = b.mem[i]
        /\ Len(c.mem) \in DOMAIN c.mem /\ c.mem[Len(c.mem)] = m
        /\ c.rows = IF m.seq = NoSeq THEN b.rows ELSE Append(b.rows, m)
    BY AppendedOrdered DEF Shifted
  <1>3. d \in {0, 1}
    BY DEF ToGo
  <1>. HIDE DEF c, d
  <1>4. End(c) = End(b) + 1 /\ End(b) \in Nat
    <2>1. End(c) = (b.base + d) + (Len(b.mem) + 1 - d) /\ End(b) = b.base + Len(b.mem)
      BY <1>2 DEF End
    <2>. QED
      BY <1>1, <1>3, <2>1
  <1>5. /\ Len(b.rows) <= Len(c.rows)
        /\ \A i \in DOMAIN b.rows : i \in DOMAIN c.rows /\ c.rows[i] = b.rows[i]
        /\ \A i \in DOMAIN c.rows : i \in DOMAIN b.rows \/ (m.seq # NoSeq /\ i = Len(b.rows) + 1 /\ c.rows[i] = m)
    BY <1>1, <1>2
  <1>6. \A x \in RowsToShow(c) : x \in RowsToShow(b) \/ (x = m /\ m.seq = Len(b.rows))
    <2>. TAKE x \in RowsToShow(c)
    <2>1. PICK i \in DOMAIN c.rows : x = c.rows[i] /\ c.rows[i].kind \in Visible
      BY DEF RowsToShow
    <2>2. CASE i \in DOMAIN b.rows
      BY <1>5, <2>1, <2>2 DEF RowsToShow
    <2>3. CASE i \notin DOMAIN b.rows
      BY <1>5, <2>1, <2>3
    <2>. QED
      BY <2>2, <2>3
  <1>7. ASSUME NEW n \in 0..End(b), NEW x \in RowsToShow(c), x \in RowsToShow(b) => Left(b, n, x)
        PROVE  Left(c, n, x)
    <2>0. n \in Nat /\ n <= End(b)
      BY <1>4
    <2>1. CASE x = m /\ m.seq = Len(b.rows)
      <3>1. CASE n < c.base
        <4>1. n <= m.seq
          BY <1>1, <1>2, <1>3, <2>0, <2>1, <3>1 DEF Ordered
        <4>. QED
          BY <2>1, <3>1, <4>1 DEF Left
      <3>2. CASE ~(n < c.base)
        <4>1. c.base + Len(c.mem) > n
          BY <1>1, <1>2, <1>3, <1>4, <2>0 DEF End
        <4>. QED
          BY <1>2, <2>1, <3>2, <4>1 DEF Left
      <3>. QED
        BY <3>1, <3>2
    <2>2. CASE x \in RowsToShow(b) /\ Left(b, n, x)
      <3>0. x.seq \in Nat /\ x.seq + 1 \in DOMAIN b.rows /\ b.rows[x.seq + 1] = x
        BY <2>2, RowToShow
      <3>1. CASE n < b.base
        <4>1. n < c.base
          BY <1>1, <1>2, <1>3, <2>0, <3>1
        <4>. QED
          BY <2>2, <3>1, <4>1 DEF Left
      <3>2. CASE ~(n < b.base)
        <4>1. PICK i \in DOMAIN b.mem : b.base + i > n /\ b.mem[i] = x
          BY <2>2, <3>2 DEF Left
        <4>2. x.seq # NoSeq
          BY <3>0 DEF NoSeq
        <4>3. b.base <= x.seq
          BY <4>2, <4>1 DEF Ordered
        <4>4. i \in Nat \ {0}
          BY <1>1, <4>1
        <4>5. CASE n < c.base
          <5>1. n <= x.seq
            BY <1>1, <1>2, <1>3, <2>0, <3>2, <4>3, <4>5
          <5>. QED
            BY <3>0, <2>0, <4>5, <5>1 DEF Left
        <4>6. CASE ~(n < c.base)
          <5>1. i > d
            BY <1>1, <1>2, <1>3, <2>0, <4>1, <4>4, <4>6
          <5>2. c.base + (i - d) > n
            BY <1>1, <1>2, <1>3, <2>0, <4>1, <4>4
          <5>. QED
            BY <1>2, <4>1, <4>6, <5>1, <5>2 DEF Left
        <4>. QED
          BY <4>5, <4>6
      <3>. QED
        BY <3>1, <3>2
    <2>. QED
      BY <1>6, <1>7, <2>1, <2>2
  <1>8. \A x \in RowsToShow(c) : x.seq < Len(b.rows) => x \in RowsToShow(b)
    BY <1>1, <1>6
  <1>9. End(b) <= End(c)
    BY <1>4
  <1>. QED
    BY <1>2, <1>4, <1>5, <1>7, <1>8, <1>9 DEF Grows, c

\* What was given before is still given, and what was in line is.
LEMMA GivenOn ==
  ASSUME NEW b, NEW c, NEW S, SoundBuffer(b, S), SoundBuffer(c, S), Ordered(b), Ordered(c), Grows(b, c),
         NEW v, NEW u, \A m \in RowsToShow(b) : Right(v, m) => Right(u, m), NEW w, NEW n \in 0..End(b)
  PROVE  /\ Filled(b, v, n) => Filled(c, u, n)
         /\ Fed(b, v, w, n) => Fed(c, u, w, n)
         /\ n \in 0..End(c)
  <1>1. n \in 0..End(c)
    BY RowsEnd DEF Grows
  <1>. QED
    BY <1>1 DEF Grows, Filled, Fed, Given

\* What is in line on the wire stays so while the buffer grows.
LEMMA InLineOn ==
  ASSUME NEW b, NEW c, NEW S, SoundBuffer(b, S), SoundBuffer(c, S), Ordered(b), Ordered(c), Grows(b, c),
         NEW v, NEW u, \A m \in RowsToShow(b) : Right(v, m) => Right(u, m),
         NEW w \in Seq(Frame), InLine(b, v, w)
  PROVE  InLine(c, u, w)
  <1>1. /\ Len(b.rows) \in Nat /\ Len(c.rows) \in Nat /\ End(b) \in Nat /\ End(c) \in Nat
        /\ Len(b.rows) <= Len(c.rows) /\ End(b) <= End(c)
        /\ DOMAIN b.rows = 1..Len(b.rows)
    <2>1. b.rows \in Seq(Message)
      BY DEF SoundBuffer
    <2>. QED
      BY <2>1, RowsEnd DEF Grows
  <1>. SUFFICES ASSUME NEW i \in DOMAIN w
                PROVE  /\ FrameOf(c, w[i])
                       /\ \A m \in RowsToShow(c) : Later(c, w[i], m) \/ Right(u, m) \/ Ahead(w, i - 1, m)
    BY DEF InLine
  <1>2. w[i].index \in Nat
    <2>1. w[i] \in Frame
      OBVIOUS
    <2>. QED
      BY <2>1 DEF Frame
  <1>3. /\ FrameOf(b, w[i])
        /\ \A m \in RowsToShow(b) : Later(b, w[i], m) \/ Right(v, m) \/ Ahead(w, i - 1, m)
    BY DEF InLine
  <1>4. FrameOf(c, w[i])
    <2>1. w[i].index <= End(c)
      BY <1>1, <1>2, <1>3 DEF FrameOf
    <2>2. w[i].kind \in Visible => w[i].index + 1 \in DOMAIN b.rows /\ w[i].index < Len(c.rows)
      BY <1>1, <1>2, <1>3 DEF FrameOf
    <2>. QED
      BY <1>3, <2>1, <2>2 DEF FrameOf, Grows
  <1>5. ASSUME NEW m \in RowsToShow(c)
        PROVE  Later(c, w[i], m) \/ Right(u, m) \/ Ahead(w, i - 1, m)
    <2>0. m.seq \in Nat
      BY RowToShow
    <2>1. CASE w[i].kind \in Visible
      <3>1. CASE m.seq < Len(b.rows)
        BY <1>3, <2>1, <3>1 DEF Grows, Later
      <3>2. CASE ~(m.seq < Len(b.rows))
        <4>1. m.seq >= w[i].index
          BY <1>1, <1>2, <1>3, <2>0, <2>1, <3>2 DEF FrameOf
        <4>. QED
          BY <2>1, <4>1 DEF Later
      <3>. QED
        BY <3>1, <3>2
    <2>2. CASE w[i].kind \notin Visible
      <3>1. w[i].index \in 0..End(b)
        BY <1>1, <1>2, <1>3 DEF FrameOf
      <3>2. CASE m \in RowsToShow(b)
        <4>1. Left(b, w[i].index, m) \/ Right(v, m) \/ Ahead(w, i - 1, m)
          BY <1>3, <2>2, <3>2 DEF Later
        <4>. QED
          BY <2>2, <3>1, <3>2, <4>1 DEF Later, Grows
      <3>3. CASE m \notin RowsToShow(b)
        BY <2>2, <3>1, <3>3 DEF Later, Grows
      <3>. QED
        BY <3>2, <3>3
    <2>. QED
      BY <2>1, <2>2
  <1>. QED
    BY <1>4, <1>5

-----------------------------------------------------------------------------
(* No stream event is evicted. *)

\* A message finds room, or evicts a message of the table.
LEMMA AppendedLasts ==
  ASSUME NEW b, NEW S, SoundBuffer(b, S), Ordered(b),
         NEW m \in Message, m.seq = Len(b.rows) \/ (m.seq = NoSeq /\ m.kind = "stream"),
         (NoStreams(b) /\ m.seq # NoSeq) \/ Room(b, 1)
  PROVE  /\ Ordered(Appended(b, m)) /\ Grows(b, Appended(b, m))
         /\ (NoStreams(b) /\ m.seq # NoSeq) => NoStreams(Appended(b, m))
         /\ Room(b, 1) => /\ Appended(b, m).base = 0
                          /\ Len(Appended(b, m).mem) = Len(b.mem) + 1
  <1>. DEFINE c == Appended(b, m)
              d == ToGo(b)
  <1>1. b.mem \in Seq(Message) /\ Len(b.mem) \in Nat /\ MaxHistory \in Nat \ {0} /\ b.base \in Nat
    BY ConstantsAssumption DEF SoundBuffer
  <1>2. Len(b.mem) = MaxHistory => b.mem[1].seq # NoSeq
    BY <1>1 DEF NoStreams, Room
  <1>3. Ordered(c) /\ Grows(b, c)
    BY <1>2, AppendedGrows
  <1>4. /\ Len(c.mem) = Len(b.mem) + 1 - d /\ c.base = b.base + d
        /\ c.mem[Len(c.mem)] = m
        /\ \A i \in DOMAIN c.mem : i = Len(c.mem) \/ (i + d \in DOMAIN b.mem /\ c.mem[i] = b.mem[i + d])
    <2>1. Shifted(b, c, m, d)
      BY <1>2, AppendedOrdered
    <2>. QED
      BY <2>1 DEF Shifted
  <1>5. (NoStreams(b) /\ m.seq # NoSeq) => NoStreams(c)
    BY <1>4 DEF NoStreams
  <1>6. ASSUME Room(b, 1) PROVE c.base = 0 /\ Len(c.mem) = Len(b.mem) + 1
    <2>1. d = 0
      BY <1>1, <1>6 DEF Room, ToGo
    <2>. HIDE DEF d, c
    <2>. QED
      BY <1>1, <1>4, <1>6, <2>1 DEF Room
  <1>. QED
    BY <1>3, <1>5, <1>6

\* The chat message and the running that handle_ws adds.
LEMMA AnnouncedLasts ==
  ASSUME NEW b, NEW S, SoundBuffer(b, S), Ordered(b), NEW p \in Prompt, p \in S \ AuthorsOf(b.rows),
         NoStreams(b) \/ Room(b, 2)
  PROVE  /\ Ordered(Announced(b, p)) /\ Grows(b, Announced(b, p))
         /\ NoStreams(b) => NoStreams(Announced(b, p))
         /\ Room(b, 2) => /\ Announced(b, p).base = 0
                          /\ Len(Announced(b, p).mem) = Len(b.mem) + 2
         /\ Len(Announced(b, p).rows) = Len(b.rows) + 2
         /\ Announced(b, p).rows[Len(b.rows) + 1] = Numbered(b, "user", p)
         /\ Announced(b, p).rows[Len(b.rows) + 2].kind = "running"
  <1>. DEFINE m == Numbered(b, "user", p)
              said == Appended(b, m)
              n == Numbered(said, "running", NoPrompt)
              c == Appended(said, n)
  <1>0. b.rows \in Seq(Message) /\ Len(b.rows) \in Nat /\ Len(b.mem) \in Nat /\ b.base \in Nat
        /\ MaxHistory \in Nat
    BY ConstantsAssumption DEF SoundBuffer
  <1>1. /\ m \in Message /\ m.seq = Len(b.rows) /\ m.seq # NoSeq /\ m.kind = "user" /\ m.who = p
    BY <1>0 DEF Numbered, Message, Index, Stored, Visible, NoSeq
  <1>2. Announced(b, p) = c
    BY DEF Announced
  <1>. HIDE DEF m
  <1>3. SoundBuffer(said, S)
    BY <1>1, AppendedSound
  <1>4. /\ Ordered(said) /\ Grows(b, said)
        /\ NoStreams(b) => NoStreams(said)
        /\ Room(b, 1) => said.base = 0 /\ Len(said.mem) = Len(b.mem) + 1
    <2>1. Room(b, 2) => Room(b, 1)
      BY <1>0 DEF Room
    <2>. QED
      BY <1>1, <2>1, AppendedLasts
  <1>5. said.rows = Append(b.rows, m)
    BY <1>1 DEF Appended
  <1>. HIDE DEF said
  <1>6. said.rows \in Seq(Message) /\ Len(said.rows) = Len(b.rows) + 1 /\ said.rows[Len(b.rows) + 1] = m
    BY <1>0, <1>1, <1>5
  <1>7. n \in Message /\ n.seq = Len(said.rows) /\ n.seq # NoSeq /\ n.kind = "running"
    BY <1>0, <1>6 DEF Numbered, Message, Index, Stored, Visible, NoSeq
  <1>8. Room(b, 2) => Room(b, 1) /\ Room(said, 1)
    BY <1>0, <1>4 DEF Room
  <1>9. c.rows = Append(said.rows, n)
    BY <1>7 DEF Appended
  <1>. HIDE DEF n
  <1>10. /\ SoundBuffer(c, S)
         /\ Ordered(c) /\ Grows(said, c)
         /\ NoStreams(said) => NoStreams(c)
         /\ Room(said, 1) => c.base = 0 /\ Len(c.mem) = Len(said.mem) + 1
    <2>1. SoundBuffer(c, S)
      BY <1>3, <1>7, AppendedSound
    <2>. QED
      BY <1>3, <1>4, <1>7, <1>8, <2>1, AppendedLasts
  <1>. HIDE DEF c
  <1>11. Grows(b, c)
    BY <1>3, <1>4, <1>10, GrowsOn
  <1>12. /\ Len(c.rows) = Len(b.rows) + 2 /\ c.rows[Len(b.rows) + 1] = m
         /\ c.rows[Len(b.rows) + 2] = n
    BY <1>0, <1>6, <1>7, <1>9
  <1>13. Room(b, 2) => c.base = 0 /\ Len(c.mem) = Len(b.mem) + 2
    BY <1>0, <1>4, <1>8, <1>10
  <1>. QED
    BY <1>2, <1>4, <1>7, <1>10, <1>11, <1>12, <1>13 DEF m

\* There are no more authors than there are chat messages.
LEMMA AuthorsCounted ==
  ASSUME IInv, Roomy
  PROVE  /\ Cardinality(Prompt) \in Nat
         /\ \A A, B : (A \subseteq B /\ B \subseteq Prompt) =>
               /\ Cardinality(A) \in Nat /\ Cardinality(B) \in Nat
               /\ Cardinality(A) <= Cardinality(B) /\ Cardinality(B) <= Cardinality(Prompt)
               /\ A # B => Cardinality(A) + 1 <= Cardinality(B)
  <1>1. IsFiniteSet(Prompt)
    BY DEF Roomy
  <1>2. \A A, B : (A \subseteq B /\ B \subseteq Prompt) =>
           /\ Cardinality(A) \in Nat /\ Cardinality(B) \in Nat
           /\ Cardinality(A) <= Cardinality(B) /\ Cardinality(B) <= Cardinality(Prompt)
           /\ A # B => Cardinality(A) + 1 <= Cardinality(B)
    <2>. TAKE A, B
    <2>. HAVE A \subseteq B /\ B \subseteq Prompt
    <2>1. IsFiniteSet(B) /\ Cardinality(B) <= Cardinality(Prompt)
      BY <1>1, FS_Subset
    <2>2. IsFiniteSet(A) /\ Cardinality(A) <= Cardinality(B)
      BY <2>1, FS_Subset
    <2>3. Cardinality(A) \in Nat /\ Cardinality(B) \in Nat
      BY <2>1, <2>2, FS_CardinalityType
    <2>4. A # B => Cardinality(A) # Cardinality(B)
      BY <2>1, FS_Subset
    <2>. QED
      BY <2>1, <2>2, <2>3, <2>4
  <1>. QED
    BY <1>1, <1>2, FS_CardinalityType

\* The authors of a table that grows stay.
LEMMA AuthorsStay ==
  ASSUME NEW b, NEW c, Grows(b, c)
  PROVE  AuthorsOf(b.rows) \subseteq AuthorsOf(c.rows)
  BY DEF Grows, AuthorsOf

\* A counter that is spent was below its bound.
LEMMA SpentOne ==
  ASSUME TypeOK, NEW what \in {"text", "stream", "drop", "reload", "restart"}, NEW bound \in Nat,
         Spend(what, bound)
  PROVE  /\ count[what] + 1 <= bound /\ count'[what] = count[what] + 1 /\ count[what] \in Nat
         /\ \A x \in {"text", "stream", "drop", "reload", "restart"} :
               x # what => count'[x] = count[x] /\ count[x] \in Nat
  BY DEF TypeOK, Spend

\* What an agent adds has room, or evicts no stream event.
LEMMA AgentLasts ==
  ASSUME IInv, Calm, Ordered(buf), Lasting, Turns, Agent
  PROVE  /\ Ordered(buf') /\ Grows(buf, buf') /\ Lasting'
         /\ SoundBuffer(buf, sent) /\ SoundBuffer(buf', sent)
         /\ live
         /\ \E kind \in {"text", "stream", "completed", "result"} :
               /\ Works(IF kind = "stream" THEN StreamEvent ELSE Numbered(buf, kind, NoPrompt))
               /\ buf'.rows = IF kind = "stream" THEN buf.rows
                              ELSE Append(buf.rows, Numbered(buf, kind, NoPrompt))
               /\ kind # "result" => ~Done
               /\ kind = "result" => Done /\ ~live' /\ state' = state
               /\ kind = "completed" => live' /\ Done'
               /\ kind \in {"text", "stream"} => live' /\ state' = state
  <1>0. TypeOK /\ SoundBuffer(buf, sent) /\ buf.rows \in Seq(Message) /\ IInv'
    BY AgentStep DEF IInv, SoundBuffer
  <1>1. SoundBuffer(buf', sent)
    BY <1>0 DEF IInv, Agent, Text, Stream, Complete, Finish, Works
  <1>. DEFINE message(kind) == IF kind = "stream" THEN StreamEvent ELSE Numbered(buf, kind, NoPrompt)
  <1>2. PICK kind \in {"text", "stream", "completed", "result"} :
           /\ Works(message(kind))
           /\ live
           /\ kind # "result" => ~Done
           /\ kind = "result" => Done /\ ~live' /\ state' = state
           /\ kind = "completed" => live' /\ Done'
           /\ kind \in {"text", "stream"} => live' /\ state' = state
           /\ kind = "text" => Spend("text", MaxTexts)
           /\ kind = "stream" => Spend("stream", MaxStreams)
           /\ kind \in {"completed", "result"} => UNCHANGED count
    <2>1. CASE Text
      BY <2>1 DEF Text
    <2>2. CASE Stream
      BY <2>2 DEF Stream
    <2>3. CASE Complete
      BY <2>3 DEF Complete, Done, Terminal
    <2>4. CASE Finish
      BY <2>4 DEF Finish
    <2>. QED
      BY <2>1, <2>2, <2>3, <2>4 DEF Agent
  <1>. DEFINE m == message(kind)
  <1>3. /\ m \in Message
        /\ kind # "stream" => m.seq = Len(buf.rows) /\ m.seq # NoSeq
        /\ kind = "stream" => m.seq = NoSeq /\ m.kind = "stream"
    BY <1>0 DEF Numbered, StreamEvent, Message, Index, Stored, Visible, NoSeq
  <1>4. buf' = Appended(buf, m)
    BY <1>2 DEF Works
  <1>. HIDE DEF m
  <1>5. buf'.rows = IF kind = "stream" THEN buf.rows ELSE Append(buf.rows, m)
    BY <1>3, <1>4 DEF Appended
  <1>6. MaxStreams \in Nat /\ MaxTexts \in Nat /\ count["text"] \in Nat /\ count["stream"] \in Nat
        /\ Len(buf.mem) \in Nat /\ MaxHistory \in Nat
    <2>1. buf.mem \in Seq(Message)
      BY <1>0 DEF SoundBuffer
    <2>. QED
      BY <1>0, <2>1, ConstantsAssumption DEF TypeOK
  <1>7. CASE MaxStreams = 0 /\ NoStreams(buf)
    <2>1. kind # "stream"
      <3>. SUFFICES ASSUME kind = "stream" PROVE FALSE
        OBVIOUS
      <3>1. count["stream"] + 1 <= MaxStreams
        BY <1>0, <1>2, <1>6, SpentOne
      <3>. QED
        BY <1>6, <1>7, <3>1
    <2>2. Ordered(buf') /\ Grows(buf, buf') /\ NoStreams(buf')
      BY <1>0, <1>3, <1>4, <1>7, <2>1, AppendedLasts
    <2>3. Lasting'
      BY <1>7, <2>2 DEF Lasting
    <2>. QED
      BY <1>0, <1>1, <1>2, <1>5, <2>2, <2>3 DEF m
  <1>8. CASE Roomy /\ buf.base = 0 /\ Counted
    <2>. DEFINE A == AuthorsOf(buf.rows)
                B == AuthorsOf(buf'.rows)
                P == Cardinality(Prompt)
                T == count["text"]
                S == count["stream"]
                t == count'["text"]
                s == count'["stream"]
    <2>1. /\ P \in Nat
          /\ A \subseteq Prompt => Cardinality(A) \in Nat /\ Cardinality(A) <= P
          /\ (A \subseteq B /\ B \subseteq Prompt) =>
                Cardinality(B) \in Nat /\ Cardinality(A) <= Cardinality(B)
      BY <1>8, AuthorsCounted
    <2>2. A \subseteq Prompt /\ B \subseteq Prompt
      BY <1>0, <1>1 DEF SoundBuffer, TypeOK
    <2>3. /\ T <= MaxTexts /\ S <= MaxStreams
          /\ Len(buf.mem) + Stages <= 4 * Cardinality(A) + T + S
          /\ 4 * P + MaxTexts + MaxStreams <= MaxHistory
      BY <1>8 DEF Counted, Roomy
    <2>4. /\ t \in Nat /\ s \in Nat /\ t <= MaxTexts /\ s <= MaxStreams
          /\ kind = "text" => t = T + 1 /\ s = S
          /\ kind = "stream" => t = T /\ s = S + 1
          /\ kind \in {"completed", "result"} => t = T /\ s = S
      <3>1. kind = "text" => t = T + 1 /\ s = S /\ T + 1 <= MaxTexts
        BY <1>0, <1>2, <1>6, SpentOne
      <3>2. kind = "stream" => t = T /\ s = S + 1 /\ S + 1 <= MaxStreams
        BY <1>0, <1>2, <1>6, SpentOne
      <3>3. kind \in {"completed", "result"} => t = T /\ s = S
        BY <1>2
      <3>. QED
        BY <1>6, <2>3, <3>1, <3>2, <3>3
    <2>5. /\ Stages = IF Done THEN 1 ELSE 2
          /\ Stages' = IF kind = "result" THEN 0 ELSE IF kind = "completed" THEN 1 ELSE 2
      BY <1>2 DEF Stages, Done
    <2>. HIDE DEF A, B, P, T, S, t, s
    <2>6. Room(buf, 1)
      <3>1. Cardinality(A) \in Nat /\ Cardinality(A) <= P
        BY <2>1, <2>2
      <3>2. T \in Nat /\ S \in Nat
        BY <1>6 DEF T, S
      <3>3. \A L, g, a, H \in Nat : (L + g <= 4 * a + T + S /\ g >= 1 /\ a <= P
                  /\ 4 * P + MaxTexts + MaxStreams <= H) => L + 1 <= H
        BY <1>6, <2>1, <2>3, <3>2
      <3>4. Stages \in Nat /\ Stages >= 1
        BY <2>5
      <3>5. Len(buf.mem) + 1 <= MaxHistory
        BY <1>6, <2>3, <3>1, <3>3, <3>4
      <3>. QED
        BY <1>8, <3>5 DEF Room
    <2>7. /\ Ordered(buf') /\ Grows(buf, buf')
          /\ buf'.base = 0 /\ Len(buf'.mem) = Len(buf.mem) + 1
      BY <1>0, <1>3, <1>4, <2>6, AppendedLasts
    <2>8. Counted'
      <3>1. A \subseteq B
        BY <2>7, AuthorsStay DEF A, B
      <3>2. /\ Cardinality(A) \in Nat /\ Cardinality(B) \in Nat /\ Cardinality(A) <= Cardinality(B)
            /\ T \in Nat /\ S \in Nat
        BY <1>6, <2>1, <2>2, <3>1 DEF T, S
      <3>3. Stages \in Nat /\ Stages' \in Nat /\ Stages' + 1 + T + S = Stages + t + s
        <4>1. CASE kind \in {"text", "stream"}
          <5>1. Stages = 2 /\ Stages' = 2
            BY <1>2, <2>5, <4>1
          <5>2. t + s = T + S + 1
            BY <2>4, <3>2, <4>1
          <5>. QED
            BY <2>4, <3>2, <5>1, <5>2
        <4>2. CASE kind = "completed"
          <5>1. Stages = 2 /\ Stages' = 1 /\ t = T /\ s = S
            BY <1>2, <2>4, <2>5, <4>2
          <5>. QED
            BY <3>2, <5>1
        <4>3. CASE kind = "result"
          <5>1. Stages = 1 /\ Stages' = 0 /\ t = T /\ s = S
            BY <1>2, <2>4, <2>5, <4>3
          <5>. QED
            BY <3>2, <5>1
        <4>. QED
          BY <4>1, <4>2, <4>3
      <3>4. \A L, g, h, a, c \in Nat : (L + g <= 4 * a + T + S /\ h + 1 + T + S = g + t + s /\ a <= c)
                  => (L + 1) + h <= 4 * c + t + s
        BY <2>4, <3>2
      <3>5. Len(buf'.mem) + Stages' <= 4 * Cardinality(B) + t + s
        BY <1>6, <2>3, <2>7, <3>2, <3>3, <3>4
      <3>. QED
        BY <2>4, <3>5 DEF Counted, B, t, s
    <2>9. Lasting'
      BY <1>8, <2>7, <2>8 DEF Lasting, Roomy
    <2>. QED
      BY <1>0, <1>1, <1>2, <1>5, <2>7, <2>9 DEF m
  <1>. QED
    BY <1>7, <1>8 DEF Lasting

-----------------------------------------------------------------------------
(* An agent at work leaves no gap. *)

\* The rows of a table that grows: those it had, and new ones behind.
LEMMA RowsGrown ==
  ASSUME NEW b, NEW c, NEW S, SoundBuffer(b, S), SoundBuffer(c, S), Grows(b, c)
  PROVE  /\ RowsToShow(b) \subseteq RowsToShow(c)
         /\ \A m \in RowsToShow(c) : m \in RowsToShow(b) \/ m.seq >= Len(b.rows)
         /\ \A m \in RowsToShow(b) : m.seq < Len(b.rows) /\ m.seq \in Nat
  <1>1. RowsToShow(b) \subseteq RowsToShow(c)
    BY DEF RowsToShow, Grows
  <1>2. \A m \in RowsToShow(c) : m.seq \in Nat
    BY RowToShow
  <1>3. Len(b.rows) \in Nat /\ \A m \in RowsToShow(c) : m.seq \in Nat
    BY <1>2 DEF SoundBuffer
  <1>4. \A m \in RowsToShow(c) : m \in RowsToShow(b) \/ m.seq >= Len(b.rows)
    BY <1>3 DEF Grows
  <1>. QED
    BY <1>1, <1>4, RowToShow

\* The numbers of a state.
LEMMA Numbers ==
  ASSUME IInv, Gapless
  PROVE  /\ SoundBuffer(buf, sent)
         /\ Len(buf.rows) \in Nat /\ End(buf) \in Nat /\ Len(buf.rows) <= End(buf)
         /\ lastSeq \in 0..End(buf) /\ known \in 0..End(buf)
         /\ loop \in Watching => lastSeen \in 0..End(buf)
         /\ \A i \in DOMAIN inbox : inbox[i] \in Request /\ inbox[i].last \in Nat
         /\ \A v \in view : v.index \in Nat /\ v.id \in Nat \cup Prompt
         /\ wire \in Seq(Frame)
  <1>0. TypeOK /\ SoundBuffer(buf, sent)
    BY DEF IInv
  <1>1. Len(buf.rows) \in Nat /\ End(buf) \in Nat /\ Len(buf.rows) <= End(buf)
    BY <1>0, RowsEnd DEF Gapless
  <1>2. lastSeq \in Nat /\ known \in Nat /\ lastSeen \in Nat
    BY <1>0 DEF TypeOK
  <1>3. \A i \in DOMAIN inbox : inbox[i] \in Request /\ inbox[i].last \in Nat
    <2>. TAKE i \in DOMAIN inbox
    <2>1. inbox \in Seq(Request)
      BY <1>0 DEF TypeOK
    <2>2. inbox[i] \in Request
      BY <2>1
    <2>. QED
      BY <2>2 DEF Request
  <1>4. \A v \in view : v.index \in Nat /\ v.id \in Nat \cup Prompt
    BY <1>0 DEF TypeOK
  <1>5. lastSeq <= End(buf) /\ known <= Len(buf.rows) /\ (loop \in Watching => lastSeen <= End(buf))
    BY DEF Gapless, Follows, KnownLast
  <1>. QED
    BY <1>0, <1>1, <1>2, <1>3, <1>4, <1>5 DEF TypeOK

\* What is shown is a row, if it is no message on its way.
LEMMA BasedBelow ==
  ASSUME SoundBuffer(buf, sent), NEW v, v.index \in Nat, Based(v), ~Chat(v.id)
  PROVE  v.index < Len(buf.rows)
  <1>1. buf.rows \in Seq(Message)
    BY DEF SoundBuffer
  <1>2. \A i \in DOMAIN buf.rows : i \in Nat /\ i <= Len(buf.rows) /\ Len(buf.rows) \in Nat
    BY <1>1
  <1>. QED
    BY <1>2, RowToShow DEF Based

\* An agent that adds a text, a stream event, its completed or its result.
LEMMA AgentGapless == IInv /\ Calm /\ Gapless /\ Agent => Gapless'
  <1>. SUFFICES ASSUME IInv, Calm, Gapless, Agent PROVE Gapless'
    OBVIOUS
  <1>. DEFINE N == Len(buf.rows)
              New(kind) == Numbered(buf, kind, NoPrompt)
  <1>0. /\ Ordered(buf) /\ Lasting /\ Turns /\ InLine(buf, view, wire)
        /\ Asked /\ Settled /\ Young /\ KnownLast /\ Idle /\ Follows
    BY DEF Gapless
  <1>1. /\ Ordered(buf') /\ Grows(buf, buf') /\ Lasting'
        /\ SoundBuffer(buf, sent) /\ SoundBuffer(buf', sent) /\ live
    BY <1>0, AgentLasts
  <1>2. PICK kind \in {"text", "stream", "completed", "result"} :
           /\ Works(IF kind = "stream" THEN StreamEvent ELSE New(kind))
           /\ buf'.rows = IF kind = "stream" THEN buf.rows ELSE Append(buf.rows, New(kind))
           /\ kind # "result" => ~Done
           /\ kind = "result" => Done /\ ~live' /\ state' = state
           /\ kind = "completed" => live' /\ Done'
           /\ kind \in {"text", "stream"} => live' /\ state' = state
    BY <1>0, AgentLasts
  <1>3. UNCHANGED <<sent, loop, turn, lastSeen, inbox, wire, status, ask, answer, lastSeq, view, known>>
    BY <1>2 DEF Works, loops, page
  <1>4. /\ Len(buf.rows) \in Nat /\ End(buf) \in Nat /\ Len(buf.rows) <= End(buf)
        /\ lastSeq \in 0..End(buf) /\ known \in 0..End(buf)
        /\ loop \in Watching => lastSeen \in 0..End(buf)
        /\ \A i \in DOMAIN inbox : inbox[i].last \in Nat
        /\ \A v \in view : v.index \in Nat
        /\ wire \in Seq(Frame)
    BY Numbers
  <1>5. /\ RowsToShow(buf) \subseteq RowsToShow(buf')
        /\ \A m \in RowsToShow(buf') : m \in RowsToShow(buf) \/ m.seq >= N
        /\ \A m \in RowsToShow(buf) : m.seq < N /\ m.seq \in Nat
        /\ \A m \in RowsToShow(buf') : m.seq \in Nat
    BY <1>1, RowsGrown, RowToShow
  <1>6. /\ kind # "stream" => /\ Len(buf'.rows) = N + 1 /\ buf'.rows[N + 1] = New(kind)
                              /\ N > 0 => buf'.rows[N] = buf.rows[N]
        /\ kind = "stream" => buf'.rows = buf.rows
        /\ Len(buf'.rows) \in Nat /\ N <= Len(buf'.rows)
    <2>1. buf.rows \in Seq(Message) /\ buf'.rows \in Seq(Message)
      BY <1>1 DEF SoundBuffer
    <2>. HIDE DEF New
    <2>. QED
      BY <1>2, <2>1
  <1>7. New(kind).kind = kind /\ New(kind).seq = N
    BY DEF Numbered
  <1>. HIDE DEF New
  <1>8. \A m \in RowsToShow(buf') : m \in RowsToShow(buf) \/ (m.seq = N /\ m = New(kind))
    <2>. TAKE m \in RowsToShow(buf')
    <2>1. m.seq < Len(buf'.rows) /\ buf'.rows[m.seq + 1] = m
      BY <1>1, RowToShow
    <2>2. CASE kind = "stream"
      BY <1>6, <2>2 DEF RowsToShow
    <2>3. CASE kind # "stream"
      <3>1. m.seq >= N => m.seq = N
        BY <1>4, <1>5, <1>6, <2>1, <2>3
      <3>. QED
        BY <1>5, <1>6, <2>1, <2>3, <3>1
    <2>. QED
      BY <2>2, <2>3
  <1>9. /\ \A n \in 0..End(buf) : Filled(buf, view, n) => Filled(buf', view, n)
        /\ \A n \in 0..End(buf) : Fed(buf, view, wire, n) => Fed(buf', view, wire, n)
        /\ \A n \in 0..End(buf) : n \in 0..End(buf')
    BY <1>0, <1>1, GivenOn
  <1>10. End(buf') \in Nat
    BY <1>1, RowsEnd
  <1>11. Turns'
    <2>1. N > 1 /\ IF Done THEN buf.rows[N].kind = "completed" ELSE state = "running"
      BY <1>0, <1>1 DEF Turns
    <2>2. CASE kind \in {"text", "stream"}
      <3>1. live' /\ ~Done' /\ state' = "running" /\ Len(buf'.rows) > 1
        BY <1>2, <1>4, <1>6, <2>1, <2>2 DEF Done
      <3>. QED
        BY <3>1 DEF Turns
    <2>3. CASE kind = "completed"
      <3>1. live' /\ Done' /\ Len(buf'.rows) > 1 /\ buf'.rows[Len(buf'.rows)].kind = "completed"
        BY <1>2, <1>4, <1>6, <1>7, <2>1, <2>3
      <3>. QED
        BY <3>1 DEF Turns
    <2>4. CASE kind = "result"
      <3>1. ~live' /\ Done /\ state' = state
        BY <1>2, <2>4
      <3>2. Done'
        BY <3>1 DEF Done
      <3>3. Len(buf'.rows) = N + 1 /\ buf'.rows[N + 1].kind = "result" /\ buf'.rows[N].kind = "completed"
        BY <1>4, <1>6, <1>7, <2>1, <2>4, <3>1
      <3>4. Len(buf'.rows) > 2 /\ Len(buf'.rows) - 1 = N
        BY <1>4, <2>1, <3>3
      <3>. QED
        BY <3>1, <3>2, <3>3, <3>4 DEF Turns
    <2>. QED
      BY <2>2, <2>3, <2>4
  <1>12. InLine(buf', view', wire')
    <2>1. InLine(buf', view, wire)
      BY <1>0, <1>1, <1>4, InLineOn
    <2>. QED
      BY <1>3, <2>1
  <1>13. \A i \in DOMAIN inbox : inbox[i].type # "chat"
    BY <1>0, <1>1 DEF Asked
  <1>14. Asked'
    <2>. SUFFICES ASSUME NEW i \in DOMAIN inbox
                  PROVE  /\ inbox[i].last <= End(buf') /\ Fed(buf', view, wire, inbox[i].last)
                         /\ inbox[i].type = "resume" => status = "recovered"
      BY <1>3, <1>13 DEF Asked
    <2>1. inbox[i].last <= End(buf) /\ Fed(buf, view, wire, inbox[i].last)
      BY <1>0, <1>13 DEF Asked
    <2>2. inbox[i].last \in 0..End(buf)
      BY <1>4, <2>1
    <2>3. inbox[i].last \in 0..End(buf')
      BY <1>9, <2>2
    <2>. QED
      BY <1>0, <1>9, <1>10, <2>1, <2>2, <2>3 DEF Asked
  <1>15. Settled'
    <2>. SUFFICES ASSUME NEW v \in view
                  PROVE  /\ Based(v)'
                         /\ \A m \in RowsToShow(buf') : m.seq <= v.index => Right(view, m)
                         /\ v.id \notin Prompt => v.id = v.index /\ v.index < Len(buf'.rows)
      BY <1>3 DEF Settled
    <2>1. /\ Based(v)
          /\ \A m \in RowsToShow(buf) : m.seq <= v.index => Right(view, m)
          /\ v.id \notin Prompt => v.id = v.index /\ v.index < N
      BY <1>0 DEF Settled
    <2>2. ~Chat(v.id)
      BY <1>13 DEF Chat
    <2>3. v.index \in Nat /\ v.index < N
      BY <1>1, <1>4, <2>1, <2>2, BasedBelow
    <2>4. Based(v)'
      <3>1. CASE \E m \in RowsToShow(buf) : m.seq = v.index
        BY <1>5, <3>1 DEF Based
      <3>2. CASE \E i \in DOMAIN buf.rows : buf.rows[i].kind = "running" /\ i > v.index
        BY <1>1, <3>2 DEF Based, Grows
      <3>3. CASE v.index < Len(buf.rows) /\ loop # "subscribe" /\ ~Resting
        <4>1. loop' # "subscribe" /\ ~Resting'
          BY <1>3, <3>3 DEF Resting
        <4>2. v.index < Len(buf'.rows)
          BY <1>4, <1>6, <2>3
        <4>. QED
          BY <4>1, <4>2 DEF Based
      <3>. QED
        BY <2>1, <2>2, <3>1, <3>2, <3>3 DEF Based
    <2>5. \A m \in RowsToShow(buf') : m.seq <= v.index => Right(view, m)
      BY <1>4, <1>5, <2>1, <2>3
    <2>. QED
      BY <1>4, <1>6, <2>1, <2>3, <2>4, <2>5
  <1>16. Young'
    <2>. SUFFICES ASSUME answer # Taken, NEW v \in view, NEW m \in RowsToShow(buf'), RowId(m) = v.id
                  PROVE  v.index >= m.seq
      BY <1>3 DEF Young
    <2>1. CASE m \in RowsToShow(buf)
      BY <1>0, <2>1 DEF Young
    <2>2. CASE m = New(kind)
      <3>1. RowId(m) = N /\ m.seq = N
        BY <1>2, <1>7, <2>2 DEF RowId
      <3>2. v.id \notin Prompt
        BY <1>4, <3>1, ConstantsAssumption
      <3>3. v.id = v.index
        BY <1>0, <3>2 DEF Settled
      <3>4. v.index = m.seq
        BY <3>1, <3>3
      <3>. QED
        BY <1>4, <3>1, <3>4
    <2>. QED
      BY <1>8, <2>1, <2>2
  <1>17. KnownLast'
    <2>1. known <= N /\ known \in 0..End(buf) /\ (ask = "known" => view # {})
      BY <1>0, <1>4 DEF KnownLast
    <2>2. known <= Len(buf'.rows)
      BY <1>4, <1>6, <2>1
    <2>3. \/ Filled(buf', view, known)
          \/ view = {} /\ answer # Taken /\ (answer # NotAsked => known <= answer.rows)
      BY <1>0, <1>9, <2>1 DEF KnownLast
    <2>. QED
      BY <1>3, <2>1, <2>2, <2>3 DEF KnownLast
  <1>18. Idle'
    <2>. SUFFICES ASSUME Resting
                  PROVE  /\ answer = Taken /\ Done'
                         /\ \A m \in RowsToShow(buf') : live' \/ m.seq < Len(buf'.rows) - 1 => Given(view, wire, m)
      BY <1>3 DEF Idle, Resting
    <2>1. answer = Taken /\ Done /\ \A m \in RowsToShow(buf) : Given(view, wire, m)
      BY <1>0, <1>1 DEF Idle
    <2>2. kind = "result" /\ ~live' /\ state' = state
      BY <1>2, <2>1
    <2>3. Done'
      BY <2>1, <2>2 DEF Done
    <2>4. \A m \in RowsToShow(buf') : m.seq < Len(buf'.rows) - 1 => m \in RowsToShow(buf)
      BY <1>4, <1>5, <1>6, <2>2
    <2>. QED
      BY <2>1, <2>2, <2>3, <2>4
  <1>19. Follows'
    <2>1. loop \in Watching => lastSeen \in 0..End(buf') /\ Fed(buf', view, wire, lastSeen)
      BY <1>0, <1>4, <1>9 DEF Follows
    <2>2. lastSeq \in 0..End(buf') /\ Filled(buf', view, lastSeq)
      BY <1>0, <1>4, <1>9 DEF Follows
    <2>3. loop \in Watching => lastSeen <= End(buf')
      BY <1>10, <2>1
    <2>4. lastSeq <= End(buf')
      BY <1>10, <2>2
    <2>5. /\ loop = "closed" <=> status = "closed"
          /\ loop = "subscribe" => answer = Taken
          /\ loop = "resume" => status = "recovered"
      BY <1>0 DEF Follows
    <2>. QED
      BY <1>3, <2>1, <2>2, <2>3, <2>4, <2>5 DEF Follows
  <1>. QED
    BY <1>1, <1>11, <1>12, <1>14, <1>15, <1>16, <1>17, <1>18, <1>19 DEF Gapless

-----------------------------------------------------------------------------
(* The loops leave no gap. *)

\* A step of handle_ws that changes nothing but its requests, its loop and the
\* frames leaves no gap, if the frames are in line and the loop goes on where
\* they end.
LEMMA HandlerGapless ==
  ASSUME IInv, Gapless,
         UNCHANGED <<buf, state, live, count, status, ask, answer, view, lastSeq, known>>,
         InLine(buf, view, wire'),
         \A m \in RowsToShow(buf) : Given(view, wire, m) => Given(view, wire', m),
         \A i \in DOMAIN inbox' : \E j \in DOMAIN inbox : inbox'[i] = inbox[j],
         \A i \in DOMAIN inbox : inbox[i].type = "chat" => \E j \in DOMAIN inbox' : inbox'[j] = inbox[i],
         loop # "closed", loop' # "closed",
         loop' = "subscribe" => loop = "subscribe",
         loop' = "resume" => status = "recovered",
         loop' \in Watching => lastSeen' <= End(buf) /\ Fed(buf, view, wire', lastSeen'),
         Resting' => loop = "subscribe" /\ answer = Taken /\ Done
                     /\ \A m \in RowsToShow(buf) : Given(view, wire', m)
  PROVE  Gapless'
  <1>0. /\ Ordered(buf) /\ Lasting /\ Turns /\ InLine(buf, view, wire)
        /\ Asked /\ Settled /\ Young /\ KnownLast /\ Idle /\ Follows
    BY DEF Gapless
  <1>1. Ordered(buf') /\ InLine(buf', view', wire') /\ Young'
    BY <1>0 DEF Young
  <1>2. Lasting' /\ Turns'
    <2>1. Done' <=> Done
      BY DEF Done
    <2>2. Stages' = Stages
      BY <2>1 DEF Stages
    <2>3. Counted' <=> Counted
      BY <2>2 DEF Counted
    <2>. QED
      BY <1>0, <2>1, <2>3 DEF Lasting, Turns
  <1>3. \A n : Fed(buf, view, wire, n) => Fed(buf, view, wire', n)
    BY DEF Fed
  <1>4. Asked'
    <2>. SUFFICES ASSUME NEW i \in DOMAIN inbox'
                  PROVE  /\ \/ inbox'[i].last <= End(buf) /\ Fed(buf, view, wire', inbox'[i].last)
                            \/ inbox'[i].type = "chat" /\ First(inbox'[i].last)
                         /\ inbox'[i].type = "resume" => status = "recovered"
                         /\ inbox'[i].type = "chat" =>
                               /\ ~live /\ loop' # "subscribe" /\ answer = Taken
                               /\ \E v \in view : v.id = inbox'[i].who
                               /\ \A j \in DOMAIN inbox' : inbox'[j].type = "chat" => inbox'[j].who = inbox'[i].who
      BY DEF Asked, First
    <2>1. PICK j \in DOMAIN inbox : inbox'[i] = inbox[j]
      OBVIOUS
    <2>2. /\ \/ inbox[j].last <= End(buf) /\ Fed(buf, view, wire, inbox[j].last)
             \/ inbox[j].type = "chat" /\ First(inbox[j].last)
          /\ inbox[j].type = "resume" => status = "recovered"
      BY <1>0 DEF Asked
    <2>3. ASSUME inbox[j].type = "chat"
          PROVE  /\ ~live /\ loop' # "subscribe" /\ answer = Taken
                 /\ \E v \in view : v.id = inbox[j].who
                 /\ \A k \in DOMAIN inbox' : inbox'[k].type = "chat" => inbox'[k].who = inbox[j].who
      <3>1. /\ ~live /\ loop # "subscribe" /\ answer = Taken
            /\ \E v \in view : v.id = inbox[j].who
            /\ \A k \in DOMAIN inbox : inbox[k].type = "chat" => inbox[k].who = inbox[j].who
        BY <1>0, <2>3 DEF Asked
      <3>2. \A k \in DOMAIN inbox' : inbox'[k].type = "chat" => inbox'[k].who = inbox[j].who
        BY <3>1
      <3>. QED
        BY <3>1, <3>2
    <2>. QED
      BY <1>3, <2>1, <2>2, <2>3
  <1>5. Settled'
    <2>. SUFFICES ASSUME NEW v \in view PROVE Based(v)'
      BY <1>0 DEF Settled
    <2>1. Based(v)
      BY <1>0 DEF Settled
    <2>2. Chat(v.id) => Chat(v.id)'
      BY DEF Chat
    <2>3. (loop # "subscribe" /\ ~Resting) => (loop' # "subscribe" /\ ~Resting')
      OBVIOUS
    <2>. QED
      BY <2>1, <2>2, <2>3 DEF Based, First
  <1>6. KnownLast'
    BY <1>0 DEF KnownLast
  <1>7. Idle'
    BY DEF Idle, Done
  <1>8. Follows'
    <2>1. loop' \in Watching => lastSeen' <= End(buf') /\ Fed(buf', view', wire', lastSeen')
      OBVIOUS
    <2>2. lastSeq' <= End(buf') /\ Filled(buf', view', lastSeq')
      BY <1>0 DEF Follows
    <2>3. /\ loop' = "closed" <=> status' = "closed"
          /\ loop' = "subscribe" => answer' = Taken
          /\ loop' = "resume" => status' = "recovered"
      BY <1>0 DEF Follows
    <2>. QED
      BY <2>1, <2>2, <2>3 DEF Follows
  <1>. QED
    BY <1>1, <1>2, <1>4, <1>5, <1>6, <1>7, <1>8 DEF Gapless

\* What a pull sends is in line, and after it everything is given.
LEMMA PulledInLine ==
  ASSUME IInv, Gapless, NEW n \in Nat, Fed(buf, view, wire, n),
         NEW fs \in Seq(Frame), Continues(buf, fs, n), Covers(buf, fs, n), Sends(fs)
  PROVE  /\ InLine(buf, view, wire')
         /\ \A m \in RowsToShow(buf) : Given(view, wire', m)
         /\ \A k : Fed(buf, view, wire', k)
  <1>1. wire \in Seq(Frame) /\ SoundBuffer(buf, sent) /\ InLine(buf, view, wire)
    BY Numbers DEF Gapless
  <1>2. InLine(buf, view, wire \o fs) /\ \A m \in RowsToShow(buf) : Given(view, wire \o fs, m)
    BY <1>1, Sent
  <1>. QED
    BY <1>2 DEF Sends, Fed

\* What is appended is there, with all that was.
LEMMA AppendIs ==
  ASSUME NEW q \in Seq(Request), NEW e \in Request
  PROVE  /\ Append(q, e) # <<>>
         /\ \A i \in DOMAIN Append(q, e) : Append(q, e)[i] = e \/ (i \in DOMAIN q /\ Append(q, e)[i] = q[i])
         /\ \A i \in DOMAIN q : i \in DOMAIN Append(q, e) /\ Append(q, e)[i] = q[i]
         /\ \E i \in DOMAIN Append(q, e) : Append(q, e)[i] = e
  <1>1. Len(q) + 1 \in DOMAIN Append(q, e) /\ Append(q, e)[Len(q) + 1] = e
    OBVIOUS
  <1>. QED
    BY <1>1

\* A request that a loop meets is dropped, or put back and the loop left.
LEMMA ItemGapless == IInv /\ Gapless /\ Item => Gapless'
  <1>. SUFFICES ASSUME IInv, Gapless, Item PROVE Gapless'
    OBVIOUS
  <1>. DEFINE r == Head(inbox)
              ignored == r.type \in {"recover", "resume"} /\ loop # "resume"
  <1>1. /\ loop \in Watching /\ inbox # <<>>
        /\ inbox' = IF ignored THEN Tail(inbox) ELSE Append(Tail(inbox), r)
        /\ loop' = IF ignored THEN loop ELSE "outer"
        /\ UNCHANGED <<buf, state, live, count, status, ask, answer, view, lastSeq, known, wire, lastSeen>>
    BY DEF Item, server, page
  <1>2. inbox \in Seq(Request) /\ InLine(buf, view, wire) /\ Follows
    BY DEF IInv, TypeOK, Gapless
  <1>3. /\ 1 \in DOMAIN inbox /\ r = inbox[1]
        /\ \A i \in DOMAIN Tail(inbox) : i + 1 \in DOMAIN inbox /\ Tail(inbox)[i] = inbox[i + 1]
        /\ \A i \in DOMAIN inbox : i # 1 => i - 1 \in DOMAIN Tail(inbox) /\ Tail(inbox)[i - 1] = inbox[i]
        /\ Tail(inbox) \in Seq(Request)
    BY <1>1, <1>2
  <1>4. r \in Request
    BY <1>2, <1>3
  <1>5. \A i \in DOMAIN inbox' : \E j \in DOMAIN inbox : inbox'[i] = inbox[j]
    <2>1. CASE ignored
      BY <1>1, <1>3, <2>1
    <2>2. CASE ~ignored
      <3>1. \A i \in DOMAIN inbox' : inbox'[i] = r \/ (i \in DOMAIN Tail(inbox) /\ inbox'[i] = Tail(inbox)[i])
        BY <1>1, <1>3, <1>4, <2>2, AppendIs
      <3>. QED
        BY <1>3, <3>1
    <2>. QED
      BY <2>1, <2>2
  <1>6. \A i \in DOMAIN inbox : inbox[i].type = "chat" => \E j \in DOMAIN inbox' : inbox'[j] = inbox[i]
    <2>. TAKE i \in DOMAIN inbox
    <2>. HAVE inbox[i].type = "chat"
    <2>1. CASE ignored
      <3>1. i # 1
        BY <1>3, <2>1
      <3>. QED
        BY <1>1, <1>3, <2>1, <3>1
    <2>2. CASE ~ignored
      <3>1. CASE i = 1
        <4>1. inbox' = Append(Tail(inbox), r) /\ inbox[i] = r
          BY <1>1, <1>3, <2>2, <3>1
        <4>2. \E j \in DOMAIN Append(Tail(inbox), r) : Append(Tail(inbox), r)[j] = r
          BY <1>3, <1>4, AppendIs
        <4>. QED
          BY <4>1, <4>2
      <3>2. CASE i # 1
        <4>1. i - 1 \in DOMAIN Tail(inbox) /\ Tail(inbox)[i - 1] = inbox[i]
          BY <1>3, <3>2
        <4>2. i - 1 \in DOMAIN inbox' /\ inbox'[i - 1] = Tail(inbox)[i - 1]
          BY <1>1, <1>3, <1>4, <2>2, <4>1, AppendIs
        <4>. QED
          BY <4>1, <4>2
      <3>. QED
        BY <3>1, <3>2
    <2>. QED
      BY <2>1, <2>2
  <1>7. ~Resting'
    <2>1. ~ignored => inbox' # <<>>
      BY <1>1, <1>3, <1>4, AppendIs
    <2>2. ignored => loop' # "outer"
      BY <1>1 DEF Watching
    <2>. QED
      BY <2>1, <2>2 DEF Resting
  <1>8. /\ loop # "closed" /\ loop' # "closed"
        /\ loop' = "subscribe" => loop = "subscribe"
        /\ loop' = "resume" => status = "recovered"
        /\ loop' \in Watching => lastSeen' <= End(buf) /\ Fed(buf, view, wire', lastSeen')
    BY <1>1, <1>2 DEF Watching, Follows
  <1>. HIDE DEF ignored, r
  <1>. QED
    BY <1>1, <1>2, <1>5, <1>6, <1>7, <1>8, HandlerGapless

\* A loop pulls what is new: none of it is behind what it has seen.
LEMMA PullGapless == IInv /\ Gapless /\ Pull => Gapless'
  <1>. SUFFICES ASSUME IInv, Gapless, Pull PROVE Gapless'
    OBVIOUS
  <1>. DEFINE h == GetHistory(lastSeen)
  <1>1. /\ loop \in Watching /\ loop' = loop /\ inbox' = inbox
        /\ UNCHANGED <<buf, state, live, count, status, ask, answer, view, lastSeq, known>>
        /\ \/ loop = "resume" /\ Sends(ResumeFrames(h, lastSeen)) /\ lastSeen' = ResumeIndex(h, Len(h), lastSeen)
           \/ loop # "resume" /\ Sends(Frames(h, lastSeen, FALSE)) /\ lastSeen' = lastSeen + Len(h)
    BY DEF Pull, server, page
  <1>2. Ordered(buf) /\ Follows /\ Asked
    BY DEF Gapless
  <1>3. lastSeen \in Nat /\ lastSeen <= End(buf) /\ Fed(buf, view, wire, lastSeen)
    BY <1>1, <1>2 DEF Follows, IInv, TypeOK
  <1>4. /\ InLine(buf, view, wire')
        /\ \A m \in RowsToShow(buf) : Given(view, wire', m)
        /\ \A k : Fed(buf, view, wire', k)
        /\ lastSeen' <= End(buf)
    <2>1. CASE loop = "resume"
      BY <1>1, <1>2, <1>3, <2>1, ResumeFramesContinue, PulledInLine
    <2>2. CASE loop # "resume"
      BY <1>1, <1>2, <1>3, <2>2, FramesContinue, PulledInLine
    <2>. QED
      BY <2>1, <2>2
  <1>5. /\ loop # "closed" /\ ~Resting'
        /\ loop = "resume" => status = "recovered"
    BY <1>1, <1>2 DEF Watching, Resting, Follows
  <1>. HIDE DEF h
  <1>. QED
    BY <1>1, <1>4, <1>5, HandlerGapless

\* The final pull, or none.
LEMMA FinalPullInLine ==
  ASSUME IInv, Gapless, loop \in Watching, FinalPull
  PROVE  /\ InLine(buf, view, wire')
         /\ \A m \in RowsToShow(buf) : Given(view, wire', m)
         /\ \A k : Fed(buf, view, wire', k)
         /\ lastSeen' <= End(buf)
  <1>1. lastSeen \in Nat /\ lastSeen <= End(buf) /\ Fed(buf, view, wire, lastSeen) /\ Ordered(buf)
    BY DEF Gapless, Follows, IInv, TypeOK
  <1>2. /\ Sends(Frames(GetHistory(lastSeen), lastSeen, FALSE))
        /\ lastSeen' = lastSeen + Len(GetHistory(lastSeen))
    BY DEF FinalPull
  <1>. QED
    BY <1>1, <1>2, FramesContinue, PulledInLine

\* A look at done.
LEMMA CheckGapless == IInv /\ Gapless /\ (CheckRecover \/ Leave \/ Stay) => Gapless'
  <1>. SUFFICES ASSUME IInv, Gapless, CheckRecover \/ Leave \/ Stay PROVE Gapless'
    OBVIOUS
  <1>1. Ordered(buf) /\ Follows /\ Asked /\ Turns /\ InLine(buf, view, wire)
    BY DEF Gapless
  <1>2. /\ UNCHANGED <<buf, live, count, status, ask, answer, view, lastSeq, known, inbox>>
        /\ loop \in Watching
    BY DEF CheckRecover, Leave, Stay, Check, page, Watching
  <1>3. lastSeen \in Nat /\ lastSeen <= End(buf) /\ Fed(buf, view, wire, lastSeen)
    BY <1>1, <1>2 DEF Follows, IInv, TypeOK
  <1>4. CASE CheckRecover
    <2>1. loop = "recover" /\ loop' = "recover"
      BY <1>4 DEF CheckRecover, Check
    <2>2. ~(~Done /\ state = "running" /\ ~live)
      BY <1>1 DEF Turns
    <2>3. /\ state' = state
          /\ FinalPull \/ (wire' = wire /\ lastSeen' = lastSeen)
      BY <1>4, <2>2 DEF CheckRecover
    <2>4. /\ InLine(buf, view, wire')
          /\ \A m \in RowsToShow(buf) : Given(view, wire, m) => Given(view, wire', m)
          /\ lastSeen' <= End(buf) /\ Fed(buf, view, wire', lastSeen')
      <3>1. CASE FinalPull
        BY <1>2, <3>1, FinalPullInLine
      <3>2. CASE wire' = wire /\ lastSeen' = lastSeen
        BY <1>1, <1>3, <3>2
      <3>. QED
        BY <2>3, <3>1, <3>2
    <2>5. ~Resting'
      BY <2>1 DEF Resting
    <2>. QED
      BY <1>2, <2>1, <2>3, <2>4, <2>5, HandlerGapless
  <1>5. CASE Leave
    <2>1. Done /\ loop' = "outer" /\ state' = state
      BY <1>5 DEF Leave
    <2>2. CASE loop = "subscribe"
      <3>1. FinalPull
        BY <1>5, <2>2 DEF Leave, Check
      <3>2. /\ InLine(buf, view, wire')
            /\ \A m \in RowsToShow(buf) : Given(view, wire', m)
        BY <1>2, <3>1, FinalPullInLine
      <3>3. answer = Taken
        BY <1>1, <2>2 DEF Follows
      <3>4. loop' \notin Watching
        BY <2>1 DEF Watching
      <3>. QED
        BY <1>2, <2>1, <2>2, <3>2, <3>3, <3>4, HandlerGapless
    <2>3. CASE loop = "resume"
      <3>1. wire' = wire
        BY <1>5, <2>3 DEF Leave, Check
      <3>2. ~Resting'
        BY <1>1, <1>2, <2>3 DEF Resting, Follows
      <3>3. loop' \notin Watching
        BY <2>1 DEF Watching
      <3>. QED
        BY <1>1, <1>2, <2>1, <2>3, <3>1, <3>2, <3>3, HandlerGapless
    <2>. QED
      BY <1>5, <2>2, <2>3 DEF Leave, Check
  <1>6. CASE Stay
    <2>1. /\ state' = state /\ loop' = loop /\ lastSeen' = lastSeen
          /\ \/ wire' = wire
             \/ Sends(Signal("heartbeat", lastSeen)) \/ Sends(Signal("dead", lastSeen))
      BY <1>6 DEF Stay
    <2>2. /\ InLine(buf, view, wire')
          /\ \A m \in RowsToShow(buf) : Given(view, wire, m) => Given(view, wire', m)
      <3>1. CASE wire' = wire
        BY <1>1, <3>1
      <3>2. ASSUME NEW kind \in {"heartbeat", "dead"}, Sends(Signal(kind, lastSeen))
            PROVE  /\ InLine(buf, view, wire')
                   /\ \A m \in RowsToShow(buf) : Given(view, wire, m) => Given(view, wire', m)
        <4>1. Signal(kind, lastSeen) \in Seq(Frame) /\ Continues(buf, Signal(kind, lastSeen), lastSeen)
          BY <1>3, SignalContinues
        <4>2. wire \in Seq(Frame) /\ SoundBuffer(buf, sent)
          BY Numbers
        <4>3. wire' = wire \o Signal(kind, lastSeen)
          BY <3>2 DEF Sends
        <4>. HIDE DEF Signal
        <4>. QED
          BY <1>1, <1>3, <4>1, <4>2, <4>3, Sent
      <3>. QED
        BY <2>1, <3>1, <3>2
    <2>3. Fed(buf, view, wire', lastSeen)
      BY <1>3, <2>2 DEF Fed
    <2>4. loop # "closed" /\ ~Resting'
      BY <1>2, <2>1 DEF Resting, Watching
    <2>5. loop = "resume" => status = "recovered"
      BY <1>1 DEF Follows
    <2>. QED
      BY <1>2, <1>3, <2>1, <2>2, <2>3, <2>4, <2>5, HandlerGapless
  <1>. QED
    BY <1>4, <1>5, <1>6

\* A recover or a resume reaches the outer loop.
LEMMA ServeRecoverGapless ==
  IInv /\ Gapless /\ Serve /\ Head(inbox).type # "chat" => Gapless'
  <1>. SUFFICES ASSUME IInv, Gapless, Serve, Head(inbox).type # "chat" PROVE Gapless'
    OBVIOUS
  <1>. DEFINE r == Head(inbox)
              h == GetHistory(r.last)
  <1>1. /\ loop = "outer" /\ inbox # <<>>
        /\ Sends(Frames(h, r.last, TRUE))
        /\ lastSeen' = r.last + Len(h)
        /\ loop' = r.type
        /\ inbox' = Tail(inbox)
        /\ UNCHANGED <<buf, state, count, status, ask, answer, view, lastSeq, known>>
        /\ live' = (live \/ FALSE)
    BY DEF Serve, page
  <1>2. inbox \in Seq(Request) /\ Follows /\ Asked /\ live \in BOOLEAN /\ Ordered(buf)
    BY DEF IInv, TypeOK, Gapless
  <1>3. /\ 1 \in DOMAIN inbox /\ r = inbox[1]
        /\ \A i \in DOMAIN Tail(inbox) : i + 1 \in DOMAIN inbox /\ Tail(inbox)[i] = inbox[i + 1]
        /\ \A i \in DOMAIN inbox : i # 1 => i - 1 \in DOMAIN Tail(inbox) /\ Tail(inbox)[i - 1] = inbox[i]
    BY <1>1, <1>2
  <1>4. r \in Request /\ r.last \in Nat
    BY <1>3, Numbers
  <1>5. /\ r.last <= End(buf) /\ Fed(buf, view, wire, r.last)
        /\ r.type = "resume" => status = "recovered"
    BY <1>2, <1>3 DEF Asked
  <1>6. r.type \in {"recover", "resume"}
    BY <1>4 DEF Request
  <1>7. /\ InLine(buf, view, wire')
        /\ \A m \in RowsToShow(buf) : Given(view, wire', m)
        /\ \A k : Fed(buf, view, wire', k)
        /\ lastSeen' <= End(buf)
    BY <1>1, <1>2, <1>4, <1>5, FramesContinue, PulledInLine
  <1>8. live' = live
    BY <1>1, <1>2
  <1>9. \A i \in DOMAIN inbox' : \E j \in DOMAIN inbox : inbox'[i] = inbox[j]
    BY <1>1, <1>3
  <1>10. \A i \in DOMAIN inbox : inbox[i].type = "chat" => \E j \in DOMAIN inbox' : inbox'[j] = inbox[i]
    <2>. TAKE i \in DOMAIN inbox
    <2>. HAVE inbox[i].type = "chat"
    <2>1. i # 1
      BY <1>3
    <2>. QED
      BY <1>1, <1>3, <2>1
  <1>11. loop' # "outer" /\ loop' # "closed" /\ loop' # "subscribe" /\ ~Resting'
    BY <1>1, <1>6 DEF Resting
  <1>. HIDE DEF r, h
  <1>. QED
    BY <1>1, <1>5, <1>7, <1>8, <1>9, <1>10, <1>11, HandlerGapless

\* A chat message reaches the outer loop: it has room, or evicts no stream event.
LEMMA ChatLasts ==
  ASSUME IInv, Gapless, ~live, NEW p \in Prompt, p \in sent \ AuthorsOf(buf.rows),
         buf' = Announced(buf, p), live', state' = "running", count' = count
  PROVE  /\ Ordered(buf') /\ Grows(buf, buf') /\ Lasting'
         /\ SoundBuffer(buf, sent) /\ SoundBuffer(buf', sent)
         /\ Len(buf'.rows) = Len(buf.rows) + 2
         /\ buf'.rows[Len(buf.rows) + 1] = Numbered(buf, "user", p)
         /\ buf'.rows[Len(buf.rows) + 2].kind = "running"
  <1>1. TypeOK /\ SoundBuffer(buf, sent) /\ Ordered(buf) /\ Lasting
    BY DEF IInv, Gapless
  <1>2. SoundBuffer(buf', sent)
    BY <1>1, AnnouncedSound
  <1>3. /\ MaxStreams \in Nat /\ MaxTexts \in Nat /\ count["text"] \in Nat /\ count["stream"] \in Nat
        /\ Len(buf.mem) \in Nat /\ Len(buf.rows) \in Nat /\ MaxHistory \in Nat
    <2>1. buf.mem \in Seq(Message) /\ buf.rows \in Seq(Message)
      BY <1>1 DEF SoundBuffer
    <2>2. count["text"] \in Nat /\ count["stream"] \in Nat
      BY <1>1 DEF TypeOK
    <2>3. MaxStreams \in Nat /\ MaxTexts \in Nat /\ MaxHistory \in Nat
      BY ConstantsAssumption
    <2>. QED
      BY <2>1, <2>2, <2>3
  <1>4. CASE MaxStreams = 0 /\ NoStreams(buf)
    <2>1. /\ Ordered(buf') /\ Grows(buf, buf') /\ NoStreams(buf')
          /\ Len(buf'.rows) = Len(buf.rows) + 2
          /\ buf'.rows[Len(buf.rows) + 1] = Numbered(buf, "user", p)
          /\ buf'.rows[Len(buf.rows) + 2].kind = "running"
      BY <1>1, <1>4, AnnouncedLasts
    <2>. QED
      BY <1>1, <1>2, <1>4, <2>1 DEF Lasting
  <1>5. CASE Roomy /\ buf.base = 0 /\ Counted
    <2>. DEFINE A == AuthorsOf(buf.rows)
                B == AuthorsOf(buf'.rows)
                P == Cardinality(Prompt)
                T == count["text"]
                S == count["stream"]
    <2>1. A \subseteq Prompt /\ B \subseteq Prompt /\ p \notin A
      BY <1>1, <1>2 DEF SoundBuffer, TypeOK
    <2>2. /\ P \in Nat
          /\ \A X, Y : (X \subseteq Y /\ Y \subseteq Prompt) =>
               /\ Cardinality(X) \in Nat /\ Cardinality(Y) \in Nat
               /\ Cardinality(X) <= Cardinality(Y) /\ Cardinality(Y) <= P
               /\ X # Y => Cardinality(X) + 1 <= Cardinality(Y)
      BY <1>5, AuthorsCounted
    <2>3. /\ T <= MaxTexts /\ S <= MaxStreams
          /\ Len(buf.mem) + Stages <= 4 * Cardinality(A) + T + S
          /\ 4 * P + MaxTexts + MaxStreams <= MaxHistory
      BY <1>5 DEF Counted, Roomy
    <2>4. Stages = 0 /\ Stages' = 2
      BY DEF Stages, Done, Terminal
    <2>. HIDE DEF A, B, P, T, S
    <2>5. T \in Nat /\ S \in Nat
      BY <1>3 DEF T, S
    <2>6. Cardinality(A) \in Nat /\ Cardinality(A) + 1 <= P
      <3>1. A \subseteq Prompt /\ A # Prompt
        BY <2>1
      <3>. QED
        BY <2>2, <3>1 DEF P
    <2>7. Room(buf, 2)
      <3>1. \A L, a, H \in Nat : (L <= 4 * a + T + S /\ a + 1 <= P
                /\ 4 * P + MaxTexts + MaxStreams <= H) => L + 2 <= H
        BY <1>3, <2>2, <2>3, <2>5
      <3>2. Len(buf.mem) <= 4 * Cardinality(A) + T + S
        BY <1>3, <2>3, <2>4
      <3>3. Len(buf.mem) + 2 <= MaxHistory
        BY <1>3, <2>3, <2>6, <3>1, <3>2
      <3>. QED
        BY <1>5, <3>3 DEF Room
    <2>8. /\ Ordered(buf') /\ Grows(buf, buf')
          /\ buf'.base = 0 /\ Len(buf'.mem) = Len(buf.mem) + 2
          /\ Len(buf'.rows) = Len(buf.rows) + 2
          /\ buf'.rows[Len(buf.rows) + 1] = Numbered(buf, "user", p)
          /\ buf'.rows[Len(buf.rows) + 2].kind = "running"
      BY <1>1, <2>7, AnnouncedLasts
    <2>9. A \subseteq B /\ A # B
      <3>1. A \subseteq B
        BY <2>8, AuthorsStay DEF A, B
      <3>2. Len(buf.rows) + 1 \in DOMAIN buf'.rows
        <4>1. buf'.rows \in Seq(Message)
          BY <1>2 DEF SoundBuffer
        <4>. QED
          BY <1>3, <2>8, <4>1
      <3>3. p \in B
        BY <2>8, <3>2 DEF Numbered, AuthorsOf, B
      <3>. QED
        BY <2>1, <3>1, <3>3
    <2>10. Cardinality(B) \in Nat /\ Cardinality(A) + 1 <= Cardinality(B)
      BY <2>1, <2>2, <2>9
    <2>11. Len(buf'.mem) + Stages' <= 4 * Cardinality(B) + T + S
      <3>1. \A L, a, c \in Nat : (L <= 4 * a + T + S /\ a + 1 <= c) => (L + 2) + 2 <= 4 * c + T + S
        BY <2>5
      <3>2. Len(buf.mem) <= 4 * Cardinality(A) + T + S
        BY <1>3, <2>3, <2>4
      <3>. QED
        BY <1>3, <2>4, <2>6, <2>8, <2>10, <3>1, <3>2
    <2>12. Counted'
      BY <2>3, <2>11 DEF Counted, B, T, S
    <2>. QED
      BY <1>1, <1>2, <1>5, <2>8, <2>12 DEF Lasting, Roomy
  <1>. QED
    BY <1>1, <1>4, <1>5 DEF Lasting

\* ... and leaves no gap: the message is shown already, and running follows it.
LEMMA ServeChatGapless ==
  IInv /\ Gapless /\ Serve /\ Head(inbox).type = "chat" => Gapless'
  <1>. SUFFICES ASSUME IInv, Gapless, Serve, Head(inbox).type = "chat" PROVE Gapless'
    OBVIOUS
  <1>. DEFINE r == Head(inbox)
              p == r.who
              h == GetHistory(r.last)
              N == Len(buf.rows)
  <1>0. /\ Ordered(buf) /\ Lasting /\ Turns /\ InLine(buf, view, wire)
        /\ Asked /\ Settled /\ Young /\ KnownLast /\ Idle /\ Follows
        /\ inbox # <<>> /\ inbox \in Seq(Request) /\ SoundInbox(inbox, buf.rows, sent) /\ TypeOK
    BY DEF Gapless, Serve, IInv, TypeOK
  <1>1. /\ 1 \in DOMAIN inbox /\ r = inbox[1]
        /\ \A i \in DOMAIN Tail(inbox) : i + 1 \in DOMAIN inbox /\ Tail(inbox)[i] = inbox[i + 1] /\ i + 1 # 1
    BY <1>0
  <1>2. /\ ~live /\ answer = Taken
        /\ \A j \in DOMAIN inbox : inbox[j].type = "chat" => inbox[j].who = p
        /\ \E v \in view : v.id = p
        /\ \/ r.last <= End(buf) /\ Fed(buf, view, wire, r.last)
           \/ First(r.last)
    BY <1>0, <1>1 DEF Asked
  <1>3. /\ loop = "outer" /\ loop' = "subscribe" /\ inbox' = Tail(inbox)
        /\ Sends(Frames(h, r.last, TRUE))
        /\ lastSeen' = r.last + Len(h)
        /\ buf' = Announced(buf, p) /\ state' = "running" /\ live'
        /\ UNCHANGED <<sent, count, status, ask, answer, view, lastSeq, known>>
    BY <1>2 DEF Serve, page
  <1>4. p \in Prompt /\ p \in sent \ AuthorsOf(buf.rows) /\ r.last \in Nat
    BY <1>0, HeadSound DEF TypeOK
  <1>5. /\ Ordered(buf') /\ Grows(buf, buf') /\ Lasting'
        /\ SoundBuffer(buf, sent) /\ SoundBuffer(buf', sent)
        /\ Len(buf'.rows) = N + 2
        /\ buf'.rows[N + 1] = Numbered(buf, "user", p)
        /\ buf'.rows[N + 2].kind = "running"
    BY <1>2, <1>3, <1>4, ChatLasts
  <1>6. /\ N \in Nat /\ End(buf) \in Nat /\ N <= End(buf)
        /\ lastSeq \in 0..End(buf) /\ known \in 0..End(buf)
        /\ \A i \in DOMAIN inbox : inbox[i].last \in Nat
        /\ \A v \in view : v.index \in Nat
        /\ wire \in Seq(Frame)
    BY Numbers
  <1>7. /\ RowsToShow(buf) \subseteq RowsToShow(buf')
        /\ \A m \in RowsToShow(buf') : m \in RowsToShow(buf) \/ m.seq >= N
        /\ \A m \in RowsToShow(buf) : m.seq < N /\ m.seq \in Nat
        /\ \A m \in RowsToShow(buf') : m.seq \in Nat
    BY <1>5, RowsGrown, RowToShow
  <1>8. \A m \in RowsToShow(buf') : m \in RowsToShow(buf) \/ (m.seq = N /\ RowId(m) = p)
    <2>. TAKE m \in RowsToShow(buf')
    <2>1. m.seq < N + 2 /\ buf'.rows[m.seq + 1] = m /\ m.kind \in Visible
      BY <1>5, RowToShow
    <2>2. m.seq >= N => m.seq = N \/ m.seq = N + 1
      BY <1>6, <1>7, <2>1
    <2>3. m.seq # N + 1
      <3>. SUFFICES ASSUME m.seq = N + 1 PROVE FALSE
        OBVIOUS
      <3>1. m.seq + 1 = N + 2
        BY <1>6
      <3>2. m.kind = "running"
        BY <1>5, <2>1, <3>1
      <3>. QED
        BY <2>1, <3>2 DEF Visible
    <2>4. m.seq = N => RowId(m) = p
      BY <1>5, <2>1 DEF RowId, Numbered
    <2>. QED
      BY <1>7, <2>2, <2>3, <2>4
  <1>9. End(buf') \in Nat /\ N + 2 <= End(buf')
    BY <1>5, RowsEnd
  <1>10. /\ InLine(buf, view, wire')
         /\ \A m \in RowsToShow(buf) : Given(view, wire', m)
         /\ lastSeen' <= End(buf') /\ Fed(buf', view, wire', lastSeen')
         /\ wire' \in Seq(Frame)
    <2>1. ASSUME r.last <= End(buf), Fed(buf, view, wire, r.last)
          PROVE  /\ InLine(buf, view, wire')
                 /\ \A m \in RowsToShow(buf) : Given(view, wire', m)
                 /\ lastSeen' <= End(buf') /\ Fed(buf', view, wire', lastSeen')
                 /\ wire' \in Seq(Frame)
      <3>1. /\ Frames(h, r.last, TRUE) \in Seq(Frame)
            /\ Continues(buf, Frames(h, r.last, TRUE), r.last)
            /\ Covers(buf, Frames(h, r.last, TRUE), r.last)
            /\ lastSeen' \in Nat /\ lastSeen' <= End(buf)
        BY <1>0, <1>3, <1>4, <2>1, FramesContinue
      <3>2. /\ InLine(buf, view, wire')
            /\ \A m \in RowsToShow(buf) : Given(view, wire', m)
            /\ Fed(buf, view, wire', lastSeen')
        BY <1>3, <1>4, <2>1, <3>1, PulledInLine
      <3>3. wire' \in Seq(Frame)
        <4>1. \A w, fs \in Seq(Frame) : w \o fs \in Seq(Frame)
          OBVIOUS
        <4>. QED
          BY <1>3, <1>6, <3>1, <4>1 DEF Sends
      <3>4. lastSeen' \in 0..End(buf)
        BY <1>6, <3>1
      <3>5. lastSeen' \in 0..End(buf') /\ Fed(buf', view, wire', lastSeen')
        BY <1>0, <1>5, <3>2, <3>4, GivenOn
      <3>. QED
        BY <1>9, <3>2, <3>3, <3>5
    <2>2. ASSUME First(r.last), ~(r.last <= End(buf))
          PROVE  /\ InLine(buf, view, wire')
                 /\ \A m \in RowsToShow(buf) : Given(view, wire', m)
                 /\ lastSeen' <= End(buf') /\ Fed(buf', view, wire', lastSeen')
                 /\ wire' \in Seq(Frame)
      <3>1. r.last = 1 /\ buf.rows = <<>> /\ N = 0 /\ End(buf) = 0
        BY <1>4, <1>6, <2>2 DEF First
      <3>2. RowsToShow(buf) = {}
        BY <3>1 DEF RowsToShow
      <3>3. h = <<>>
        <4>1. buf.mem \in Seq(Message) /\ buf.base \in Nat
          BY <1>5 DEF SoundBuffer
        <4>2. buf.base = 0 /\ Len(buf.mem) = 0
          BY <3>1, <4>1 DEF End
        <4>3. h = SubSeq(buf.rows, 2, 0)
          BY <3>1, <4>2 DEF GetHistory
        <4>. QED
          BY <3>1, <4>3
      <3>4. wire' = wire /\ lastSeen' = 1
        <4>1. Frames(h, r.last, TRUE) = <<>>
          BY <3>3 DEF Frames
        <4>2. \A w \in Seq(Frame) : w \o <<>> = w
          OBVIOUS
        <4>3. wire' = wire
          BY <1>3, <1>6, <4>1, <4>2 DEF Sends
        <4>4. Len(h) = 0
          BY <3>3
        <4>. QED
          BY <1>3, <3>1, <4>3, <4>4
      <3>5. \A m \in RowsToShow(buf') : Right(view, m)
        <4>. TAKE m \in RowsToShow(buf')
        <4>1. m.seq = 0 /\ RowId(m) = p
          BY <1>8, <3>1, <3>2
        <4>2. PICK v \in view : v.id = p
          BY <1>2
        <4>3. v.index >= m.seq
          BY <1>6, <4>1
        <4>. QED
          BY <4>1, <4>2, <4>3 DEF Right
      <3>. QED
        BY <1>0, <1>6, <1>9, <3>1, <3>2, <3>4, <3>5 DEF Fed, Given
    <2>3. First(r.last) => Fed(buf, view, wire, r.last)
      BY DEF First, RowsToShow, Fed
    <2>. QED
      BY <1>2, <2>1, <2>2, <2>3
  <1>. HIDE DEF h
  <1>11. /\ \A n \in 0..End(buf) : Filled(buf, view, n) => Filled(buf', view, n)
         /\ \A n \in 0..End(buf) : Fed(buf', view, wire', n)
         /\ \A n \in 0..End(buf) : n \in 0..End(buf')
    <2>1. \A n \in 0..End(buf) : Fed(buf, view, wire', n)
      BY <1>10 DEF Fed
    <2>. QED
      BY <1>0, <1>5, <2>1, GivenOn
  <1>12. Turns'
    <2>1. live' /\ ~Done' /\ state' = "running" /\ Len(buf'.rows) > 1
      BY <1>3, <1>5, <1>6 DEF Done, Terminal
    <2>. QED
      BY <2>1 DEF Turns
  <1>13. InLine(buf', view', wire')
    <2>1. InLine(buf', view, wire')
      BY <1>0, <1>5, <1>10, InLineOn
    <2>. QED
      BY <1>3, <2>1
  <1>14. Asked'
    <2>. SUFFICES ASSUME NEW i \in DOMAIN inbox'
                  PROVE  /\ inbox'[i].last <= End(buf') /\ Fed(buf', view, wire', inbox'[i].last)
                         /\ inbox'[i].type = "resume" => status = "recovered"
                         /\ inbox'[i].type # "chat"
      BY <1>3 DEF Asked
    <2>1. i + 1 \in DOMAIN inbox /\ inbox'[i] = inbox[i + 1] /\ i + 1 # 1
      BY <1>1, <1>3
    <2>2. inbox[i + 1].type # "chat"
      <3>. SUFFICES ASSUME inbox[i + 1].type = "chat" PROVE FALSE
        OBVIOUS
      <3>1. inbox[i + 1].who = inbox[1].who /\ inbox[1].type = "chat"
        BY <1>1, <1>2, <2>1
      <3>. QED
        BY <1>0, <1>1, <2>1, <3>1 DEF SoundInbox
    <2>3. inbox[i + 1].last \in 0..End(buf)
      BY <1>0, <1>6, <2>1, <2>2 DEF Asked
    <2>4. inbox[i + 1].last \in 0..End(buf') /\ Fed(buf', view, wire', inbox[i + 1].last)
      BY <1>11, <2>3
    <2>5. inbox[i + 1].last <= End(buf')
      BY <1>9, <2>4
    <2>. QED
      BY <1>0, <2>1, <2>2, <2>4, <2>5 DEF Asked
  <1>15. Settled'
    <2>. SUFFICES ASSUME NEW v \in view
                  PROVE  /\ Based(v)'
                         /\ \A m \in RowsToShow(buf') : m.seq <= v.index => Right(view, m)
                         /\ v.id \notin Prompt => v.id = v.index /\ v.index < Len(buf'.rows)
      BY <1>3 DEF Settled
    <2>1. /\ Based(v) /\ v.index \in Nat
          /\ \A m \in RowsToShow(buf) : m.seq <= v.index => Right(view, m)
          /\ v.id \notin Prompt => v.id = v.index /\ v.index < N
      BY <1>0, <1>6 DEF Settled
    <2>2. N + 2 \in DOMAIN buf'.rows
      <3>1. buf'.rows \in Seq(Message)
        BY <1>5 DEF SoundBuffer
      <3>. QED
        BY <1>5, <1>6, <3>1
    <2>3. Based(v)'
      <3>1. CASE \E m \in RowsToShow(buf) : m.seq = v.index
        BY <1>7, <3>1 DEF Based
      <3>2. CASE \E i \in DOMAIN buf.rows : buf.rows[i].kind = "running" /\ i > v.index
        BY <1>5, <3>2 DEF Based, Grows
      <3>3. CASE v.index <= N \/ First(v.index)
        <4>1. First(v.index) => v.index = 1 /\ N = 0
          BY DEF First
        <4>2. N + 2 > v.index
          BY <1>6, <2>1, <3>3, <4>1
        <4>. QED
          BY <1>5, <2>2, <4>2 DEF Based
      <3>4. (v.index < N) => v.index <= N
        BY <1>6, <2>1
      <3>. QED
        BY <2>1, <3>1, <3>2, <3>3, <3>4 DEF Based
    <2>4. ASSUME NEW m \in RowsToShow(buf'), m.seq <= v.index
          PROVE  Right(view, m)
      <3>1. CASE m \in RowsToShow(buf)
        BY <2>1, <2>4, <3>1
      <3>2. CASE m.seq = N /\ RowId(m) = p
        <4>1. ~(v.index < N)
          BY <1>6, <2>1, <2>4, <3>2
        <4>2. Chat(v.id)
          BY <1>5, <2>1, <4>1, BasedBelow
        <4>3. v.id = p
          BY <1>2, <4>2 DEF Chat
        <4>4. v.index >= m.seq
          BY <1>6, <2>1, <2>4, <3>2
        <4>. QED
          BY <3>2, <4>3, <4>4 DEF Right
      <3>. QED
        BY <1>8, <3>1, <3>2
    <2>5. v.index < N => v.index < Len(buf'.rows)
      BY <1>5, <1>6, <2>1
    <2>. QED
      BY <2>1, <2>3, <2>4, <2>5
  <1>16. Young'
    BY <1>2, <1>3 DEF Young
  <1>17. KnownLast'
    <2>1. known <= N /\ (ask = "known" => view # {}) /\ Filled(buf, view, known)
      BY <1>0, <1>2 DEF KnownLast
    <2>2. known <= Len(buf'.rows)
      BY <1>0, <1>5, <1>6, <2>1 DEF TypeOK
    <2>. QED
      BY <1>3, <1>6, <1>11, <2>1, <2>2 DEF KnownLast
  <1>18. Idle'
    BY <1>3 DEF Idle, Resting
  <1>19. Follows'
    <2>1. lastSeq \in 0..End(buf') /\ Filled(buf', view, lastSeq)
      BY <1>0, <1>6, <1>11 DEF Follows
    <2>2. lastSeq <= End(buf')
      BY <1>9, <2>1
    <2>3. status # "closed"
      BY <1>0, <1>3 DEF Follows
    <2>. QED
      BY <1>2, <1>3, <1>10, <2>1, <2>2, <2>3 DEF Follows
  <1>. QED
    BY <1>5, <1>12, <1>13, <1>14, <1>15, <1>16, <1>17, <1>18, <1>19 DEF Gapless

-----------------------------------------------------------------------------
(* The page leaves no gap. *)

\* Two rows to show are different messages.
LEMMA RowIdOnce ==
  ASSUME TypeOK, SoundBuffer(buf, sent), NEW m \in RowsToShow(buf)
  PROVE  /\ m.kind = "user" => m.who \in Prompt
         /\ \A n \in RowsToShow(buf) : RowId(m) = RowId(n) => m = n
  <1>1. /\ SoundRows(buf.rows) /\ AuthorsOf(buf.rows) \subseteq Prompt
    BY DEF SoundBuffer, TypeOK
  <1>2. \A n \in RowsToShow(buf) :
           /\ n.seq \in Nat /\ n.seq + 1 \in DOMAIN buf.rows /\ buf.rows[n.seq + 1] = n
           /\ n.kind = "user" => n.who \in Prompt
    BY <1>1, RowToShow DEF AuthorsOf
  <1>3. ASSUME NEW n \in RowsToShow(buf), RowId(m) = RowId(n) PROVE m = n
    <2>1. CASE m.kind = "user" /\ n.kind = "user"
      <3>1. m.seq + 1 = n.seq + 1
        BY <1>1, <1>2, <1>3, <2>1 DEF RowId, SoundRows
      <3>. QED
        BY <1>2, <3>1
    <2>2. CASE m.kind # "user" /\ n.kind # "user"
      <3>1. m.seq = n.seq
        BY <1>3, <2>2 DEF RowId
      <3>. QED
        BY <1>2, <3>1
    <2>3. ASSUME m.kind = "user", n.kind # "user" PROVE FALSE
      <3>1. m.who = n.seq
        BY <1>3, <2>3 DEF RowId
      <3>. QED
        BY <1>2, <2>3, <3>1, ConstantsAssumption
    <2>4. ASSUME n.kind = "user", m.kind # "user" PROVE FALSE
      <3>1. n.who = m.seq
        BY <1>3, <2>4 DEF RowId
      <3>. QED
        BY <1>2, <2>4, <3>1, ConstantsAssumption
    <2>. QED
      BY <2>1, <2>2, <2>3, <2>4
  <1>. QED
    BY <1>2, <1>3

\* All comes after the start.
LEMMA FromStart ==
  ASSUME IInv, Gapless, NEW v, NEW w
  PROVE  Filled(buf, v, 0) /\ Fed(buf, v, w, 0)
  <1>1. SoundBuffer(buf, sent) /\ Ordered(buf)
    BY DEF IInv, Gapless
  <1>2. \A m \in RowsToShow(buf) : 0 <= m.seq
    BY <1>1, RowToShow
  <1>. QED
    BY <1>1, <1>2, LeftBySeq DEF Filled, Fed

\* What is shown up to a row leaves only what comes after it.
LEMMA FilledTo ==
  ASSUME IInv, Gapless, NEW n \in Nat, NEW v, \A m \in RowsToShow(buf) : m.seq < n => Right(v, m)
  PROVE  Filled(buf, v, n)
  <1>1. SoundBuffer(buf, sent) /\ Ordered(buf)
    BY DEF IInv, Gapless
  <1>2. \A m \in RowsToShow(buf) : n <= m.seq \/ m.seq < n
    BY <1>1, RowToShow
  <1>. QED
    BY <1>1, <1>2, LeftBySeq DEF Filled

\* What does not touch the buffer or the agent.
LEMMA ServerKept ==
  ASSUME Gapless, UNCHANGED <<buf, state, live>>,
         count'["text"] = count["text"], count'["stream"] = count["stream"]
  PROVE  Ordered(buf') /\ Lasting' /\ Turns'
  <1>1. Ordered(buf) /\ Lasting /\ Turns
    BY DEF Gapless
  <1>2. Done' <=> Done
    BY DEF Done
  <1>3. Stages' = Stages
    BY <1>2 DEF Stages
  <1>4. Counted' <=> Counted
    BY <1>3 DEF Counted
  <1>. QED
    BY <1>1, <1>2, <1>4 DEF Lasting, Turns

\* A step of the page that sends no chat message and is not the start of a
\* connection, shows more and takes nothing off the wire that it does not show,
\* leaves no gap, if it asks for no more than what is missing.
LEMMA PageGapless ==
  ASSUME IInv, Gapless,
         UNCHANGED <<buf, state, live, count, loop, lastSeen, status>>,
         InLine(buf, view', wire'),
         \A m \in RowsToShow(buf) : Right(view, m) => Right(view', m),
         \A m \in RowsToShow(buf) : Given(view, wire, m) => Given(view', wire', m),
         \A x \in view : \E y \in view' : y.id = x.id,
         \A i \in DOMAIN inbox' :
            \/ \E j \in DOMAIN inbox : inbox'[i] = inbox[j]
            \/ /\ inbox'[i].type = "recover" /\ inbox'[i].last <= End(buf)
               /\ Fed(buf, view', wire', inbox'[i].last),
         answer = Taken => answer' = Taken,
         Settled', Young', KnownLast', Resting' => Resting,
         lastSeq' <= End(buf), Filled(buf, view', lastSeq')
  PROVE  Gapless'
  <1>0. /\ Asked /\ Idle /\ Follows
    BY DEF Gapless
  <1>1. Ordered(buf') /\ Lasting' /\ Turns'
    BY ServerKept
  <1>2. \A n : Fed(buf, view, wire, n) => Fed(buf, view', wire', n)
    BY DEF Fed
  <1>3. Asked'
    <2>. SUFFICES ASSUME NEW i \in DOMAIN inbox'
                  PROVE  /\ \/ inbox'[i].last <= End(buf) /\ Fed(buf, view', wire', inbox'[i].last)
                            \/ inbox'[i].type = "chat" /\ First(inbox'[i].last)
                         /\ inbox'[i].type = "resume" => status = "recovered"
                         /\ inbox'[i].type = "chat" =>
                               /\ ~live /\ loop # "subscribe" /\ answer' = Taken
                               /\ \E v \in view' : v.id = inbox'[i].who
                               /\ \A j \in DOMAIN inbox' : inbox'[j].type = "chat" => inbox'[j].who = inbox'[i].who
      BY DEF Asked, First
    <2>1. CASE \E j \in DOMAIN inbox : inbox'[i] = inbox[j]
      <3>1. PICK j \in DOMAIN inbox : inbox'[i] = inbox[j]
        BY <2>1
      <3>2. /\ \/ inbox[j].last <= End(buf) /\ Fed(buf, view, wire, inbox[j].last)
               \/ inbox[j].type = "chat" /\ First(inbox[j].last)
            /\ inbox[j].type = "resume" => status = "recovered"
        BY <1>0 DEF Asked
      <3>3. ASSUME inbox[j].type = "chat"
            PROVE  /\ ~live /\ loop # "subscribe" /\ answer' = Taken
                   /\ \E v \in view' : v.id = inbox[j].who
                   /\ \A k \in DOMAIN inbox' : inbox'[k].type = "chat" => inbox'[k].who = inbox[j].who
        <4>1. /\ ~live /\ loop # "subscribe" /\ answer = Taken
              /\ \E v \in view : v.id = inbox[j].who
              /\ \A k \in DOMAIN inbox : inbox[k].type = "chat" => inbox[k].who = inbox[j].who
          BY <1>0, <3>3 DEF Asked
        <4>2. \E v \in view' : v.id = inbox[j].who
          BY <4>1
        <4>3. \A k \in DOMAIN inbox' : inbox'[k].type = "chat" => \E l \in DOMAIN inbox : inbox'[k] = inbox[l]
          OBVIOUS
        <4>4. \A k \in DOMAIN inbox' : inbox'[k].type = "chat" => inbox'[k].who = inbox[j].who
          BY <4>1, <4>3
        <4>. QED
          BY <4>1, <4>2, <4>4
      <3>. QED
        BY <1>2, <3>1, <3>2, <3>3
    <2>2. CASE /\ inbox'[i].type = "recover" /\ inbox'[i].last <= End(buf)
               /\ Fed(buf, view', wire', inbox'[i].last)
      BY <2>2
    <2>. QED
      BY <2>1, <2>2
  <1>4. Idle'
    <2>. SUFFICES ASSUME Resting'
                  PROVE  /\ answer' = Taken /\ Done'
                         /\ \A m \in RowsToShow(buf) : live \/ m.seq < Len(buf.rows) - 1 => Given(view', wire', m)
      BY DEF Idle
    <2>. QED
      BY <1>0 DEF Idle, Done
  <1>5. Follows'
    <2>1. loop' \in Watching => lastSeen' <= End(buf') /\ Fed(buf', view', wire', lastSeen')
      BY <1>0, <1>2 DEF Follows
    <2>2. lastSeq' <= End(buf') /\ Filled(buf', view', lastSeq')
      OBVIOUS
    <2>3. /\ loop' = "closed" <=> status' = "closed"
          /\ loop' = "subscribe" => answer' = Taken
          /\ loop' = "resume" => status' = "recovered"
      BY <1>0 DEF Follows
    <2>. QED
      BY <2>1, <2>2, <2>3 DEF Follows
  <1>6. InLine(buf', view', wire')
    OBVIOUS
  <1>. QED
    BY <1>1, <1>3, <1>4, <1>5, <1>6 DEF Gapless

\* What is none of the buffer, the loops and what is shown.
LEMMA OtherGapless ==
  ASSUME Gapless,
         UNCHANGED <<buf, state, live, count, loop, lastSeen, inbox, wire, status, lastSeq, ask,
                     answer, view, known>>
  PROVE  Gapless'
  <1>1. Ordered(buf') /\ Lasting' /\ Turns'
    BY ServerKept
  <1>2. Asked' /\ Settled'
    BY DEF Gapless, Asked, Settled, Based, Chat, First, Resting
  <1>3. Young' /\ KnownLast' /\ Idle' /\ Follows' /\ InLine(buf', view', wire')
    BY DEF Gapless, Young, KnownLast, Idle, Follows, Resting, Done
  <1>. QED
    BY <1>1, <1>2, <1>3 DEF Gapless

\* GET /history answers with the rows there are.
LEMMA FetchGapless == IInv /\ Gapless /\ Fetch => Gapless'
  <1>. SUFFICES ASSUME IInv, Gapless, Fetch PROVE Gapless'
    OBVIOUS
  <1>1. /\ answer = NotAsked /\ answer' = [rows |-> Len(buf.rows), state |-> state]
        /\ UNCHANGED <<buf, state, live, count, loop, lastSeen, inbox, wire, status, lastSeq, ask,
                       view, known>>
    BY DEF Fetch, server, loops, page
  <1>2. answer # Taken
    BY <1>1 DEF NotAsked, Taken
  <1>3. Settled' /\ Young'
    BY <1>1, <1>2 DEF Gapless, Settled, Young, Based, Chat, First, Resting
  <1>4. KnownLast'
    <2>1. answer' # Taken
      <3>1. answer'.state # Taken.state
        <4>1. state # "taken"
          BY DEF IInv, TypeOK, Terminal
        <4>. QED
          BY <1>1, <4>1 DEF Taken
      <3>. QED
        BY <3>1
    <2>2. answer'.rows = Len(buf.rows)
      BY <1>1
    <2>. QED
      BY <1>1, <2>1, <2>2 DEF Gapless, KnownLast
  <1>5. Resting' => Resting
    BY <1>1 DEF Resting
  <1>6. lastSeq <= End(buf) /\ Filled(buf, view, lastSeq) /\ InLine(buf, view, wire)
    BY DEF Gapless, Follows
  <1>. QED
    BY <1>1, <1>2, <1>3, <1>4, <1>5, <1>6, PageGapless

\* What a request that is put at the end does not change.
LEMMA AskLeaves ==
  ASSUME IInv, Gapless, NEW type \in {"recover", "resume"}, NEW last \in Nat, Ask(type, last, NoPrompt)
  PROVE  /\ inbox' # <<>>
         /\ \A i \in DOMAIN inbox' :
               \/ \E j \in DOMAIN inbox : inbox'[i] = inbox[j]
               \/ inbox'[i].type = type /\ inbox'[i].last = last
         /\ \A p : Chat(p) => Chat(p)'
  <1>. DEFINE e == [type |-> type, last |-> last, who |-> NoPrompt]
  <1>1. e \in Request /\ e.type = type /\ e.last = last
    BY DEF Request
  <1>2. inbox \in Seq(Request) /\ inbox' = Append(inbox, e)
    BY DEF IInv, TypeOK, Ask
  <1>. HIDE DEF e
  <1>3. /\ inbox' # <<>>
        /\ \A i \in DOMAIN inbox' : inbox'[i] = e \/ \E j \in DOMAIN inbox : inbox'[i] = inbox[j]
        /\ \A i \in DOMAIN inbox : \E j \in DOMAIN inbox' : inbox'[j] = inbox[i]
    BY <1>1, <1>2, AppendIs
  <1>. QED
    BY <1>1, <1>3 DEF Chat

\* A recover is asked for, from a point that leaves nothing out.
LEMMA AsksGapless ==
  ASSUME IInv, Gapless, NEW last \in Nat, last <= End(buf), Fed(buf, view, wire, last),
         Ask("recover", last, NoPrompt), ask' = "no" \/ ask' = ask,
         UNCHANGED <<buf, state, live, count, loop, lastSeen, wire, status, lastSeq, answer,
                     view, known>>
  PROVE  Gapless'
  <1>1. /\ inbox' # <<>>
        /\ \A i \in DOMAIN inbox' :
              \/ \E j \in DOMAIN inbox : inbox'[i] = inbox[j]
              \/ inbox'[i].type = "recover" /\ inbox'[i].last = last
        /\ \A p : Chat(p) => Chat(p)'
    BY AskLeaves
  <1>2. ~Resting'
    BY <1>1 DEF Resting
  <1>3. Settled'
    <2>1. Settled
      BY DEF Gapless
    <2>2. \A v : Based(v) => Based(v)'
      BY <1>1, <1>2 DEF Based, First
    <2>. QED
      BY <2>1, <2>2 DEF Settled
  <1>4. Young' /\ KnownLast'
    BY DEF Gapless, Young, KnownLast
  <1>5. lastSeq <= End(buf) /\ Filled(buf, view, lastSeq) /\ InLine(buf, view, wire)
    BY DEF Gapless, Follows
  <1>. QED
    BY <1>1, <1>2, <1>3, <1>4, <1>5, PageGapless

\* The auto-recover effect asks from the start, or from what the browser stored.
LEMMA RecoverGapless == IInv /\ Gapless /\ Recover => Gapless'
  <1>. SUFFICES ASSUME IInv, Gapless, Recover PROVE Gapless'
    OBVIOUS
  <1>1. /\ ask # "no" /\ ask' = "no" /\ Ask("recover", IF ask = "zero" THEN 0 ELSE known, NoPrompt)
        /\ UNCHANGED <<buf, state, live, count, loop, lastSeen, wire, status, lastSeq, answer,
                       view, known>>
    BY DEF Recover, server, loops
  <1>2. End(buf) \in Nat /\ known \in Nat /\ known <= End(buf)
    BY Numbers
  <1>3. CASE ask = "zero"
    <2>1. Fed(buf, view, wire, 0)
      BY FromStart
    <2>. QED
      BY <1>1, <1>2, <1>3, <2>1, AsksGapless
  <1>4. CASE ask # "zero"
    <2>1. ask = "known"
      BY <1>1, <1>4 DEF IInv, TypeOK
    <2>2. Filled(buf, view, known)
      BY <2>1 DEF Gapless, KnownLast
    <2>3. Fed(buf, view, wire, known)
      BY <2>2 DEF Filled, Fed, Given
    <2>. QED
      BY <1>1, <1>2, <1>4, <2>3, AsksGapless
  <1>. QED
    BY <1>3, <1>4

\* The largest index is that of what is shown.
LEMMA MaxIndexShown ==
  ASSUME IInv
  PROVE  /\ MaxIndex \in Nat
         /\ view = {} => MaxIndex = 0
         /\ view # {} => \E v \in view : v.index = MaxIndex
  <1>. DEFINE S == Indices \cup {0}
  <1>1. SoundView(view, sent)
    BY DEF IInv
  <1>2. S \subseteq Nat /\ S # {}
    BY <1>1 DEF Indices, SoundView
  <1>3. PICK top \in Nat : \A n \in S : n <= top
    BY <1>1 DEF Indices, SoundView
  <1>4. Largest(S) \in S /\ \A n \in S : n <= Largest(S)
    <2>. HIDE DEF S
    <2>. QED
      BY <1>2, <1>3, LargestIn, Zenon
  <1>5. view # {} => Largest(S) \in Indices
    <2>. HAVE view # {}
    <2>1. PICK v \in view : TRUE
      OBVIOUS
    <2>2. v.index \in Indices /\ v.index \in Nat
      BY <1>2 DEF Indices
    <2>3. v.index <= Largest(S)
      BY <1>4, <2>2
    <2>4. CASE Largest(S) = 0
      BY <2>2, <2>3, <2>4
    <2>5. CASE Largest(S) # 0
      BY <1>4, <2>5
    <2>. QED
      BY <2>4, <2>5
  <1>6. view = {} => S = {0}
    BY DEF Indices
  <1>. QED
    BY <1>2, <1>4, <1>5, <1>6 DEF MaxIndex, Indices

\* A page without a heartbeat asks from the largest index it shows on.
LEMMA StaleGapless == IInv /\ Gapless /\ Stale => Gapless'
  <1>. SUFFICES ASSUME IInv, Gapless, Stale PROVE Gapless'
    OBVIOUS
  <1>1. /\ inbox = <<>> /\ Ask("recover", RecoverIndex, NoPrompt)
        /\ UNCHANGED <<buf, state, live, count, loop, lastSeen, wire, status, lastSeq, ask, answer,
                       view, known>>
    BY DEF Stale, server, loops
  <1>2. /\ SoundBuffer(buf, sent) /\ Len(buf.rows) \in Nat /\ End(buf) \in Nat /\ Len(buf.rows) <= End(buf)
        /\ \A v \in view : v.index \in Nat
    BY Numbers
  <1>3. CASE view = {}
    <2>1. RecoverIndex = 0
      BY <1>3 DEF RecoverIndex
    <2>2. Fed(buf, view, wire, 0)
      BY FromStart
    <2>. QED
      BY <1>1, <1>2, <2>1, <2>2, AsksGapless
  <1>4. CASE view # {}
    <2>1. PICK v \in view : v.index = MaxIndex
      BY <1>4, MaxIndexShown
    <2>2. Based(v) /\ \A m \in RowsToShow(buf) : m.seq <= v.index => Right(view, m)
      BY DEF Gapless, Settled
    <2>3. v.index < Len(buf.rows)
      BY <1>1, <1>2, <2>2, BasedBelow DEF Chat
    <2>4. RecoverIndex = v.index + 1
      BY <1>4, <2>1 DEF RecoverIndex
    <2>5. RecoverIndex \in Nat /\ RecoverIndex <= End(buf)
      BY <1>2, <2>3, <2>4
    <2>6. \A m \in RowsToShow(buf) : m.seq < RecoverIndex => Right(view, m)
      <3>1. \A m \in RowsToShow(buf) : m.seq \in Nat
        BY <1>2, RowToShow
      <3>. QED
        BY <1>2, <2>2, <2>4, <3>1
    <2>7. Fed(buf, view, wire, RecoverIndex)
      <3>1. Filled(buf, view, RecoverIndex)
        BY <2>5, <2>6, FilledTo
      <3>. QED
        BY <3>1 DEF Filled, Fed, Given
    <2>. QED
      BY <1>1, <2>5, <2>7, AsksGapless
  <1>. QED
    BY <1>3, <1>4

\* A connection opens, and a resume asks for no less than what is not shown.
LEMMA OpenGapless == IInv /\ Gapless /\ Open => Gapless'
  <1>. SUFFICES ASSUME IInv, Gapless, Open PROVE Gapless'
    OBVIOUS
  <1>0. Asked /\ Settled /\ Follows
    BY DEF Gapless
  <1>1. /\ status = "closed" /\ loop = "closed" /\ loop' = "outer" /\ status' # "closed"
        /\ UNCHANGED <<buf, state, live, count, wire, lastSeq, answer, view, known>>
        /\ ask' = "known" => ask = "known" \/ view # {}
    BY <1>0 DEF Open, server, page, Follows
  <1>2. /\ ~Resting'
        /\ \A i \in DOMAIN inbox' :
              \/ \E j \in DOMAIN inbox : inbox'[i] = inbox[j]
              \/ inbox'[i].type = "resume" /\ inbox'[i].last = lastSeq /\ status' = "recovered"
        /\ \A p : Chat(p) => Chat(p)'
    <2>1. CASE lastSeq > 0
      <3>1. lastSeq \in Nat /\ Ask("resume", lastSeq, NoPrompt) /\ status' = "recovered"
        BY <2>1 DEF Open, IInv, TypeOK
      <3>. QED
        BY <3>1, AskLeaves DEF Resting
    <2>2. CASE ~(lastSeq > 0)
      <3>1. ask' # "no" /\ inbox' = inbox
        BY <2>2 DEF Open
      <3>. QED
        BY <3>1 DEF Resting, Chat
    <2>. QED
      BY <2>1, <2>2
  <1>3. lastSeq <= End(buf) /\ Filled(buf, view, lastSeq)
    BY <1>0 DEF Follows
  <1>4. Asked'
    <2>. SUFFICES ASSUME NEW i \in DOMAIN inbox'
                  PROVE  /\ \/ inbox'[i].last <= End(buf) /\ Fed(buf, view, wire, inbox'[i].last)
                            \/ inbox'[i].type = "chat" /\ First(inbox'[i].last)
                         /\ inbox'[i].type = "resume" => status' = "recovered"
                         /\ inbox'[i].type = "chat" =>
                               /\ ~live /\ answer = Taken
                               /\ \E v \in view : v.id = inbox'[i].who
                               /\ \A j \in DOMAIN inbox' : inbox'[j].type = "chat" => inbox'[j].who = inbox'[i].who
      BY <1>1 DEF Asked, First
    <2>1. CASE \E j \in DOMAIN inbox : inbox'[i] = inbox[j]
      <3>1. PICK j \in DOMAIN inbox : inbox'[i] = inbox[j]
        BY <2>1
      <3>2. /\ \/ inbox[j].last <= End(buf) /\ Fed(buf, view, wire, inbox[j].last)
               \/ inbox[j].type = "chat" /\ First(inbox[j].last)
            /\ inbox[j].type # "resume"
        BY <1>0, <1>1 DEF Asked
      <3>3. ASSUME inbox[j].type = "chat"
            PROVE  /\ ~live /\ answer = Taken
                   /\ \E v \in view : v.id = inbox[j].who
                   /\ \A k \in DOMAIN inbox' : inbox'[k].type = "chat" => inbox'[k].who = inbox[j].who
        <4>1. /\ ~live /\ answer = Taken
              /\ \E v \in view : v.id = inbox[j].who
              /\ \A k \in DOMAIN inbox : inbox[k].type = "chat" => inbox[k].who = inbox[j].who
          BY <1>0, <3>3 DEF Asked
        <4>2. \A k \in DOMAIN inbox' : inbox'[k].type = "chat" => \E l \in DOMAIN inbox : inbox'[k] = inbox[l]
          BY <1>2
        <4>. QED
          BY <4>1, <4>2
      <3>. QED
        BY <3>1, <3>2, <3>3
    <2>2. CASE inbox'[i].type = "resume" /\ inbox'[i].last = lastSeq /\ status' = "recovered"
      BY <1>3, <2>2 DEF Filled, Fed, Given
    <2>. QED
      BY <1>2, <2>1, <2>2
  <1>5. Settled'
    <2>1. \A v : Based(v) => Based(v)'
      BY <1>1, <1>2 DEF Based, First
    <2>. QED
      BY <1>0, <1>1, <2>1 DEF Settled
  <1>6. Ordered(buf') /\ Lasting' /\ Turns'
    BY <1>1, ServerKept
  <1>7. Young' /\ KnownLast' /\ Idle' /\ Follows' /\ InLine(buf', view', wire')
    <2>1. Young' /\ KnownLast' /\ InLine(buf', view', wire')
      BY <1>1 DEF Gapless, Young, KnownLast
    <2>2. Idle'
      BY <1>2 DEF Idle
    <2>3. Follows'
      BY <1>1, <1>3 DEF Follows, Watching
    <2>. QED
      BY <2>1, <2>2, <2>3
  <1>. QED
    BY <1>4, <1>5, <1>6, <1>7 DEF Gapless

\* The connection is gone: what is shown is based on rows, as no message was on its
\* way.
LEMMA CutSettled ==
  ASSUME IInv, Gapless, ~OnItsWay, loop' = "closed", UNCHANGED <<buf, view>>
  PROVE  Settled'
  <1>1. /\ SoundBuffer(buf, sent) /\ Settled
        /\ \A v \in view : v.index \in Nat
    BY Numbers DEF Gapless
  <1>2. ~Resting'
    BY DEF Resting
  <1>3. \A v \in view : Based(v)'
    <2>. TAKE v \in view
    <2>1. Based(v) /\ ~Chat(v.id)
      BY <1>1 DEF Settled, Chat, OnItsWay
    <2>2. v.index < Len(buf.rows)
      BY <1>1, <2>1, BasedBelow
    <2>. QED
      BY <1>2, <2>2 DEF Based
  <1>. QED
    BY <1>1, <1>3 DEF Settled

\* A broken connection takes requests and frames, and no chat message.
LEMMA DropGapless == IInv /\ Calm /\ Gapless /\ Drop => Gapless'
  <1>. SUFFICES ASSUME IInv, Calm, Gapless, Drop PROVE Gapless'
    OBVIOUS
  <1>1. /\ inbox' = <<>> /\ wire' = <<>> /\ loop' = "closed" /\ status' = "closed" /\ ask' = "no"
        /\ UNCHANGED <<buf, state, live, answer, lastSeq, view, known>>
        /\ ~OnItsWay
    BY DEF Drop, Cut, server, page, Calm
  <1>2. count'["text"] = count["text"] /\ count'["stream"] = count["stream"]
    BY DEF Drop, Spend, IInv, TypeOK
  <1>3. Ordered(buf') /\ Lasting' /\ Turns'
    BY <1>1, <1>2, ServerKept
  <1>4. Settled'
    BY <1>1, CutSettled
  <1>5. Asked' /\ Young' /\ KnownLast' /\ Idle' /\ InLine(buf', view', wire')
    BY <1>1 DEF Gapless, Asked, Young, KnownLast, Idle, Resting, InLine
  <1>6. Follows'
    BY <1>1 DEF Gapless, Follows, Watching
  <1>. QED
    BY <1>3, <1>4, <1>5, <1>6 DEF Gapless

\* A reload takes what is shown, too; what the browser stored stays.
LEMMA ReloadGapless == IInv /\ Calm /\ Gapless /\ Reload => Gapless'
  <1>. SUFFICES ASSUME IInv, Calm, Gapless, Reload PROVE Gapless'
    OBVIOUS
  <1>1. /\ inbox' = <<>> /\ wire' = <<>> /\ loop' = "closed" /\ status' = "closed" /\ ask' = "no"
        /\ answer' = NotAsked /\ lastSeq' = 0 /\ view' = {}
        /\ UNCHANGED <<buf, state, live, known>>
    BY DEF Reload, Cut, server
  <1>2. count'["text"] = count["text"] /\ count'["stream"] = count["stream"]
    BY DEF Reload, Spend, IInv, TypeOK
  <1>3. Ordered(buf') /\ Lasting' /\ Turns'
    BY <1>1, <1>2, ServerKept
  <1>4. NotAsked # Taken
    BY DEF NotAsked, Taken
  <1>5. Asked' /\ Settled' /\ Young' /\ KnownLast' /\ Idle' /\ InLine(buf', view', wire')
    BY <1>1, <1>4 DEF Gapless, Asked, Settled, Young, KnownLast, Idle, Resting, InLine
  <1>6. Follows'
    <2>1. 0 <= End(buf) /\ Filled(buf, {}, 0)
      BY Numbers, FromStart
    <2>. QED
      BY <1>1, <2>1 DEF Gapless, Follows, Watching
  <1>. QED
    BY <1>3, <1>5, <1>6 DEF Gapless

\* The history comes: its rows are shown then.
LEMMA LoadGapless == IInv /\ Gapless /\ Load => Gapless'
  <1>. SUFFICES ASSUME IInv, Gapless, Load PROVE Gapless'
    OBVIOUS
  <1>. DEFINE K == answer.rows
              rows == {buf.rows[n] : n \in 1..K}
              new == {m \in rows : m.seq \notin Indices /\ RowId(m) \notin Ids}
              item(m) == [id |-> RowId(m), index |-> m.seq]
  <1>0. /\ Asked /\ Settled /\ Young /\ KnownLast /\ Idle /\ Follows /\ InLine(buf, view, wire)
        /\ Ordered(buf)
        /\ TypeOK /\ SoundBuffer(buf, sent) /\ K <= Len(buf.rows)
    BY DEF Gapless, IInv
  <1>1. /\ answer # NotAsked /\ answer # Taken /\ answer' = Taken
        /\ view' = view \cup {item(m) : m \in new}
        /\ UNCHANGED <<buf, state, live, count, loop, lastSeen, wire, status, lastSeq, known>>
        /\ (inbox' = inbox /\ ask' = ask) \/ (Ask("recover", K, NoPrompt) /\ ask' = "no")
    BY DEF Load, server, loops
  <1>2. /\ Len(buf.rows) \in Nat /\ End(buf) \in Nat /\ Len(buf.rows) <= End(buf)
        /\ wire \in Seq(Frame) /\ known \in Nat
        /\ \A v \in view : v.index \in Nat
    BY Numbers
  <1>3. K \in Nat /\ K <= End(buf)
    BY <1>0, <1>2, AnswerType
  <1>4. view \subseteq view'
    BY <1>1
  <1>5. \A m \in RowsToShow(buf) : Right(view, m) => Right(view', m)
    BY <1>4 DEF Right
  <1>6. ASSUME NEW m \in RowsToShow(buf), m.seq < K
        PROVE  Right(view', m)
    <2>1. m.seq \in Nat /\ buf.rows[m.seq + 1] = m
      BY <1>0, RowToShow
    <2>2. m \in rows
      <3>1. m.seq + 1 \in 1..K
        BY <1>3, <1>6, <2>1
      <3>. QED
        BY <2>1, <3>1
    <2>3. CASE m \in new
      <3>1. item(m) \in view' /\ item(m).id = RowId(m) /\ item(m).index >= m.seq
        BY <1>1, <2>1, <2>3
      <3>. QED
        BY <3>1 DEF Right
    <2>4. CASE m.seq \in Indices
      <3>1. PICK v \in view : v.index = m.seq
        BY <2>4 DEF Indices
      <3>2. Right(view, m)
        BY <1>0, <2>1, <3>1 DEF Settled
      <3>. QED
        BY <1>5, <3>2
    <2>5. CASE RowId(m) \in Ids
      <3>1. PICK v \in view : v.id = RowId(m)
        BY <2>5 DEF Ids
      <3>2. v.index >= m.seq
        BY <1>0, <1>1, <3>1 DEF Young
      <3>3. Right(view, m)
        BY <3>1, <3>2 DEF Right
      <3>. QED
        BY <1>5, <3>3
    <2>. QED
      BY <2>2, <2>3, <2>4, <2>5
  <1>7. \A m \in new : /\ m.seq \in Nat /\ m.seq < K
                       /\ RowId(m) \notin Prompt => RowId(m) = m.seq
    <2>. TAKE m \in new
    <2>1. PICK n \in 1..K : m = buf.rows[n]
      OBVIOUS
    <2>2. n \in DOMAIN buf.rows /\ n \in Nat /\ n >= 1 /\ n <= K
      <3>1. buf.rows \in Seq(Message)
        BY <1>0 DEF SoundBuffer
      <3>. QED
        BY <1>0, <1>2, <1>3, <3>1
    <2>3. m.seq = n - 1
      BY <1>0, <2>1, <2>2 DEF SoundBuffer, SoundRows
    <2>4. m.kind = "user" => m.who \in Prompt
      BY <1>0, <2>1, <2>2 DEF SoundBuffer, AuthorsOf, TypeOK
    <2>. QED
      BY <1>3, <2>2, <2>3, <2>4 DEF RowId
  <1>. HIDE DEF new
  <1>8. ~Resting /\ loop # "subscribe" /\ \A i \in DOMAIN inbox : inbox[i].type # "chat"
    BY <1>0, <1>1 DEF Idle, Follows, Asked
  <1>9. /\ \A i \in DOMAIN inbox' :
              \/ \E j \in DOMAIN inbox : inbox'[i] = inbox[j]
              \/ inbox'[i].type = "recover" /\ inbox'[i].last = K
        /\ \A p : Chat(p) => Chat(p)'
        /\ ~Resting'
    <2>1. CASE inbox' = inbox /\ ask' = ask
      BY <1>1, <1>8, <2>1 DEF Resting, Chat
    <2>2. CASE Ask("recover", K, NoPrompt)
      BY <1>3, <2>2, AskLeaves DEF Resting
    <2>. QED
      BY <1>1, <2>1, <2>2
  <1>. HIDE DEF K
  <1>10. Filled(buf, view', K)
    BY <1>3, <1>6, FilledTo
  <1>11. /\ \A n : Filled(buf, view, n) => Filled(buf, view', n)
         /\ \A m \in RowsToShow(buf) : Given(view, wire, m) => Given(view', wire', m)
    BY <1>1, <1>5 DEF Filled, Given
  <1>12. InLine(buf, view', wire')
    <2>1. Grows(buf, buf)
      BY <1>0, GrowsNot
    <2>2. InLine(buf, view', wire)
      BY <1>0, <1>2, <1>5, <2>1, InLineOn
    <2>. QED
      BY <1>1, <2>2
  <1>13. \A i \in DOMAIN inbox' :
            \/ \E j \in DOMAIN inbox : inbox'[i] = inbox[j]
            \/ /\ inbox'[i].type = "recover" /\ inbox'[i].last <= End(buf)
               /\ Fed(buf, view', wire', inbox'[i].last)
    <2>1. Fed(buf, view', wire', K)
      BY <1>10 DEF Filled, Fed, Given
    <2>. QED
      BY <1>3, <1>9, <2>1
  <1>14. Settled'
    <2>. SUFFICES ASSUME NEW v \in view'
                  PROVE  /\ Based(v)'
                         /\ \A m \in RowsToShow(buf) : m.seq <= v.index => Right(view', m)
                         /\ v.id \notin Prompt => v.id = v.index /\ v.index < Len(buf.rows)
      BY <1>1 DEF Settled
    <2>1. CASE v \in view
      <3>1. /\ Based(v)
            /\ \A m \in RowsToShow(buf) : m.seq <= v.index => Right(view, m)
            /\ v.id \notin Prompt => v.id = v.index /\ v.index < Len(buf.rows)
        BY <1>0, <2>1 DEF Settled
      <3>2. Based(v)'
        BY <1>1, <1>9, <3>1 DEF Based, First
      <3>. QED
        BY <1>5, <3>1, <3>2
    <2>2. CASE v \notin view
      <3>1. PICK m \in new : v.id = RowId(m) /\ v.index = m.seq
        BY <1>1, <2>2
      <3>2. v.index \in Nat /\ v.index < K /\ v.index < Len(buf.rows)
        BY <1>0, <1>2, <1>3, <1>7, <3>1 DEF K
      <3>3. Based(v)'
        BY <1>1, <1>8, <1>9, <3>2 DEF Based
      <3>4. \A x \in RowsToShow(buf) : x.seq <= v.index => Right(view', x)
        <4>. TAKE x \in RowsToShow(buf)
        <4>. HAVE x.seq <= v.index
        <4>1. x.seq \in Nat
          BY <1>0, RowToShow
        <4>2. x.seq < K
          BY <1>3, <3>2, <4>1
        <4>. QED
          BY <1>6, <4>2
      <3>. QED
        BY <1>7, <3>1, <3>2, <3>3, <3>4
    <2>. QED
      BY <2>1, <2>2
  <1>15. Young'
    BY <1>1 DEF Young
  <1>16. KnownLast'
    <2>1. Filled(buf, view', known)
      <3>1. CASE Filled(buf, view, known)
        BY <1>11, <3>1
      <3>2. CASE known <= K
        <4>1. \A m \in RowsToShow(buf) : m.seq < known => Right(view', m)
          <5>1. \A m \in RowsToShow(buf) : m.seq \in Nat
            BY <1>0, RowToShow
          <5>. QED
            BY <1>2, <1>3, <1>6, <3>2, <5>1
        <4>. QED
          BY <1>2, <4>1, FilledTo
      <3>. QED
        BY <1>0, <1>1, <3>1, <3>2 DEF KnownLast, K
    <2>2. ask' = "known" => view' # {}
      BY <1>0, <1>1, <1>4 DEF KnownLast
    <2>. QED
      BY <1>0, <1>1, <2>1, <2>2 DEF KnownLast
  <1>17. lastSeq' <= End(buf) /\ Filled(buf, view', lastSeq')
    BY <1>0, <1>1, <1>11 DEF Follows
  <1>. QED
    BY <1>1, <1>4, <1>5, <1>9, <1>11, <1>12, <1>13, <1>14, <1>15, <1>16, <1>17, PageGapless

\* What handleIncomingMessage makes of a frame with a row: the row is shown under
\* its seq or a larger index, and so are those that were.
LEMMA MergedShows ==
  ASSUME IInv, Gapless, NEW f \in Frame, f.kind \in Visible, FrameOf(buf, f)
  PROVE  \E m0 \in RowsToShow(buf) :
            /\ m0.seq = f.index /\ RowId(m0) = FrameId(f)
            /\ Right(Merged(f), m0)
            /\ \A m \in RowsToShow(buf) : Right(view, m) => Right(Merged(f), m)
            /\ \A x \in view : \E y \in Merged(f) : y.id = x.id
            /\ \A y \in Merged(f) : y \in view \/ (y.id = FrameId(f) /\ y.index = f.index)
  <1>. DEFINE id == FrameId(f)
              again == f.index \in Indices /\ (f.replay \/ f.kind # "user" \/ FirstTurn(f))
              moves(v) == v.id = id /\ (f.replay \/ f.index >= v.index)
              moved(v) == IF moves(v) THEN [v EXCEPT !.index = f.index] ELSE v
              item == [id |-> id, index |-> f.index]
  <1>0. /\ TypeOK /\ SoundBuffer(buf, sent) /\ Settled
        /\ buf.rows \in Seq(Message) /\ Len(buf.rows) \in Nat
        /\ view \subseteq [id : Nat \cup Prompt, index : Nat]
    <2>1. TypeOK /\ SoundBuffer(buf, sent) /\ Settled
      BY DEF IInv, Gapless
    <2>2. view \subseteq [id : Nat \cup Prompt, index : Nat]
      BY <2>1 DEF TypeOK
    <2>3. buf.rows \in Seq(Message)
      BY <2>1 DEF SoundBuffer
    <2>. QED
      BY <2>1, <2>2, <2>3
  <1>1. f.index \in Nat /\ f.index + 1 \in DOMAIN buf.rows
    BY <1>0 DEF Frame, FrameOf
  <1>2. PICK m0 \in RowsToShow(buf) : m0 = buf.rows[f.index + 1]
    BY <1>1 DEF FrameOf, RowsToShow
  <1>3. m0.seq = f.index /\ m0.kind = f.kind /\ m0.who = f.who
    BY <1>0, <1>1, <1>2 DEF FrameOf, SoundBuffer, SoundRows
  <1>4. RowId(m0) = id
    BY <1>3 DEF RowId, FrameId
  <1>5. \A m \in RowsToShow(buf) : RowId(m) = id => m = m0
    BY <1>0, <1>4, RowIdOnce
  <1>6. \A v \in view : v.index \in Nat
    BY <1>0
  <1>. HIDE DEF id
  <1>7. CASE again
    <2>1. Merged(f) = view
      BY <1>7 DEF Merged
    <2>2. PICK v \in view : v.index = f.index
      BY <1>7 DEF Indices
    <2>3. m0.seq <= v.index
      BY <1>1, <1>3, <2>2
    <2>4. Right(view, m0)
      BY <1>0, <2>3 DEF Settled
    <2>. QED
      BY <1>3, <1>4, <2>1, <2>4 DEF id
  <1>8. CASE ~again /\ id \in Ids
    <2>1. Merged(f) = {moved(v) : v \in view}
      BY <1>8 DEF Merged, id
    <2>2. \A v \in view : /\ moved(v).id = v.id
                          /\ moves(v) => moved(v).index = f.index
                          /\ ~moves(v) => moved(v) = v
                          /\ moved(v) \in Merged(f)
      BY <1>0, <2>1
    <2>3. \A y \in Merged(f) : y \in view \/ (y.id = id /\ y.index = f.index)
      <3>. TAKE y \in Merged(f)
      <3>1. PICK v \in view : y = moved(v)
        BY <2>1
      <3>2. moves(v) => v.id = id
        OBVIOUS
      <3>. HIDE DEF moved, moves
      <3>. QED
        BY <2>2, <3>1, <3>2
    <2>. HIDE DEF moved
    <2>4. Right(Merged(f), m0)
      <3>1. PICK v \in view : v.id = id
        BY <1>8 DEF Ids
      <3>2. CASE moves(v)
        <4>1. moved(v).id = RowId(m0) /\ moved(v).index >= m0.seq
          BY <1>1, <1>3, <1>4, <2>2, <3>1, <3>2
        <4>. QED
          BY <2>2, <4>1 DEF Right
      <3>3. CASE ~moves(v)
        <4>1. v.index >= m0.seq
          BY <1>1, <1>3, <1>6, <3>1, <3>3
        <4>2. v \in Merged(f)
          BY <2>2, <3>3
        <4>. QED
          BY <1>4, <3>1, <4>1, <4>2 DEF Right
      <3>. QED
        BY <3>2, <3>3
    <2>5. ASSUME NEW m \in RowsToShow(buf), Right(view, m)
          PROVE  Right(Merged(f), m)
      <3>1. PICK v \in view : v.id = RowId(m) /\ v.index >= m.seq
        BY <2>5 DEF Right
      <3>2. CASE moves(v)
        BY <1>5, <2>4, <3>1, <3>2
      <3>3. CASE ~moves(v)
        BY <2>2, <3>1, <3>3 DEF Right
      <3>. QED
        BY <3>2, <3>3
    <2>6. \A x \in view : \E y \in Merged(f) : y.id = x.id
      BY <2>2
    <2>. QED
      BY <1>3, <1>4, <2>3, <2>4, <2>5, <2>6 DEF id
  <1>9. CASE ~again /\ id \notin Ids
    <2>1. Merged(f) = view \cup {item}
      BY <1>9 DEF Merged, id
    <2>2. item.id = RowId(m0) /\ item.index >= m0.seq
      BY <1>1, <1>3, <1>4
    <2>3. item.id = id /\ item.index = f.index
      OBVIOUS
    <2>. HIDE DEF item
    <2>4. Right(Merged(f), m0)
      BY <2>1, <2>2 DEF Right
    <2>5. \A m \in RowsToShow(buf) : Right(view, m) => Right(Merged(f), m)
      BY <2>1 DEF Right
    <2>. QED
      BY <1>3, <1>4, <2>1, <2>3, <2>4, <2>5 DEF id
  <1>. QED
    BY <1>7, <1>8, <1>9

\* A frame is taken off the wire, and its row is shown.
LEMMA ReceiveGapless == IInv /\ Gapless /\ Receive => Gapless'
  <1>. SUFFICES ASSUME IInv, Gapless, Receive PROVE Gapless'
    OBVIOUS
  <1>. DEFINE f == Head(wire)
  <1>0. /\ Asked /\ Settled /\ Young /\ KnownLast /\ Idle /\ Follows /\ InLine(buf, view, wire)
        /\ Ordered(buf) /\ TypeOK /\ SoundBuffer(buf, sent) /\ SoundWire(wire, sent) /\ wire # <<>>
    BY DEF Gapless, IInv, Receive
  <1>1. /\ lastSeq' = SeqAfter(f)
        /\ f.kind \in Visible => view' = Merged(f) /\ known' = f.index
        /\ f.kind \notin Visible => view' = view /\ known' = known
        /\ Ask("recover", 0, NoPrompt) \/ inbox' = inbox
        /\ wire' = Tail(wire)
        /\ UNCHANGED <<buf, state, live, count, loop, lastSeen, status, ask, answer>>
    BY DEF Receive, server, loops
  <1>2. /\ Len(buf.rows) \in Nat /\ End(buf) \in Nat /\ Len(buf.rows) <= End(buf)
        /\ \A v \in view : v.index \in Nat
        /\ wire \in Seq(Frame)
        /\ lastSeq \in Nat
    BY Numbers
  <1>3. /\ 1 \in DOMAIN wire /\ f = wire[1] /\ f \in Frame
        /\ \A i \in DOMAIN wire' : i \in Nat \ {0} /\ i + 1 \in DOMAIN wire /\ wire'[i] = wire[i + 1]
        /\ \A j \in DOMAIN wire : j # 1 => j - 1 \in DOMAIN wire' /\ wire'[j - 1] = wire[j]
        /\ DOMAIN wire = 1..Len(wire) /\ DOMAIN wire' = 1..Len(wire') /\ Len(wire') = Len(wire) - 1
        /\ Len(wire) \in Nat
    <2>1. f \in Frame /\ (f.kind = "user" => f.who \in sent)
      BY <1>0, HeadOfWire
    <2>2. /\ 1 \in DOMAIN wire /\ f = wire[1]
          /\ \A i \in DOMAIN Tail(wire) : i \in Nat \ {0} /\ i + 1 \in DOMAIN wire /\ Tail(wire)[i] = wire[i + 1]
          /\ \A j \in DOMAIN wire : j # 1 => j - 1 \in DOMAIN Tail(wire) /\ Tail(wire)[j - 1] = wire[j]
          /\ DOMAIN wire = 1..Len(wire) /\ DOMAIN Tail(wire) = 1..Len(Tail(wire)) /\ Len(Tail(wire)) = Len(wire) - 1
          /\ Len(wire) \in Nat
      BY <1>0, <1>2
    <2>. HIDE DEF f
    <2>. QED
      BY <1>1, <2>1, <2>2
  <1>. HIDE DEF f
  <1>4. /\ FrameOf(buf, f) /\ f.index \in Nat
        /\ \A m \in RowsToShow(buf) : Later(buf, f, m) \/ Right(view, m)
    <2>1. 1 \in DOMAIN wire /\ f = wire[1] /\ InLine(buf, view, wire)
      BY <1>0, <1>3
    <2>2. /\ FrameOf(buf, wire[1])
          /\ \A m \in RowsToShow(buf) : Later(buf, wire[1], m) \/ Right(view, m) \/ Ahead(wire, 1 - 1, m)
      BY <2>1, Zenon DEF InLine
    <2>3. \A m : ~Ahead(wire, 1 - 1, m)
      BY DEF Ahead
    <2>4. f \in Frame
      BY <1>3
    <2>5. f.index \in Nat
      BY <2>4 DEF Frame
    <2>. QED
      BY <2>1, <2>2, <2>3, <2>5
  <1>5. \A m \in RowsToShow(buf) : m.seq \in Nat /\ (m.kind = "user" => m.who \in Prompt)
    BY <1>0, RowToShow, RowIdOnce
  \* What the frame does to what is shown
  <1>6. /\ \A m \in RowsToShow(buf) : Right(view, m) => Right(view', m)
        /\ \A x \in view : \E y \in view' : y.id = x.id
        /\ \A y \in view' : y \in view \/ (f.kind \in Visible /\ y.id = FrameId(f) /\ y.index = f.index)
        /\ f.kind \in Visible =>
              \E m0 \in RowsToShow(buf) :
                 m0.seq = f.index /\ RowId(m0) = FrameId(f) /\ Right(view', m0)
    <2>1. CASE f.kind \in Visible
      <3>1. f \in Frame /\ FrameOf(buf, f) /\ view' = Merged(f)
        BY <1>1, <1>3, <1>4, <2>1
      <3>. QED
        BY <2>1, <3>1, MergedShows
    <2>2. CASE f.kind \notin Visible
      BY <1>1, <2>2
    <2>. QED
      BY <2>1, <2>2
  <1>7. \A m \in RowsToShow(buf) : (f.kind \in Visible /\ m.seq = f.index) => Right(view', m)
    <2>. TAKE m \in RowsToShow(buf)
    <2>. HAVE f.kind \in Visible /\ m.seq = f.index
    <2>1. PICK m0 \in RowsToShow(buf) : m0.seq = f.index /\ Right(view', m0)
      BY <1>6
    <2>2. m = m0
      BY <1>0, <2>1, RowToShow
    <2>. QED
      BY <2>1, <2>2
  <1>8. f.kind \in Visible => \A m \in RowsToShow(buf) : m.seq <= f.index => Right(view', m)
    <2>. HAVE f.kind \in Visible
    <2>. TAKE m \in RowsToShow(buf)
    <2>. HAVE m.seq <= f.index
    <2>1. CASE m.seq = f.index
      BY <1>7, <2>1
    <2>2. CASE m.seq # f.index
      <3>1. ~Later(buf, f, m)
        BY <1>4, <1>5, <2>2 DEF Later
      <3>. QED
        BY <1>4, <1>6, <3>1
    <2>. QED
      BY <2>1, <2>2
  <1>9. ASSUME NEW m \in RowsToShow(buf), NEW i \in DOMAIN wire, Ahead(wire, i, m)
        PROVE  Right(view', m) \/ Ahead(wire', i - 1, m)
    <2>1. PICK j \in 1 .. i : wire[j].kind \in Visible /\ wire[j].index = m.seq
      BY <1>9 DEF Ahead
    <2>2. CASE j = 1
      <3>1. f = wire[1]
        BY <1>3
      <3>. QED
        BY <1>7, <2>1, <2>2, <3>1
    <2>3. CASE j # 1
      <3>1. j \in DOMAIN wire /\ j - 1 \in 1 .. i - 1
        BY <1>3, <2>3
      <3>2. wire'[j - 1] = wire[j]
        BY <1>3, <2>3, <3>1
      <3>. QED
        BY <2>1, <3>1, <3>2 DEF Ahead
    <2>. QED
      BY <2>2, <2>3
  <1>10. InLine(buf, view', wire')
    <2>. SUFFICES ASSUME NEW i \in DOMAIN wire'
                  PROVE  /\ FrameOf(buf, wire'[i])
                         /\ \A m \in RowsToShow(buf) : Later(buf, wire'[i], m) \/ Right(view', m) \/ Ahead(wire', i - 1, m)
      BY DEF InLine
    <2>1. i \in Nat \ {0} /\ i + 1 \in DOMAIN wire /\ i \in DOMAIN wire /\ wire'[i] = wire[i + 1] /\ (i + 1) - 1 = i
      BY <1>3
    <2>2. /\ FrameOf(buf, wire[i + 1])
          /\ \A m \in RowsToShow(buf) : Later(buf, wire[i + 1], m) \/ Right(view, m) \/ Ahead(wire, (i + 1) - 1, m)
      BY <1>0, <2>1 DEF InLine
    <2>. QED
      BY <1>6, <1>9, <2>1, <2>2
  <1>11. \A m \in RowsToShow(buf) : Given(view, wire, m) => Given(view', wire', m)
    <2>. TAKE m \in RowsToShow(buf)
    <2>. HAVE Given(view, wire, m)
    <2>1. CASE Right(view, m)
      BY <1>6, <2>1 DEF Given
    <2>2. CASE Ahead(wire, Len(wire), m)
      <3>1. Len(wire) \in DOMAIN wire /\ Len(wire) - 1 = Len(wire')
        BY <1>3
      <3>. QED
        BY <1>9, <2>2, <3>1 DEF Given
    <2>. QED
      BY <2>1, <2>2 DEF Given
  <1>12. /\ \A i \in DOMAIN inbox' :
              \/ \E j \in DOMAIN inbox : inbox'[i] = inbox[j]
              \/ inbox'[i].type = "recover" /\ inbox'[i].last = 0
         /\ \A p : Chat(p) => Chat(p)'
         /\ Resting' => Resting
    <2>1. CASE inbox' = inbox
      BY <1>1, <2>1 DEF Resting, Chat
    <2>2. CASE Ask("recover", 0, NoPrompt)
      BY <2>2, AskLeaves DEF Resting
    <2>. QED
      BY <1>1, <2>1, <2>2
  <1>13. \A i \in DOMAIN inbox' :
            \/ \E j \in DOMAIN inbox : inbox'[i] = inbox[j]
            \/ /\ inbox'[i].type = "recover" /\ inbox'[i].last <= End(buf)
               /\ Fed(buf, view', wire', inbox'[i].last)
    <2>1. Fed(buf, view', wire', 0)
      BY FromStart
    <2>2. 0 <= End(buf)
      BY <1>2
    <2>. QED
      BY <1>12, <2>1, <2>2
  <1>14. Settled'
    <2>. SUFFICES ASSUME NEW v \in view'
                  PROVE  /\ Based(v)'
                         /\ \A m \in RowsToShow(buf) : m.seq <= v.index => Right(view', m)
                         /\ v.id \notin Prompt => v.id = v.index /\ v.index < Len(buf.rows)
      BY <1>1 DEF Settled
    <2>1. CASE v \in view
      <3>1. /\ Based(v)
            /\ \A m \in RowsToShow(buf) : m.seq <= v.index => Right(view, m)
            /\ v.id \notin Prompt => v.id = v.index /\ v.index < Len(buf.rows)
        BY <1>0, <2>1 DEF Settled
      <3>2. Based(v)'
        BY <1>1, <1>12, <3>1 DEF Based, First
      <3>. QED
        BY <1>6, <3>1, <3>2
    <2>2. CASE f.kind \in Visible /\ v.id = FrameId(f) /\ v.index = f.index
      <3>1. PICK m0 \in RowsToShow(buf) : m0.seq = f.index /\ RowId(m0) = FrameId(f)
        BY <1>6, <2>2
      <3>2. Based(v)'
        BY <1>1, <2>2, <3>1 DEF Based
      <3>3. f.index < Len(buf.rows)
        BY <1>4, <2>2 DEF FrameOf
      <3>4. v.id \notin Prompt => v.id = v.index
        BY <1>5, <2>2, <3>1 DEF RowId
      <3>. QED
        BY <1>8, <2>2, <3>2, <3>3, <3>4
    <2>. QED
      BY <1>6, <2>1, <2>2
  <1>15. Young'
    <2>. SUFFICES ASSUME answer # Taken, NEW v \in view', NEW m \in RowsToShow(buf), RowId(m) = v.id
                  PROVE  v.index >= m.seq
      BY <1>1 DEF Young
    <2>1. CASE v \in view
      BY <1>0, <2>1 DEF Young
    <2>2. CASE f.kind \in Visible /\ v.id = FrameId(f) /\ v.index = f.index
      <3>1. PICK m0 \in RowsToShow(buf) : m0.seq = f.index /\ RowId(m0) = FrameId(f)
        BY <1>6, <2>2
      <3>2. m = m0
        BY <1>0, <2>2, <3>1, RowIdOnce
      <3>. QED
        BY <1>4, <2>2, <3>1, <3>2
    <2>. QED
      BY <1>6, <2>1, <2>2
  <1>16. f.index <= End(buf) /\ Filled(buf, view', f.index)
    <2>1. CASE f.kind \in Visible
      <3>1. \A m \in RowsToShow(buf) : m.seq < f.index => Right(view', m)
        BY <1>4, <1>5, <1>8, <2>1
      <3>2. Filled(buf, view', f.index)
        BY <1>4, <3>1, FilledTo
      <3>. QED
        BY <1>4, <3>2 DEF FrameOf
    <2>2. CASE f.kind \notin Visible
      BY <1>4, <1>6, <2>2 DEF FrameOf, Later, Filled
    <2>. QED
      BY <2>1, <2>2
  <1>17. \A n : Filled(buf, view, n) => Filled(buf, view', n)
    BY <1>6 DEF Filled
  <1>18. KnownLast'
    <2>1. ask' = "known" => view' # {}
      BY <1>0, <1>1, <1>6 DEF KnownLast
    <2>2. CASE f.kind \in Visible
      <3>1. known' <= Len(buf.rows)
        BY <1>1, <1>2, <1>4, <2>2 DEF FrameOf
      <3>. QED
        BY <1>1, <1>16, <2>1, <2>2, <3>1 DEF KnownLast
    <2>3. CASE f.kind \notin Visible
      BY <1>0, <1>1, <2>1, <2>3 DEF KnownLast
    <2>. QED
      BY <2>2, <2>3
  <1>19. lastSeq' <= End(buf) /\ Filled(buf, view', lastSeq')
    <2>1. lastSeq \in Index /\ f.index \in Index
      BY <1>2, <1>4 DEF Index
    <2>2. lastSeq' = lastSeq \/ lastSeq' = f.index
      BY <1>1, <2>1, LargerOfTwo DEF SeqAfter
    <2>3. lastSeq <= End(buf) /\ Filled(buf, view', lastSeq)
      BY <1>0, <1>17 DEF Follows
    <2>. QED
      BY <1>16, <2>2, <2>3
  <1>. QED
    BY <1>1, <1>6, <1>10, <1>11, <1>12, <1>13, <1>14, <1>15, <1>18, <1>19, PageGapless

\* With nothing on its way, all rows that may be numbered alike with a message of
\* the page's own are shown.
LEMMA SendShown ==
  ASSUME IInv, Gapless, UpToDate, ~live, status = "connected", ask = "no", loop # "subscribe"
  PROVE  /\ MaxIndex \in Nat
         /\ MaxIndex + 1 <= Len(buf.rows) \/ First(MaxIndex + 1)
         /\ \A m \in RowsToShow(buf) : m.seq <= MaxIndex + 1 => Right(view, m)
  <1>. DEFINE N == Len(buf.rows)
              M == MaxIndex
  <1>0. /\ inbox = <<>> /\ wire = <<>> /\ Settled /\ Turns /\ Follows /\ Idle /\ Ordered(buf)
        /\ TypeOK /\ SoundBuffer(buf, sent) /\ buf.rows \in Seq(Message)
    BY DEF UpToDate, Gapless, IInv, SoundBuffer
  <1>1. /\ M \in Nat
        /\ view = {} => M = 0
        /\ view # {} => \E v \in view : v.index = M
    BY MaxIndexShown
  <1>. HIDE DEF M
  <1>2. N \in Nat /\ \A v \in view : v.index \in Nat
    BY Numbers
  <1>3. \A p : ~Chat(p)
    BY <1>0 DEF Chat
  <1>4. view # {} => M < N
    BY <1>0, <1>1, <1>2, <1>3, BasedBelow DEF Settled
  <1>5. M + 1 <= N \/ First(M + 1)
    <2>1. CASE N = 0
      <3>1. buf.rows = <<>> /\ M = 0
        BY <1>0, <1>1, <1>4, <2>1
      <3>. QED
        BY <3>1 DEF First
    <2>2. CASE N # 0
      BY <1>1, <1>2, <1>4, <2>2
    <2>. QED
      BY <2>1, <2>2
  <1>6. \A m \in RowsToShow(buf) : Given(view, wire, m) => Right(view, m)
    BY <1>0 DEF Given, Ahead
  <1>7. CASE loop \in Watching
    <2>1. lastSeen \in Nat /\ Fed(buf, view, wire, lastSeen)
      BY <1>0, <1>7 DEF Follows, TypeOK
    <2>2. \A m \in RowsToShow(buf) : ~ToCome(m)
      BY <1>7 DEF UpToDate, VisibleRows, RowsToShow
    <2>3. \A m \in RowsToShow(buf) : Left(buf, lastSeen, m) => ToCome(m)
      BY <1>0, <2>1, HistoryIs DEF History, ToCome
    <2>4. \A m \in RowsToShow(buf) : Right(view, m)
      BY <1>6, <2>1, <2>2, <2>3 DEF Fed
    <2>. QED
      BY <1>1, <1>5, <2>4 DEF M
  <1>8. CASE loop \notin Watching
    <2>1. loop = "outer" /\ Resting
      <3>1. loop # "closed"
        BY <1>0 DEF Follows
      <3>. QED
        BY <1>0, <1>8, <3>1 DEF TypeOK, Resting
    <2>2. \A m \in RowsToShow(buf) : m.seq < N - 1 => Right(view, m)
      BY <1>0, <1>6, <2>1 DEF Idle
    <2>3. ASSUME NEW m \in RowsToShow(buf), m.seq <= M + 1
          PROVE  Right(view, m)
      <3>1. m.seq \in Nat /\ m.seq < N /\ buf.rows[m.seq + 1] = m
        BY <1>0, RowToShow
      <3>2. CASE m.seq < N - 1
        BY <2>2, <3>2
      <3>3. CASE m.seq = N - 1
        <4>1. N > 2 /\ buf.rows[N].kind = "result" /\ buf.rows[N - 1].kind = "completed"
          BY <1>0, <1>2, <3>1 DEF Turns
        <4>2. M + 1 >= N - 1 /\ M > 0
          BY <1>1, <1>2, <2>3, <3>3, <4>1
        <4>3. PICK v \in view : v.index = M
          BY <1>1, <4>2
        <4>4. Based(v) /\ \A x \in RowsToShow(buf) : x.seq <= v.index => Right(view, x)
          BY <1>0 DEF Settled
        <4>5. M = N - 1 \/ M = N - 2
          BY <1>1, <1>2, <1>4, <4>2, <4>3
        <4>6. CASE M = N - 1
          <5>1. m.seq <= v.index
            BY <1>1, <3>1, <3>3, <4>3, <4>6
          <5>. QED
            BY <4>4, <5>1
        <4>7. CASE M = N - 2
          <5>1. ~\E x \in RowsToShow(buf) : x.seq = v.index
            <6>. SUFFICES ASSUME NEW x \in RowsToShow(buf), x.seq = v.index PROVE FALSE
              OBVIOUS
            <6>1. buf.rows[x.seq + 1] = x /\ x.kind \in Visible
              BY <1>0, RowToShow
            <6>2. x.seq + 1 = N - 1
              BY <1>1, <1>2, <4>3, <4>7
            <6>3. x.kind = "completed"
              BY <4>1, <6>1, <6>2
            <6>. QED
              BY <6>1, <6>3 DEF Visible
          <5>2. ~\E i \in DOMAIN buf.rows : buf.rows[i].kind = "running" /\ i > v.index
            <6>. SUFFICES ASSUME NEW i \in DOMAIN buf.rows, buf.rows[i].kind = "running", i > v.index PROVE FALSE
              OBVIOUS
            <6>1. i \in Nat /\ i <= N
              BY <1>0
            <6>2. i = N \/ i = N - 1
              BY <1>1, <1>2, <4>3, <4>7, <6>1
            <6>. QED
              BY <4>1, <6>2
          <5>. QED
            BY <1>3, <2>1, <4>4, <5>1, <5>2 DEF Based
        <4>. QED
          BY <4>5, <4>6, <4>7
      <3>. QED
        BY <1>2, <3>1, <3>2, <3>3
    <2>. QED
      BY <1>1, <1>5, <2>3 DEF M
  <1>. QED
    BY <1>7, <1>8

\* A chat message is shown, and sent with the index it has there.
LEMMA SendGapless ==
  ASSUME IInv, Calm, Gapless, NEW p \in Prompt, Send(p)
  PROVE  Gapless'
  <1>. DEFINE M == MaxIndex
              mine == [id |-> p, index |-> M + 1]
              r == [type |-> "chat", last |-> M + 1, who |-> p]
  <1>0. /\ Asked /\ Settled /\ Young /\ KnownLast /\ Idle /\ Follows
        /\ TypeOK /\ SoundBuffer(buf, sent)
    BY DEF Gapless, IInv
  <1>1. /\ UpToDate /\ ~live /\ answer = Taken /\ status = "connected" /\ ask = "no" /\ loop # "subscribe"
        /\ view' = view \cup {mine}
        /\ inbox' = Append(inbox, r)
        /\ inbox = <<>> /\ wire = <<>>
        /\ UNCHANGED <<buf, state, live, count, loop, lastSeen, wire, status, lastSeq, ask, answer, known>>
    BY DEF Send, Calm, UpToDate, Ask, server, loops
  <1>2. /\ M \in Nat
        /\ M + 1 <= Len(buf.rows) \/ First(M + 1)
        /\ \A m \in RowsToShow(buf) : m.seq <= M + 1 => Right(view, m)
    BY <1>1, SendShown
  <1>3. Len(buf.rows) \in Nat /\ End(buf) \in Nat /\ Len(buf.rows) <= End(buf)
    BY Numbers
  <1>4. inbox' = <<r>> /\ r.type = "chat" /\ r.last = M + 1 /\ r.who = p
    BY <1>1
  <1>5. mine.id = p /\ mine.index = M + 1 /\ mine \in view' /\ view \subseteq view'
    BY <1>1
  <1>. HIDE DEF M, mine, r
  <1>6. /\ \A m \in RowsToShow(buf) : Right(view, m) => Right(view', m)
        /\ \A n : Filled(buf, view, n) => Filled(buf, view', n)
        /\ \A n : Fed(buf, view, wire, n) => Fed(buf, view', wire', n)
    BY <1>1, <1>5 DEF Right, Filled, Fed, Given
  <1>7. \A i \in DOMAIN inbox' : inbox'[i] = r
    BY <1>4
  <1>8. Chat(p)'
    <2>1. 1 \in DOMAIN inbox' /\ inbox'[1] = r
      BY <1>4
    <2>. QED
      BY <1>4, <2>1 DEF Chat
  <1>9. ~Resting'
    BY <1>4 DEF Resting
  <1>10. (M + 1 <= End(buf) /\ Fed(buf, view', wire', M + 1)) \/ First(M + 1)
    <2>1. CASE M + 1 <= Len(buf.rows)
      <3>1. \A m \in RowsToShow(buf) : m.seq \in Nat
        BY <1>0, RowToShow
      <3>2. \A m \in RowsToShow(buf) : m.seq < M + 1 => Right(view', m)
        BY <1>2, <1>6, <3>1
      <3>3. Filled(buf, view', M + 1)
        BY <1>2, <3>2, FilledTo
      <3>4. M + 1 <= End(buf)
        BY <1>2, <1>3, <2>1
      <3>. QED
        BY <3>3, <3>4 DEF Filled, Fed, Given
    <2>. QED
      BY <1>2, <2>1
  <1>11. Asked'
    <2>1. ASSUME NEW i \in DOMAIN inbox'
          PROVE  \/ inbox'[i].last <= End(buf') /\ Fed(buf', view', wire', inbox'[i].last)
                 \/ inbox'[i].type = "chat" /\ inbox'[i].last = 1 /\ buf'.rows = <<>>
      <3>1. inbox'[i].last = M + 1 /\ inbox'[i].type = "chat"
        BY <1>4, <1>7
      <3>2. CASE M + 1 <= End(buf) /\ Fed(buf, view', wire', M + 1)
        BY <1>1, <3>1, <3>2
      <3>3. CASE First(M + 1)
        BY <1>1, <3>1, <3>3 DEF First
      <3>. QED
        BY <1>10, <3>2, <3>3
    <2>2. \A i \in DOMAIN inbox' : inbox'[i].type = "chat" /\ inbox'[i].who = p
      BY <1>4, <1>7
    <2>3. \E v \in view' : v.id = p
      BY <1>5
    <2>. SUFFICES ASSUME NEW i \in DOMAIN inbox'
                  PROVE  /\ \/ inbox'[i].last <= End(buf') /\ Fed(buf', view', wire', inbox'[i].last)
                            \/ inbox'[i].type = "chat" /\ First(inbox[i].last)'
                         /\ inbox'[i].type = "resume" => status' = "recovered"
                         /\ inbox'[i].type = "chat" =>
                               /\ ~live' /\ loop' # "subscribe" /\ answer' = Taken
                               /\ \E v \in view' : v.id = inbox'[i].who
                               /\ \A j \in DOMAIN inbox' : inbox'[j].type = "chat" => inbox'[j].who = inbox'[i].who
      BY Zenon DEF Asked
    <2>4. First(inbox[i].last)' <=> inbox'[i].last = 1 /\ buf'.rows = <<>>
      BY DEF First
    <2>5. inbox'[i].type = "chat" /\ inbox'[i].who = p
      BY <2>2
    <2>. QED
      BY <1>1, <2>1, <2>2, <2>3, <2>4, <2>5
  <1>12. Settled'
    <2>. SUFFICES ASSUME NEW v \in view'
                  PROVE  /\ Based(v)'
                         /\ \A m \in RowsToShow(buf) : m.seq <= v.index => Right(view', m)
                         /\ v.id \notin Prompt => v.id = v.index /\ v.index < Len(buf.rows)
      BY <1>1 DEF Settled
    <2>1. CASE v \in view
      <3>1. /\ Based(v)
            /\ \A m \in RowsToShow(buf) : m.seq <= v.index => Right(view, m)
            /\ v.id \notin Prompt => v.id = v.index /\ v.index < Len(buf.rows)
        BY <1>0, <2>1 DEF Settled
      <3>2. ~Chat(v.id)
        BY <1>1 DEF Chat
      <3>3. Based(v)'
        BY <1>1, <1>9, <3>1, <3>2 DEF Based
      <3>. QED
        BY <1>6, <3>1, <3>3
    <2>2. CASE v = mine
      <3>1. Based(v)'
        BY <1>1, <1>2, <1>5, <1>8, <2>2 DEF Based, First
      <3>. QED
        BY <1>2, <1>5, <1>6, <2>2, <3>1
    <2>. QED
      BY <1>1, <2>1, <2>2
  <1>13. Young' /\ Idle'
    BY <1>1, <1>9 DEF Young, Idle
  <1>14. KnownLast'
    BY <1>0, <1>1, <1>6 DEF KnownLast
  <1>15. Follows'
    BY <1>0, <1>1, <1>6 DEF Follows
  <1>16. InLine(buf', view', wire')
    BY <1>1 DEF InLine
  <1>17. Ordered(buf') /\ Lasting' /\ Turns'
    BY <1>1, ServerKept
  <1>. QED
    BY <1>11, <1>12, <1>13, <1>14, <1>15, <1>16, <1>17 DEF Gapless

-----------------------------------------------------------------------------
(* The theorems about gaps. *)

\* At first there is nothing to show.
LEMMA InitGapless == Calm /\ Init => Gapless
  <1>. SUFFICES ASSUME Calm, Init PROVE Gapless
    OBVIOUS
  <1>1. /\ buf.rows = <<>> /\ buf.mem = <<>> /\ buf.base = 0
        /\ inbox = <<>> /\ wire = <<>> /\ view = {}
        /\ state = "idle" /\ live = FALSE /\ loop = "closed" /\ status = "closed" /\ ask = "no"
        /\ lastSeq = 0 /\ known = 0 /\ count["text"] = 0 /\ count["stream"] = 0
        /\ answer = NotAsked
    BY DEF Init
  <1>2. RowsToShow(buf) = {}
    BY <1>1 DEF RowsToShow
  <1>3. Ordered(buf)
    BY <1>1, ConstantsAssumption DEF Ordered
  <1>4. Lasting
    <2>1. CASE MaxStreams = 0
      BY <1>1, <2>1 DEF Lasting, NoStreams
    <2>2. CASE Roomy
      <3>1. AuthorsOf(buf.rows) = {}
        BY <1>1 DEF AuthorsOf
      <3>2. Cardinality(AuthorsOf(buf.rows)) = 0
        BY <3>1, FS_EmptySet
      <3>3. Len(buf.mem) = 0 /\ Stages = 0
        BY <1>1 DEF Stages
      <3>4. Counted
        BY <1>1, <3>2, <3>3, ConstantsAssumption DEF Counted
      <3>. QED
        BY <1>1, <2>2, <3>4 DEF Lasting
    <2>. QED
      BY <2>1, <2>2 DEF Calm
  <1>5. Turns
    BY <1>1 DEF Turns
  <1>6. InLine(buf, view, wire) /\ Asked
    BY <1>1 DEF InLine, Asked
  <1>7. Settled /\ Young
    BY <1>1 DEF Settled, Young
  <1>8. KnownLast
    BY <1>1, <1>2 DEF KnownLast, Filled
  <1>9. Idle
    BY <1>1 DEF Idle, Resting
  <1>10. Follows
    <2>1. 0 <= End(buf)
      BY <1>1 DEF End
    <2>. QED
      BY <1>1, <1>2, <2>1 DEF Follows, Watching, Filled
  <1>. QED
    BY <1>3, <1>4, <1>5, <1>6, <1>7, <1>8, <1>9, <1>10 DEF Gapless

\* No step of a patient page and its server leaves a gap.
LEMMA StepGapless == IInv /\ Calm /\ Gapless /\ [Next]_vars => Gapless'
  <1>. SUFFICES ASSUME IInv, Calm, Gapless, [Next]_vars PROVE Gapless'
    OBVIOUS
  <1>1. CASE Agent
    BY <1>1, AgentGapless
  <1>2. CASE Handler
    <2>1. CASE Serve
      BY <2>1, ServeRecoverGapless, ServeChatGapless
    <2>. QED
      BY <1>2, <2>1, ItemGapless, PullGapless, CheckGapless DEF Handler
  <1>3. CASE Browser
    <2>1. CASE SendFailed \/ RecoverTimeout
      <3>1. UNCHANGED <<buf, state, live, count, loop, lastSeen, inbox, wire, status, lastSeq, ask,
                        answer, view, known>>
        BY <2>1 DEF SendFailed, RecoverTimeout, server, loops
      <3>. QED
        BY <3>1, OtherGapless
    <2>. QED
      BY <1>3, <2>1, ReceiveGapless, OpenGapless, RecoverGapless, FetchGapless, LoadGapless,
         StaleGapless DEF Browser
  <1>4. CASE \E p \in Prompt : Send(p) \/ SendElsewhere(p)
    <2>1. PICK p \in Prompt : Send(p) \/ SendElsewhere(p)
      BY <1>4
    <2>2. ~SendElsewhere(p)
      BY DEF SendElsewhere, Calm
    <2>. QED
      BY <2>1, <2>2, SendGapless
  <1>5. ~StoreElsewhere
    BY DEF StoreElsewhere, Calm
  <1>6. CASE Drop \/ Reload
    BY <1>6, DropGapless, ReloadGapless
  <1>7. ~Restart
    <2>1. count["restart"] \in Nat
      BY DEF IInv, TypeOK
    <2>. QED
      BY <2>1 DEF Restart, Spend, Calm
  <1>8. CASE UNCHANGED vars
    <2>1. UNCHANGED <<buf, state, live, count, loop, lastSeen, inbox, wire, status, lastSeq, ask,
                      answer, view, known>>
      BY <1>8 DEF vars
    <2>. QED
      BY <2>1, OtherGapless
  <1>. QED
    BY <1>1, <1>2, <1>3, <1>4, <1>5, <1>6, <1>7, <1>8 DEF Next

\* What is shown or ahead on the wire is shown or on the wire by its id.
LEMMA GivenSeen ==
  ASSUME SoundBuffer(buf, sent), NEW w \in Seq(Frame), InLine(buf, view, w),
         NEW m \in RowsToShow(buf), Given(view, w, m)
  PROVE  Shown(m) \/ \E i \in DOMAIN w : w[i].kind \in Visible /\ FrameId(w[i]) = RowId(m)
  <1>1. CASE Right(view, m)
    BY <1>1 DEF Right, Shown, Ids
  <1>2. CASE Ahead(w, Len(w), m)
    <2>1. PICK i \in 1 .. Len(w) : w[i].kind \in Visible /\ w[i].index = m.seq
      BY <1>2 DEF Ahead
    <2>2. i \in DOMAIN w
      BY <2>1
    <2>3. buf.rows[m.seq + 1] = m
      BY RowToShow
    <2>4. w[i].kind = m.kind /\ w[i].who = m.who
      BY <2>1, <2>2, <2>3 DEF InLine, FrameOf
    <2>. QED
      BY <2>1, <2>2, <2>4 DEF FrameId, RowId
  <1>. QED
    BY <1>1, <1>2 DEF Given

\* Where nothing was left out, a followed page has every message, on the page, on
\* the wire or to come.
LEMMA GaplessSkipsNothing == IInv /\ Gapless => NothingSkipped
  <1>. SUFFICES ASSUME IInv, Gapless, loop \in Watching, NEW m \in VisibleRows
                PROVE  Shown(m) \/ OnWire(m) \/ ToCome(m)
    BY DEF NothingSkipped
  <1>1. m \in RowsToShow(buf)
    BY DEF VisibleRows, RowsToShow
  <1>2. /\ TypeOK /\ SoundBuffer(buf, sent) /\ Ordered(buf) /\ InLine(buf, view, wire)
        /\ lastSeen \in Nat /\ wire \in Seq(Frame)
        /\ Fed(buf, view, wire, lastSeen)
    BY DEF IInv, Gapless, Follows, TypeOK
  <1>3. CASE Left(buf, lastSeen, m)
    <2>1. \E k \in DOMAIN GetHistory(lastSeen) : GetHistory(lastSeen)[k] = m
      BY <1>1, <1>2, <1>3, HistoryIs DEF History
    <2>. QED
      BY <2>1 DEF ToCome
  <1>4. CASE Given(view, wire, m)
    BY <1>1, <1>2, <1>4, GivenSeen DEF OnWire
  <1>. QED
    BY <1>1, <1>2, <1>3, <1>4 DEF Fed

\* The subscribe loop is left by its final pull only: the page sends no chat message
\* while it runs, and a recover or a resume does not end it.
LEMMA GaplessSendsAll == IInv /\ Gapless /\ [Next]_vars => SendsAll
  <1>. SUFFICES ASSUME IInv, Gapless, [Next]_vars, loop = "subscribe", loop' = "outer",
                       NEW m \in VisibleRows
                PROVE  Shown(m) \/ OnWire(m)'
    BY DEF SendsAll
  <1>1. m \in RowsToShow(buf)
    BY DEF VisibleRows, RowsToShow
  <1>2. ~Item
    <2>. SUFFICES ASSUME Item PROVE FALSE
      OBVIOUS
    <2>1. inbox # <<>> /\ inbox \in Seq(Request)
      BY DEF Item, IInv, TypeOK
    <2>2. Head(inbox) = inbox[1] /\ 1 \in DOMAIN inbox /\ inbox[1] \in Request
      BY <2>1
    <2>3. Head(inbox).type # "chat"
      BY <2>2 DEF Gapless, Asked
    <2>4. Head(inbox).type \in {"recover", "resume"}
      BY <2>2, <2>3 DEF Request
    <2>. QED
      BY <2>4 DEF Item
  <1>3. ~Open
    <2>1. status # "closed"
      BY DEF Gapless, Follows
    <2>. QED
      BY <2>1 DEF Open
  <1>4. Leave
    <2>1. ~Agent
      BY DEF Agent, Text, Stream, Complete, Finish, Works, loops
    <2>2. ~(Serve \/ Pull \/ CheckRecover \/ Stay)
      BY DEF Serve, Pull, CheckRecover, Stay
    <2>3. ~(Receive \/ SendFailed \/ Recover \/ Fetch \/ Load \/ Stale \/ RecoverTimeout)
      BY DEF Receive, SendFailed, Recover, Fetch, Load, Stale, RecoverTimeout, loops
    <2>4. ~\E p \in Prompt : Send(p) \/ SendElsewhere(p)
      BY DEF Send, SendElsewhere, loops
    <2>5. ~(StoreElsewhere \/ Drop \/ Reload \/ Restart)
      BY DEF StoreElsewhere, Drop, Reload, Restart, Cut, loops
    <2>6. ~UNCHANGED vars
      BY DEF vars
    <2>. QED
      BY <1>2, <1>3, <2>1, <2>2, <2>3, <2>4, <2>5, <2>6 DEF Next, Handler, Browser
  <1>5. FinalPull /\ UNCHANGED <<buf, view>>
    BY <1>4 DEF Leave, Check, page
  <1>6. InLine(buf, view, wire') /\ Given(view, wire', m)
    BY <1>1, <1>5, FinalPullInLine DEF Watching
  <1>7. IInv'
    BY StepIInv
  <1>8. wire' \in Seq(Frame)
    BY <1>7 DEF IInv, TypeOK
  <1>9. Shown(m) \/ \E i \in DOMAIN wire' : wire'[i].kind \in Visible /\ FrameId(wire'[i]) = RowId(m)
    BY <1>1, <1>6, <1>8, GivenSeen DEF IInv, Gapless
  <1>. QED
    BY <1>9 DEF OnWire, FrameId

\* A page that is followed by a loop shows every message to be shown, or it is on
\* its way, or the loop will send it: wherever recover, resume and chat start.
THEOREM NothingSkippedAlways ==
  ASSUME Calm
  PROVE  Spec => []NothingSkipped
  <1>1. Init => IInv /\ Gapless
    BY InitIInv, InitGapless
  <1>2. IInv /\ Gapless /\ [Next]_vars => (IInv /\ Gapless)'
    BY StepIInv, StepGapless
  <1>3. IInv /\ Gapless => NothingSkipped
    BY GaplessSkipsNothing
  <1>. QED
    BY <1>1, <1>2, <1>3, PTL DEF Spec

\* The subscribe loop ends with nothing unsent that was there when it ended.
THEOREM SendsAllAlways ==
  ASSUME Calm
  PROVE  Spec => [][SendsAll]_vars
  <1>1. Init => IInv /\ Gapless
    BY InitIInv, InitGapless
  <1>2. IInv /\ Gapless /\ [Next]_vars => (IInv /\ Gapless)'
    BY StepIInv, StepGapless
  <1>3. IInv /\ Gapless /\ [Next]_vars => [SendsAll]_vars
    BY GaplessSendsAll
  <1>. QED
    BY <1>1, <1>2, <1>3, PTL DEF Spec
=============================================================================
