------------------------ MODULE MessageBuffer_proofs ------------------------
(***************************************************************************)
(* What a buffer promises whatever races: proved for any number of calls,  *)
(* buffers, crashes and rows, and for every MAX_HISTORY and ResyncGap.     *)
(***************************************************************************)
EXTENDS MessageBuffer, FiniteSetTheorems, TLAPS

\* A buffer dict whose done flag goes with a terminal state.
SoundBuffer == {b \in Buffer : b.done => b.state \in Terminal}

\* The table is finite, so that MAX(seq) exists.
RowsBounded == \E n \in Nat : \A m \in Msg : row[m] <= n

\* The steps of add_message up to its INSERT.
Early == {"idle", "owner", "readstate", "readseq", "select", "insert"}

Unwritten == \A m \in Msg : pc[m] \in Early => row[m] = NoRow

\* Who writes to a buffer without looking it up has one that exists.
Held == \A m \in Msg : pc[m] \in {"select", "insert"} => ref[m] \in 1..Len(bufs)

\* Agreement, while a call is under way as well: INSERT sets both numbers.
Agree == \A m \in Msg : msgSeq[m] # NoSeq /\ Stored(m) => msgSeq[m] = row[m]

IInv ==
    /\ TypeOK
    /\ bufs \in Seq(SoundBuffer)
    /\ RowsBounded
    /\ Unwritten
    /\ Held
    /\ Agree

-----------------------------------------------------------------------------
(* Least and greatest numbers.  The library's induction over Nat takes an   *)
(* operator; the ordering of finite sets by inclusion takes none.           *)

\* A set of natural numbers has a least element.
LEMMA Least ==
  ASSUME NEW S, S \subseteq Nat, S # {}
  PROVE  \E n \in S : \A k \in S : n <= k
  <1>1. PICK top \in S : TRUE
    OBVIOUS
  <1>. DEFINE Below == {0..n : n \in {k \in S : k <= top}}
  <1>2. Below \subseteq SUBSET (0..top) /\ Below # {}
    BY <1>1
  <1>3. IsFiniteSet(0..top)
    BY <1>1, FS_Interval
  <1>4. IsWellFoundedOn(StrictSubsetOrdering(0..top), SUBSET (0..top))
    BY <1>3, FS_StrictSubsetOrderingWellFounded, FS_FiniteSubsetsOfFinite, Zenon
  <1>5. \E x \in Below : \A y \in Below : ~(<<y, x>> \in StrictSubsetOrdering(0..top))
    BY <1>2, <1>4, WFMin, Zenon
  <1>6. PICK n \in S :
             /\ n <= top
             /\ \A k \in S : k <= top => ~(<<0..k, 0..n>> \in StrictSubsetOrdering(0..top))
    BY <1>5
  <1>7. ASSUME NEW k \in S, k < n PROVE FALSE
    <2>1. 0..k \subseteq 0..n /\ 0..k \subseteq 0..top /\ 0..n \subseteq 0..top
      BY <1>1, <1>6, <1>7
    <2>2. n \in 0..n /\ n \notin 0..k
      BY <1>6, <1>7
    <2>3. <<0..k, 0..n>> \in StrictSubsetOrdering(0..top)
      BY <2>1, <2>2, Zenon DEF StrictSubsetOrdering
    <2>. QED
      BY <2>3, <1>1, <1>6, <1>7
  <1>. QED
    BY <1>1, <1>6, <1>7

\* A bounded set of numbers from -1 on has a greatest element.
LEMMA Greatest ==
  ASSUME NEW S, S \subseteq Nat \cup {NoRow}, S # {},
         NEW n \in Nat, \A s \in S : s <= n
  PROVE  \E g \in S : \A s \in S : s <= g
  <1>. DEFINE Gaps == {n - s : s \in S}
  <1>0. \A s \in S : n - s \in Nat
    BY DEF NoRow
  <1>1. Gaps \subseteq Nat /\ Gaps # {}
    BY <1>0
  <1>2. PICK d \in Gaps : \A e \in Gaps : d <= e
    BY <1>1, Least
  <1>3. PICK g \in S : d = n - g
    BY <1>2
  <1>4. \A s \in S : s \in Int /\ n - g <= n - s
    BY <1>2, <1>3 DEF NoRow
  <1>5. g \in Int
    BY <1>4
  <1>6. \A s \in S : s <= g
    BY <1>4, <1>5
  <1>. QED
    BY <1>6

\* MAX(seq) is a seq, or -1 for an empty table, and no row is beyond it.
LEMMA MaxSeq ==
  ASSUME TypeOK, RowsBounded
  PROVE  DbMax \in Nat \cup {NoRow} /\ \A m \in Msg : row[m] <= DbMax
  <1>. DEFINE S == {row[m] : m \in Msg} \cup {NoRow}
  <1>1. PICK n \in Nat : \A m \in Msg : row[m] <= n
    BY DEF RowsBounded
  <1>2. S \subseteq Nat \cup {NoRow} /\ S # {} /\ \A s \in S : s <= n
    BY <1>1 DEF TypeOK, NoRow
  <1>3. \E g \in S : \A s \in S : s <= g
    BY <1>2, Greatest
  <1>4. DbMax = CHOOSE s \in S : \A t \in S : t <= s
    BY DEF DbMax
  <1>5. DbMax \in S /\ \A s \in S : s <= DbMax
    BY <1>3, <1>4
  <1>. QED
    BY <1>2, <1>5

\* The last of some messages by seq is one of them.
LEMMA NewestIn ==
  ASSUME TypeOK, RowsBounded, NEW S, S \subseteq Msg, S # {}
  PROVE  Newest(S) \in S
  <1>. DEFINE R == {row[m] : m \in S}
  <1>1. PICK n \in Nat : \A m \in Msg : row[m] <= n
    BY DEF RowsBounded
  <1>2. R \subseteq Nat \cup {NoRow} /\ R # {} /\ \A s \in R : s <= n
    BY <1>1 DEF TypeOK
  <1>3. \E g \in R : \A s \in R : s <= g
    BY <1>2, Greatest
  <1>4. \E m \in S : \A o \in S : row[o] <= row[m]
    BY <1>3
  <1>. QED
    BY <1>4 DEF Newest

\* What the messages say of a session's state is a state.
LEMMA ReadStates ==
  ASSUME TypeOK, RowsBounded
  PROVE  DbState \in States /\ BackfillState \in States \cup {"deleted"}
  <1>1. ASSUME NEW ks, NEW S, S = StoredOf(ks), S # {}
        PROVE  Newest(S) \in Msg /\ kind[Newest(S)] \in ks
    BY <1>1, NewestIn DEF StoredOf
  <1>2. DbState \in States
    <2>. DEFINE S == StoredOf(StateKinds \cup {"result"})
    <2>1. CASE S = {}
      BY <2>1 DEF DbState, States
    <2>2. CASE S # {}
      <3>1. kind[Newest(S)] \in StateKinds \cup {"result"}
        BY <2>2, <1>1
      <3>. QED
        BY <3>1, <2>2 DEF DbState, States, StateKinds, Terminal
    <2>. QED
      BY <2>1, <2>2
  <1>3. BackfillState \in States \cup {"deleted"}
    <2>1. StoredOf(StateKinds) # {} => kind[Newest(StoredOf(StateKinds))] \in StateKinds
      BY <1>1
    <2>. QED
      BY <2>1 DEF BackfillState, States, StateKinds, Terminal, TypeOK
  <1>. QED
    BY <1>2, <1>3

-----------------------------------------------------------------------------
(* The operations on a buffer dict keep it sound. *)

LEMMA NewBufSound ==
  ASSUME NEW s \in States
  PROVE  NewBuf(s) \in SoundBuffer
  <1>1. (s \in Terminal) \in BOOLEAN /\ <<>> \in Seq(Msg) /\ 0 \in Nat
    OBVIOUS
  <1>2. NewBuf(s) \in Buffer
    BY <1>1, Zenon DEF NewBuf, Buffer
  <1>3. NewBuf(s).done = (s \in Terminal) /\ NewBuf(s).state = s
    BY Zenon DEF NewBuf
  <1>. QED
    BY <1>2, <1>3, Zenon DEF SoundBuffer

LEMMA AppendedSound ==
  ASSUME NEW b \in SoundBuffer, NEW m \in Msg
  PROVE  Appended(b, m) \in SoundBuffer
  <1>. DEFINE all  == Append(b.msgs, m)
              drop == IF Len(all) > MaxHistory THEN Len(all) - MaxHistory ELSE 0
  <1>1. b.msgs \in Seq(Msg) /\ b.base \in Nat
    BY DEF SoundBuffer, Buffer
  <1>2. all \in Seq(Msg) /\ Len(all) \in Nat
    BY <1>1
  <1>3. drop \in 0..Len(all)
    BY <1>2, ConstantsAssumption
  <1>4. SubSeq(all, drop + 1, Len(all)) \in Seq(Msg)
    BY <1>2, <1>3
  <1>5. b.base + drop \in Nat
    BY <1>1, <1>2, <1>3
  <1>6. Appended(b, m) = [b EXCEPT !.msgs = SubSeq(all, drop + 1, Len(all)),
                                   !.base = @ + drop]
    BY DEF Appended
  <1>. HIDE DEF all, drop
  <1>. QED
    BY <1>4, <1>5, <1>6 DEF SoundBuffer, Buffer

LEMMA AlignedSound ==
  ASSUME NEW b \in SoundBuffer, NEW s \in Nat
  PROVE  Aligned(b, s) \in SoundBuffer
  BY DEF Aligned, SoundBuffer, Buffer

LEMMA TransitionSound ==
  ASSUME NEW b \in SoundBuffer, NEW k
  PROVE  Transition(b, k) \in SoundBuffer /\ Transition(b, k).state \in States
  <1>1. b.state \in States
    BY DEF SoundBuffer, Buffer
  <1>2. StateAfter(b.state, k) \in States
    BY <1>1 DEF StateAfter, States, StateKinds, Terminal
  <1>3. k \in Terminal \cup {"result"} => StateAfter(b.state, k) \in Terminal
    BY DEF StateAfter, StateKinds, Terminal
  <1>4. ASSUME NEW s \in States, NEW d \in BOOLEAN, d => s \in Terminal
        PROVE  /\ [b EXCEPT !.state = s, !.done = d] \in SoundBuffer
               /\ [b EXCEPT !.state = s, !.done = d].state = s
    BY <1>4 DEF SoundBuffer, Buffer
  <1>5. (k \in Terminal \cup {"result"}) \in BOOLEAN
    OBVIOUS
  <1>6. Transition(b, k) = [b EXCEPT !.state = StateAfter(b.state, k),
                                     !.done = k \in Terminal \cup {"result"}]
    BY Zenon DEF Transition
  <1>. QED
    BY <1>2, <1>3, <1>4, <1>5, <1>6, Zenon

\* The recursive function of Kept has its values.
LEMMA KeptSteps ==
  ASSUME NEW seq \in Seq(Msg)
  PROVE  \E kept : /\ Kept(seq) = kept[Len(seq)]
                   /\ \A i \in 0..Len(seq) :
                          kept[i] = IF i = 0 THEN <<>>
                                    ELSE IF IsFile(seq[i]) THEN kept[i - 1]
                                    ELSE Append(kept[i - 1], seq[i])
  <1>. DEFINE Value(f, i) == IF i = 0 THEN <<>>
                             ELSE IF IsFile(seq[i]) THEN f[i - 1]
                             ELSE Append(f[i - 1], seq[i])
              Solves(f, n) == f = [i \in 0..n |-> Value(f, i)]
              kept == CHOOSE f : Solves(f, Len(seq))
  <1>0. Len(seq) \in Nat
    OBVIOUS
  <1>1. ASSUME NEW n \in Nat, \A k \in Nat : k < n => \E f : Solves(f, k)
        PROVE  \E f : Solves(f, n)
    <2>1. CASE n = 0
      <3>. DEFINE f == [i \in 0..0 |-> <<>>]
      <3>1. f = [i \in 0..0 |-> Value(f, i)]
        OBVIOUS
      <3>. QED BY <3>1, <2>1
    <2>2. CASE n # 0
      <3>0. \E f : Solves(f, n - 1)
        <4>. HIDE DEF Solves
        <4>1. n - 1 \in Nat /\ n - 1 < n
          BY <2>2
        <4>. QED BY <4>1, <1>1
      <3>1. PICK f : Solves(f, n - 1)
        BY <3>0
      <3>. DEFINE g == [i \in 0..n |-> IF i = n THEN Value(f, n) ELSE f[i]]
      <3>2. \A i \in 0..(n - 1) : g[i] = f[i]
        OBVIOUS
      <3>3. \A i \in 0..n : Value(g, i) = Value(f, i)
        BY <3>2
      <3>4. \A i \in 0..(n - 1) : f[i] = Value(f, i)
        BY <3>1
      <3>5. \A i \in 0..n : g[i] = Value(g, i)
        BY <3>3, <3>4
      <3>6. Solves(g, n)
        BY <3>5
      <3>. QED BY <3>6
    <2>. QED BY <2>1, <2>2
  <1>2. \A n \in Nat : \E f : Solves(f, n)
    <2>. DEFINE Bad == {n \in Nat : ~\E f : Solves(f, n)}
    <2>1. ASSUME Bad # {} PROVE FALSE
      <3>. HIDE DEF Solves
      <3>1. PICK n \in Bad : \A k \in Bad : n <= k
        BY <2>1, Least
      <3>2. \A k \in Nat : k < n => k \notin Bad
        BY <3>1
      <3>3. \A k \in Nat : k < n => \E f : Solves(f, k)
        BY <3>2
      <3>. QED BY <3>1, <3>3, <1>1
    <2>. QED BY <2>1
  <1>3. Solves(kept, Len(seq))
    <2>. HIDE DEF Solves
    <2>. QED BY <1>0, <1>2
  <1>4. Kept(seq) = kept[Len(seq)]
    BY DEF Kept
  <1>. HIDE DEF kept
  <1>. QED BY <1>3, <1>4

\* Without its files a list is a list, no longer than it was, and has every
\* other message, with no more behind it than before.
LEMMA KeptAll ==
  ASSUME NEW seq \in Seq(Msg)
  PROVE  /\ Kept(seq) \in Seq(Msg) /\ Len(Kept(seq)) <= Len(seq)
         /\ \A p \in 1..Len(seq) : ~IsFile(seq[p]) =>
                \E j \in 1..Len(Kept(seq)) :
                    Kept(seq)[j] = seq[p] /\ Len(Kept(seq)) - j <= Len(seq) - p
  <1>0. Len(seq) \in Nat
    OBVIOUS
  <1>. PICK kept : /\ Kept(seq) = kept[Len(seq)]
                   /\ \A i \in 0..Len(seq) :
                          kept[i] = IF i = 0 THEN <<>>
                                    ELSE IF IsFile(seq[i]) THEN kept[i - 1]
                                    ELSE Append(kept[i - 1], seq[i])
    BY KeptSteps
  <1>. DEFINE Found(i, p) == \E j \in 1..Len(kept[i]) :
                                 kept[i][j] = seq[p] /\ Len(kept[i]) - j <= i - p
              Fine(i) == /\ kept[i] \in Seq(Msg) /\ Len(kept[i]) <= i
                         /\ \A p \in 1..i : ~IsFile(seq[p]) => Found(i, p)
              Odd == {i \in 0..Len(seq) : ~Fine(i)}
  <1>1. ASSUME Odd # {} PROVE FALSE
    <2>0. \E i \in Odd : \A k \in Odd : i <= k
      <3>1. Odd \subseteq Nat
        BY <1>0
      <3>. QED BY <3>1, <1>1, Least
    <2>1. PICK i \in Odd : \A k \in Odd : i <= k
      BY <2>0
    <2>2. i # 0
      <3>1. kept[0] = <<>>
        BY <1>0
      <3>2. Fine(0)
        BY <3>1
      <3>. QED BY <3>2, <2>1
    <2>3. i - 1 \in 0..Len(seq) /\ i - 1 \notin Odd
      BY <2>1, <2>2
    <2>4. Fine(i - 1) /\ seq[i] \in Msg /\ i \in Nat \ {0}
      <3>1. i \in 1..Len(seq)
        BY <1>0, <2>1, <2>2
      <3>2. Fine(i - 1)
        BY <2>3
      <3>. QED
        BY <1>0, <3>1, <3>2
    <2>5. kept[i] = IF IsFile(seq[i]) THEN kept[i - 1] ELSE Append(kept[i - 1], seq[i])
      BY <2>1, <2>2
    <2>6. kept[i] \in Seq(Msg) /\ Len(kept[i]) <= i
      BY <2>4, <2>5
    <2>7. ASSUME NEW p \in 1..i, ~IsFile(seq[p]) PROVE Found(i, p)
      <3>1. CASE p = i
        <4>1. kept[i] = Append(kept[i - 1], seq[i])
          BY <2>5, <2>7, <3>1
        <4>2. /\ Len(kept[i]) = Len(kept[i - 1]) + 1 /\ Len(kept[i]) \in Nat
              /\ kept[i][Len(kept[i])] = seq[i]
          BY <2>4, <4>1
        <4>. QED BY <2>4, <3>1, <4>2
      <3>2. CASE p # i
        <4>1. p \in 1..(i - 1)
          BY <2>4, <3>2
        <4>2. PICK j \in 1..Len(kept[i - 1]) :
                 kept[i - 1][j] = seq[p] /\ Len(kept[i - 1]) - j <= i - 1 - p
          BY <2>4, <2>7, <4>1
        <4>3. /\ kept[i - 1] \in Seq(Msg) /\ Len(kept[i - 1]) \in Nat
              /\ Len(kept[i]) \in {Len(kept[i - 1]), Len(kept[i - 1]) + 1}
              /\ \A k \in 1..Len(kept[i - 1]) : kept[i][k] = kept[i - 1][k]
          BY <2>4, <2>5
        <4>4. j \in 1..Len(kept[i]) /\ kept[i][j] = seq[p]
          BY <4>2, <4>3
        <4>5. Len(kept[i]) - j <= i - p
          BY <2>4, <4>1, <4>2, <4>3
        <4>. QED BY <4>4, <4>5
      <3>. QED BY <3>1, <3>2
    <2>8. Fine(i)
      BY <2>6, <2>7
    <2>. QED BY <2>1, <2>8
  <1>2. Len(seq) \in 0..Len(seq) /\ Len(seq) \notin Odd
    BY <1>0, <1>1
  <1>3. Fine(Len(seq))
    BY <1>2
  <1>. QED BY <1>3

LEMMA KeptType ==
  ASSUME NEW seq \in Seq(Msg)
  PROVE  Kept(seq) \in Seq(Msg) /\ Len(Kept(seq)) <= Len(seq)
  BY KeptAll

LEMMA WithoutFilesSound ==
  ASSUME NEW b \in SoundBuffer
  PROVE  WithoutFiles(b) \in SoundBuffer
  <1>1. b.msgs \in Seq(Msg) /\ b.base \in Nat
    BY DEF SoundBuffer, Buffer
  <1>2. Kept(b.msgs) \in Seq(Msg) /\ Len(Kept(b.msgs)) <= Len(b.msgs)
    BY <1>1, KeptType
  <1>3. ASSUME NEW kept \in Seq(Msg), Len(kept) <= Len(b.msgs)
        PROVE  b.base + Len(b.msgs) - Len(kept) \in Nat
    BY <1>1, <1>3
  <1>4. b.base + Len(b.msgs) - Len(Kept(b.msgs)) \in Nat
    BY <1>2, <1>3, Zenon
  <1>. QED
    BY <1>2, <1>4 DEF WithoutFiles, SoundBuffer, Buffer

\* Replacing one buffer of a heap by a sound one keeps the heap sound.
LEMMA HeapUpdate ==
  ASSUME NEW h \in Seq(SoundBuffer), NEW b \in 1..Len(h), NEW x \in SoundBuffer
  PROVE  /\ [h EXCEPT ![b] = x] \in Seq(SoundBuffer)
         /\ Len([h EXCEPT ![b] = x]) = Len(h)
  OBVIOUS

-----------------------------------------------------------------------------
(* Parts that many steps share. *)

LEMMA HeapType ==
  ASSUME NEW h \in Seq(SoundBuffer)
  PROVE  h \in Seq(Buffer)
  BY DEF SoundBuffer

LEMMA InitIInv == Init => IInv
  <1>. SUFFICES ASSUME Init PROVE IInv
    OBVIOUS
  <1>1. TypeOK
    <2>1. bufs \in Seq(Buffer) /\ cur \in 0..Len(bufs) /\ dbq \in Seq(Co) /\ log \in Seq(Msg)
      BY DEF Init, NoBuf
    <2>2. ref \in [Co -> Nat] /\ num \in [Co -> Nat] /\ crashes \in 0..MaxCrashes
      BY ConstantsAssumption DEF Init, NoBuf
    <2>3. /\ out \in [Reader -> SUBSET Msg]
          /\ before \in [Reader -> SUBSET Msg]
          /\ after \in [Reader -> Nat]
      BY DEF Init
    <2>4. /\ status \in States \cup {"deleted"}
          /\ st \in [Co -> States]
      BY DEF Init, States
    <2>5. /\ nextSeq \in Nat \cup {NoSeq}
          /\ msgSeq \in [Msg -> Nat \cup {NoSeq}]
          /\ row \in [Msg -> Nat \cup {NoRow}]
          /\ kind \in [Msg -> Kinds \cup {NoKind}]
          /\ deleted \in BOOLEAN
      BY DEF Init
    <2>6. pc \in [Co -> Waits \cup {"idle", "returned", "raised", "lost"}]
      BY DEF Init
    <2>. QED
      BY <2>1, <2>2, <2>3, <2>4, <2>5, <2>6 DEF TypeOK
  <1>2. bufs \in Seq(SoundBuffer)
    BY DEF Init
  <1>3. RowsBounded
    BY DEF Init, RowsBounded, NoRow
  <1>4. Unwritten /\ Held /\ Agree
    BY DEF Init, Unwritten, Held, Agree, Stored, Co
  <1>. QED
    BY <1>1, <1>2, <1>3, <1>4 DEF IInv

\* The caller at the head of the queue, and the queue without it.
LEMMA Resumed ==
  ASSUME TypeOK, NEW c, NEW w, Resumes(c, w)
  PROVE  c \in Co /\ Tail(dbq) \in Seq(Co) /\ pc[c] = w
  BY DEF TypeOK, Resumes

\* A coroutine goes on to wait for something else, or is through; it does not
\* go back to a step before its INSERT, and the table gets no row.
LEMMA PcStep ==
  ASSUME TypeOK, Unwritten, Held,
         NEW c \in Co,
         NEW w \in (Waits \ {"select", "insert"}) \cup {"returned", "raised"},
         c \in Msg /\ w \in Early => pc[c] \in Early,
         pc' = [pc EXCEPT ![c] = w],
         \A m \in Msg : row'[m] \in {row[m], NoRow},
         Len(bufs') = Len(bufs), UNCHANGED ref
  PROVE  /\ pc' \in [Co -> Waits \cup {"idle", "returned", "raised", "lost"}]
         /\ Unwritten'
         /\ Held'
  <1>1. \A o \in Co : pc'[o] = IF o = c THEN w ELSE pc[o]
    BY DEF TypeOK
  <1>2. Msg \subseteq Co
    BY DEF Co
  <1>3. Unwritten'
    BY <1>1, <1>2 DEF Unwritten
  <1>4. Held'
    BY <1>1, <1>2 DEF Held
  <1>. QED
    BY <1>3, <1>4 DEF TypeOK

\* A step that only makes a coroutine wait for its next statement.
LEMMA WaitStep ==
  ASSUME IInv, NEW c \in Co,
         NEW w \in Waits \ {"select", "insert"},
         c \in Msg /\ w \in Early => pc[c] \in Early,
         NEW q \in Seq(Co), Await(c, w, q),
         UNCHANGED <<mem, db, ref, num, log, crashes>>,
         kind' \in [Msg -> Kinds \cup {NoKind}], st' \in [Co -> States],
         after' \in [Reader -> Nat], out' \in [Reader -> SUBSET Msg],
         before' \in [Reader -> SUBSET Msg]
  PROVE  IInv'
  <1>1. /\ pc' \in [Co -> Waits \cup {"idle", "returned", "raised", "lost"}]
        /\ Unwritten' /\ Held'
    BY PcStep DEF IInv, Await, mem, db
  <1>2. dbq' \in Seq(Co)
    BY DEF Await
  <1>3. TypeOK'
    BY <1>1, <1>2 DEF IInv, TypeOK, mem, db
  <1>. QED
    BY <1>1, <1>3 DEF IInv, RowsBounded, Agree, Stored, mem, db

\* A step that only lets a coroutine return, or raise.
LEMMA EndStep ==
  ASSUME IInv, NEW c \in Co, NEW w \in {"returned", "raised"},
         pc' = [pc EXCEPT ![c] = w], dbq' \in Seq(Co),
         UNCHANGED <<mem, db, kind, ref, num, st, log, crashes>>,
         after' \in [Reader -> Nat], out' \in [Reader -> SUBSET Msg],
         before' \in [Reader -> SUBSET Msg]
  PROVE  IInv'
  <1>1. /\ pc' \in [Co -> Waits \cup {"idle", "returned", "raised", "lost"}]
        /\ Unwritten' /\ Held'
    BY PcStep DEF IInv, Early, mem, db
  <1>2. TypeOK'
    BY <1>1 DEF IInv, TypeOK, mem, db
  <1>. QED
    BY <1>1, <1>2 DEF IInv, RowsBounded, Agree, Stored, mem, db

-----------------------------------------------------------------------------
(* What follows _ensure_buf *)

\* However the call goes on, it holds an existing buffer and has no row yet.
LEMMA Settle ==
  ASSUME IInv, NEW c \in Co, pc[c] \in Early,
         NEW b \in 1..Len(bufs'), bufs' \in Seq(SoundBuffer), Len(bufs) <= Len(bufs'),
         NEW w \in {"returned", "status", "delete", "select"},
         pc' = [pc EXCEPT ![c] = w], ref' = [ref EXCEPT ![c] = b],
         msgSeq' \in [Msg -> Nat \cup {NoSeq}],
         \A m \in Msg : msgSeq'[m] # msgSeq[m] => row[m] = NoRow,
         nextSeq' \in Nat \cup {NoSeq}, cur' \in 0..Len(bufs'),
         kind' \in [Msg -> Kinds \cup {NoKind}],
         st' \in [Co -> States], log' \in Seq(Msg), dbq' \in Seq(Co),
         UNCHANGED <<db, num, hist, crashes>>
  PROVE  IInv'
  <1>1. \A o \in Co : pc'[o] = IF o = c THEN w ELSE pc[o]
    BY DEF IInv, TypeOK
  <1>2. \A o \in Co : ref'[o] = IF o = c THEN b ELSE ref[o]
    BY DEF IInv, TypeOK
  <1>3. Msg \subseteq Co
    BY DEF Co
  <1>4. TypeOK'
    <2>1. bufs' \in Seq(Buffer)
      BY HeapType
    <2>2. pc' \in [Co -> Waits \cup {"idle", "returned", "raised", "lost"}]
      BY DEF IInv, TypeOK, Waits
    <2>3. ref' \in [Co -> Nat]
      BY DEF IInv, TypeOK
    <2>. QED
      BY <2>1, <2>2, <2>3 DEF IInv, TypeOK, db, hist
  <1>5. Unwritten'
    BY <1>1, <1>3 DEF IInv, Unwritten, db
  <1>6. Held'
    BY <1>1, <1>2, <1>3 DEF IInv, Held
  <1>7. Agree'
    BY DEF IInv, Agree, Stored, db
  <1>. QED
    BY <1>4, <1>5, <1>6, <1>7 DEF IInv, RowsBounded, db

LEMMA ProceedStep ==
  ASSUME IInv, NEW c \in Co, pc[c] \in Early,
         NEW h \in Seq(SoundBuffer), NEW b \in 1..Len(h), Len(bufs) <= Len(h),
         NEW n \in Nat \cup {NoSeq}, NEW q \in Seq(Co),
         Proceed(c, b, h, n, q),
         kind' \in [Msg -> Kinds \cup {NoKind}], cur' \in 0..Len(h)
  PROVE  IInv'
  <1>1. /\ h[b] \in SoundBuffer
        /\ ref' = [ref EXCEPT ![c] = b]
        /\ UNCHANGED <<db, num, hist, crashes>>
    BY DEF Proceed
  <1>2. /\ msgSeq \in [Msg -> Nat \cup {NoSeq}]
        /\ st \in [Co -> States]
        /\ log \in Seq(Msg)
    BY DEF IInv, TypeOK
  <1>3. CASE c \in Msg /\ AddStream(c, b, h, n, q)
    <2>1. Transition(Appended(h[b], c), "stream") \in SoundBuffer
      BY <1>1, <1>3, AppendedSound, TransitionSound
    <2>2. bufs' \in Seq(SoundBuffer) /\ Len(bufs') = Len(h)
      BY <1>3, <2>1, HeapUpdate DEF AddStream
    <2>3. /\ pc' = [pc EXCEPT ![c] = "returned"]
          /\ dbq' = q /\ nextSeq' = n
          /\ UNCHANGED <<msgSeq, st, log>>
      BY <1>3 DEF AddStream, Return
    <2>. QED
      BY <1>1, <1>2, <2>2, <2>3, Settle
  <1>4. CASE c \in Msg /\ AddNumbered(c, b, h, n, q)
    <2>. DEFINE s == IF n = NoSeq THEN 0 ELSE n
    <2>1. s \in Nat
      OBVIOUS
    <2>2. Appended(h[b], c) \in SoundBuffer
      BY <1>1, <1>4, AppendedSound
    <2>3. bufs' \in Seq(SoundBuffer) /\ Len(bufs') = Len(h)
      BY <1>4, <2>2, HeapUpdate DEF AddNumbered
    <2>4. /\ pc' = [pc EXCEPT ![c] = "select"]
          /\ dbq' = Append(q, c) /\ nextSeq' = s + 1
          /\ msgSeq' = [msgSeq EXCEPT ![c] = s]
          /\ log' = Append(log, c) /\ st' = st
      BY <1>4 DEF AddNumbered, Await
    <2>5. row[c] = NoRow
      BY <1>4 DEF IInv, Unwritten
    <2>. HIDE DEF s
    <2>6. /\ msgSeq' \in [Msg -> Nat \cup {NoSeq}]
          /\ \A m \in Msg : msgSeq'[m] # msgSeq[m] => row[m] = NoRow
      BY <1>2, <1>4, <2>1, <2>4, <2>5
    <2>7. log' \in Seq(Msg) /\ dbq' \in Seq(Co) /\ nextSeq' \in Nat
      BY <1>2, <1>4, <2>1, <2>4
    <2>. QED
      BY <1>1, <1>2, <2>3, <2>4, <2>6, <2>7, Settle
  <1>5. CASE Mark(c, b, h, n, q)
    <2>. DEFINE s == IF h[b].state \in {"cancelled", "error"} THEN h[b].state
                     ELSE "completed"
    <2>1. s \in Terminal /\ s \in States
      BY DEF Terminal, States
    <2>2. [h[b] EXCEPT !.done = TRUE, !.state = s] \in SoundBuffer
      BY <1>1, <2>1 DEF SoundBuffer, Buffer
    <2>3. /\ bufs' = [h EXCEPT ![b] = [h[b] EXCEPT !.done = TRUE, !.state = s]]
          /\ st' = [st EXCEPT ![c] = s]
          /\ pc' = [pc EXCEPT ![c] = "status"]
          /\ dbq' = Append(q, c) /\ nextSeq' = n
          /\ UNCHANGED <<msgSeq, log>>
      BY <1>1, <1>5 DEF Mark, Await, SoundBuffer, Buffer
    <2>. HIDE DEF s
    <2>4. bufs' \in Seq(SoundBuffer) /\ Len(bufs') = Len(h)
      BY <2>2, <2>3, HeapUpdate
    <2>5. st' \in [Co -> States] /\ dbq' \in Seq(Co)
      BY <1>2, <2>1, <2>3
    <2>. QED
      BY <1>1, <1>2, <2>3, <2>4, <2>5, Settle
  <1>6. CASE Remove(c, b, h, n, q)
    <2>1. bufs' = h \/ bufs' = [h EXCEPT ![b] = WithoutFiles(h[b])]
      BY <1>6 DEF Remove
    <2>2. bufs' \in Seq(SoundBuffer) /\ Len(bufs') = Len(h)
      BY <1>1, <2>1, WithoutFilesSound, HeapUpdate
    <2>3. /\ nextSeq' = n
          /\ UNCHANGED <<msgSeq, st, log>>
      BY <1>6 DEF Remove
    <2>4. PICK w \in {"returned", "delete"} : pc' = [pc EXCEPT ![c] = w]
      BY <1>6 DEF Remove, Await, Return
    <2>5. dbq' = q \/ dbq' = Append(q, c)
      BY <1>6 DEF Remove, Await, Return
    <2>6. dbq' \in Seq(Co)
      BY <2>5
    <2>. QED
      BY <1>1, <1>2, <2>2, <2>3, <2>4, <2>6, Settle
  <1>7. CASE Answer(c, h, n, q)
    <2>1. /\ bufs' = h /\ nextSeq' = n /\ dbq' = q
          /\ pc' = [pc EXCEPT ![c] = "returned"]
          /\ UNCHANGED <<msgSeq, st, log>>
      BY <1>7 DEF Answer, Return
    <2>. QED
      BY <1>1, <1>2, <2>1, Settle
  <1>. QED
    BY <1>3, <1>4, <1>5, <1>6, <1>7 DEF Proceed

\* Either the session is in memory and the call proceeds, or it waits.
LEMMA EnsureStep ==
  ASSUME IInv, NEW c \in Co, pc[c] \in Early, NEW q \in Seq(Co),
         NEW w \in {"owner", "readstate"},
         kind' \in [Msg -> Kinds \cup {NoKind}],
         IF cur = NoBuf THEN Wait(c, w, q)
         ELSE Proceed(c, cur, bufs, nextSeq, q) /\ UNCHANGED cur
  PROVE  IInv'
  <1>1. CASE cur = NoBuf
    <2>1. Wait(c, w, q)
      BY <1>1
    <2>2. /\ Await(c, w, q)
          /\ UNCHANGED <<mem, db, ref, num, st, after, out, before, log, crashes>>
      BY <2>1 DEF Wait, hist
    <2>. QED
      BY <2>2, WaitStep DEF IInv, TypeOK, Waits
  <1>2. CASE cur # NoBuf
    <2>1. cur \in 1..Len(bufs) /\ Len(bufs) \in Nat
      BY <1>2 DEF IInv, TypeOK, NoBuf
    <2>2. Proceed(c, cur, bufs, nextSeq, q) /\ cur' = cur
      BY <1>2
    <2>3. nextSeq \in Nat \cup {NoSeq}
      BY DEF IInv, TypeOK
    <2>. QED
      BY <2>1, <2>2, <2>3, ProceedStep DEF IInv
  <1>. QED
    BY <1>1, <1>2

LEMMA RegisterStep ==
  ASSUME IInv, NEW c \in Co, pc[c] \in Early, NEW s \in States,
         NEW n \in Nat \cup {NoSeq}, Tail(dbq) \in Seq(Co),
         Register(c, s, n), UNCHANGED kind
  PROVE  IInv'
  <1>. DEFINE h == Append(bufs, NewBuf(s))
  <1>1. bufs \in Seq(SoundBuffer) /\ NewBuf(s) \in SoundBuffer
    BY NewBufSound DEF IInv
  <1>2. h \in Seq(SoundBuffer) /\ Len(h) = Len(bufs) + 1 /\ Len(bufs) \in Nat
    BY <1>1
  <1>3. Proceed(c, Len(bufs) + 1, h, n, Tail(dbq)) /\ cur' = Len(bufs) + 1
    BY DEF Register
  <1>4. kind' \in [Msg -> Kinds \cup {NoKind}]
    BY DEF IInv, TypeOK
  <1>. HIDE DEF h
  <1>5. Len(bufs) + 1 \in 1..Len(h) /\ Len(bufs) <= Len(h) /\ cur' \in 0..Len(h)
    BY <1>2, <1>3
  <1>. QED
    BY <1>2, <1>3, <1>4, <1>5, ProceedStep

-----------------------------------------------------------------------------
(* One lemma per action. *)

LEMMA AddStep ==
  ASSUME IInv, NEW m \in Msg, Add(m)
  PROVE  IInv'
  <1>1. m \in Co /\ pc[m] \in Early /\ dbq \in Seq(Co)
    BY DEF Add, Starts, Early, Co, IInv, TypeOK
  <1>2. kind' \in [Msg -> Kinds \cup {NoKind}]
    BY DEF Add, IInv, TypeOK
  <1>. QED
    BY <1>1, <1>2, EnsureStep DEF Add

LEMMA CallOtherStep ==
  ASSUME IInv, NEW c \in Co, CallOther(c)
  PROVE  IInv'
  <1>1. pc[c] \in Early /\ dbq \in Seq(Co) /\ kind' \in [Msg -> Kinds \cup {NoKind}]
    BY DEF CallOther, Starts, Early, IInv, TypeOK
  <1>. QED
    BY <1>1, EnsureStep DEF CallOther

LEMMA CallDeleteStep ==
  ASSUME IInv, NEW c \in Deleter, CallDelete(c)
  PROVE  IInv'
  <1>1. /\ Await(c, "exists", dbq)
        /\ UNCHANGED <<mem, db, ref, num, log, crashes>>
    BY DEF CallDelete, Wait
  <1>2. /\ c \in Co /\ dbq \in Seq(Co)
        /\ kind' \in [Msg -> Kinds \cup {NoKind}] /\ st' \in [Co -> States]
        /\ after' \in [Reader -> Nat] /\ out' \in [Reader -> SUBSET Msg]
        /\ before' \in [Reader -> SUBSET Msg]
    BY DEF CallDelete, Wait, IInv, TypeOK, Co, hist
  <1>3. "exists" \in Waits /\ "exists" \notin Early
    BY DEF Waits, Early
  <1>. QED
    BY <1>1, <1>2, <1>3, WaitStep

LEMMA OwnerReadStep ==
  ASSUME IInv, NEW c \in Co, OwnerRead(c)
  PROVE  IInv'
  <1>1. Tail(dbq) \in Seq(Co) /\ pc[c] = "owner"
    BY Resumed DEF OwnerRead, IInv
  <1>2. pc[c] \in Early /\ kind' \in [Msg -> Kinds \cup {NoKind}]
    BY <1>1 DEF OwnerRead, Early, IInv, TypeOK
  <1>. QED
    BY <1>1, <1>2, EnsureStep DEF OwnerRead

LEMMA StateReadStep ==
  ASSUME IInv, NEW c \in Co, StateRead(c)
  PROVE  IInv'
  <1>1. Tail(dbq) \in Seq(Co) /\ pc[c] = "readstate"
    BY Resumed DEF StateRead, IInv
  <1>2. pc[c] \in Early /\ DbState \in States
    BY <1>1, ReadStates DEF Early, IInv
  <1>3. CASE nextSeq = NoSeq
    <2>1. /\ Await(c, "readseq", Tail(dbq))
          /\ UNCHANGED <<mem, db, ref, num, log, crashes>>
      BY <1>3 DEF StateRead
    <2>2. st' = [st EXCEPT ![c] = DbState] /\ UNCHANGED <<kind, hist>>
      BY <1>3 DEF StateRead
    <2>3. /\ kind' \in [Msg -> Kinds \cup {NoKind}] /\ st' \in [Co -> States]
          /\ after' \in [Reader -> Nat] /\ out' \in [Reader -> SUBSET Msg]
          /\ before' \in [Reader -> SUBSET Msg]
      BY <1>2, <2>2 DEF IInv, TypeOK, hist
    <2>. QED
      BY <1>1, <1>2, <2>1, <2>3, WaitStep DEF Waits
  <1>4. CASE nextSeq # NoSeq
    <2>1. Register(c, DbState, nextSeq) /\ UNCHANGED kind
      BY <1>4 DEF StateRead
    <2>2. nextSeq \in Nat \cup {NoSeq}
      BY DEF IInv, TypeOK
    <2>. QED
      BY <1>1, <1>2, <2>1, <2>2, RegisterStep
  <1>. QED
    BY <1>3, <1>4

LEMMA SeqReadStep ==
  ASSUME IInv, NEW c \in Co, SeqRead(c)
  PROVE  IInv'
  <1>1. Tail(dbq) \in Seq(Co) /\ pc[c] = "readseq"
    BY Resumed DEF SeqRead, IInv
  <1>2. pc[c] \in Early /\ st[c] \in States
    BY <1>1 DEF Early, IInv, TypeOK
  <1>3. DbMax + 1 \in Nat
    BY MaxSeq DEF IInv, NoRow
  <1>4. Register(c, st[c], DbMax + 1) /\ UNCHANGED kind
    BY DEF SeqRead
  <1>. QED
    BY <1>1, <1>2, <1>3, <1>4, RegisterStep

\* _write_db settles on a number whatever the counter and the table say.
LEMMA SelectStep ==
  ASSUME IInv, NEW m \in Msg, Select(m)
  PROVE  IInv'
  <1>. DEFINE s == WriteSeq(m, DbMax)
  <1>1. Tail(dbq) \in Seq(Co) /\ pc[m] = "select" /\ m \in Co
    BY Resumed DEF Select, IInv
  <1>2. s \in Nat
    <2>1. DbMax \in Nat \cup {NoRow}
      BY MaxSeq DEF IInv
    <2>2. msgSeq[m] \in Nat \cup {NoSeq} /\ nextSeq \in Nat \cup {NoSeq}
      BY DEF IInv, TypeOK
    <2>. QED
      BY <2>1, <2>2, ConstantsAssumption DEF WriteSeq, NoRow, NoSeq
  <1>3. /\ pc' = [pc EXCEPT ![m] = "insert"]
        /\ dbq' = Append(Tail(dbq), m)
        /\ num' = [num EXCEPT ![m] = s]
        /\ nextSeq' = s + 1
        /\ UNCHANGED <<bufs, cur, msgSeq, db, kind, ref, st, hist, log, crashes>>
    BY DEF Select, Await
  <1>. HIDE DEF s
  <1>4. TypeOK'
    <2>1. num' \in [Co -> Nat] /\ nextSeq' \in Nat
      BY <1>1, <1>2, <1>3 DEF IInv, TypeOK
    <2>2. pc' \in [Co -> Waits \cup {"idle", "returned", "raised", "lost"}]
      BY <1>3 DEF IInv, TypeOK, Waits
    <2>3. dbq' \in Seq(Co)
      BY <1>1, <1>3
    <2>. QED
      BY <1>3, <2>1, <2>2, <2>3 DEF IInv, TypeOK, db, hist
  <1>5. \A o \in Msg : o \in Co /\ pc'[o] = IF o = m THEN "insert" ELSE pc[o]
    BY <1>3 DEF IInv, TypeOK, Co
  <1>6. Unwritten' /\ Held'
    BY <1>1, <1>3, <1>5 DEF IInv, Unwritten, Held, Early, db
  <1>. QED
    BY <1>3, <1>4, <1>6 DEF IInv, RowsBounded, Agree, Stored, db

LEMMA InsertFailsStep ==
  ASSUME IInv, NEW m \in Msg, InsertFails(m)
  PROVE  IInv'
  <1>1. Tail(dbq) \in Seq(Co) /\ m \in Co
    BY Resumed DEF InsertFails, IInv
  <1>2. /\ pc' = [pc EXCEPT ![m] = "raised"] /\ dbq' \in Seq(Co)
        /\ UNCHANGED <<mem, db, kind, ref, num, st, after, out, before, log, crashes>>
    BY <1>1 DEF InsertFails, local
  <1>. QED
    BY <1>1, <1>2, EndStep DEF IInv, TypeOK

LEMMA InsertStep ==
  ASSUME IInv, NEW m \in Msg, Insert(m)
  PROVE  IInv'
  <1>. DEFINE old == bufs[ref[m]]
              new == Transition(Aligned(old, num[m]), kind[m])
  <1>1. Tail(dbq) \in Seq(Co) /\ pc[m] = "insert" /\ m \in Co
    BY Resumed DEF Insert, IInv
  <1>2. ref[m] \in 1..Len(bufs) /\ num[m] \in Nat
    BY <1>1 DEF IInv, Held, TypeOK
  <1>3. old \in SoundBuffer
    BY <1>2 DEF IInv
  <1>4. new \in SoundBuffer /\ new.state \in States
    BY <1>2, <1>3, AlignedSound, TransitionSound
  <1>5. /\ row' = [row EXCEPT ![m] = num[m]]
        /\ msgSeq' = [msgSeq EXCEPT ![m] = num[m]]
        /\ bufs' = [bufs EXCEPT ![ref[m]] = new]
        /\ UNCHANGED <<cur, nextSeq, status, deleted, kind, ref, num, hist, log, crashes>>
    BY DEF Insert
  <1>6. \/ /\ st' = [st EXCEPT ![m] = new.state]
           /\ pc' = [pc EXCEPT ![m] = "status"] /\ dbq' = Append(Tail(dbq), m)
        \/ /\ st' = st
           /\ pc' = [pc EXCEPT ![m] = "returned"] /\ dbq' = Tail(dbq)
    BY DEF Insert, Await, Return
  <1>. HIDE DEF new
  <1>7. bufs' \in Seq(SoundBuffer) /\ Len(bufs') = Len(bufs)
    BY <1>2, <1>4, <1>5, HeapUpdate DEF IInv
  <1>8. TypeOK'
    <2>1. bufs' \in Seq(Buffer)
      BY <1>7, HeapType
    <2>2. row' \in [Msg -> Nat \cup {NoRow}] /\ msgSeq' \in [Msg -> Nat \cup {NoSeq}]
      BY <1>2, <1>5 DEF IInv, TypeOK
    <2>3. st' \in [Co -> States]
      BY <1>4, <1>6 DEF IInv, TypeOK
    <2>4. pc' \in [Co -> Waits \cup {"idle", "returned", "raised", "lost"}]
      BY <1>6 DEF IInv, TypeOK, Waits
    <2>5. dbq' \in Seq(Co)
      BY <1>1, <1>6
    <2>. QED
      BY <1>5, <1>7, <2>1, <2>2, <2>3, <2>4, <2>5 DEF IInv, TypeOK, hist
  <1>9. RowsBounded'
    <2>1. PICK n \in Nat : \A o \in Msg : row[o] <= n
      BY DEF IInv, RowsBounded
    <2>2. \A o \in Msg : row[o] \in Int /\ row'[o] = IF o = m THEN num[m] ELSE row[o]
      BY <1>5 DEF IInv, TypeOK, NoRow
    <2>3. n + num[m] \in Nat /\ \A o \in Msg : row'[o] <= n + num[m]
      BY <1>2, <2>1, <2>2
    <2>. QED
      BY <2>3 DEF RowsBounded
  <1>10. \A o \in Msg : /\ o \in Co
                        /\ pc'[o] = pc[o] \/ (o = m /\ pc'[o] \in {"status", "returned"})
    BY <1>6 DEF IInv, TypeOK, Co
  <1>11. Unwritten' /\ Held'
    <2>1. \A o \in Msg : o # m => row'[o] = row[o]
      BY <1>5 DEF IInv, TypeOK
    <2>2. Unwritten'
      <3>. SUFFICES ASSUME NEW o \in Msg, pc'[o] \in Early
                    PROVE  row'[o] = NoRow
        BY DEF Unwritten, Early
      <3>1. o # m /\ pc[o] \in Early
        BY <1>10, <1>6, <1>1 DEF Early, IInv, TypeOK
      <3>. QED
        BY <3>1, <2>1 DEF IInv, Unwritten
    <2>3. Held'
      BY <1>5, <1>7, <1>10 DEF IInv, Held
    <2>. QED
      BY <2>2, <2>3
  <1>12. Agree'
    BY <1>5 DEF IInv, Agree, Stored, TypeOK
  <1>. QED
    BY <1>7, <1>8, <1>9, <1>11, <1>12 DEF IInv

LEMMA WriteStatusStep ==
  ASSUME IInv, NEW c \in Co, WriteStatus(c)
  PROVE  IInv'
  <1>1. Tail(dbq) \in Seq(Co) /\ st[c] \in States
    BY Resumed DEF WriteStatus, IInv, TypeOK
  <1>2. /\ pc' = [pc EXCEPT ![c] = "returned"] /\ dbq' = Tail(dbq)
        /\ status' \in {status, st[c]}
        /\ UNCHANGED <<mem, row, deleted, local, log, crashes>>
    BY DEF WriteStatus, Return
  <1>3. /\ pc' \in [Co -> Waits \cup {"idle", "returned", "raised", "lost"}]
        /\ Unwritten' /\ Held'
    BY <1>2, PcStep DEF IInv, Early, mem, local
  <1>4. TypeOK'
    BY <1>1, <1>2, <1>3 DEF IInv, TypeOK, mem, local
  <1>. QED
    BY <1>2, <1>3, <1>4 DEF IInv, RowsBounded, Agree, Stored, mem

LEMMA DeleteRowsStep ==
  ASSUME IInv, NEW c \in Remover, DeleteRows(c)
  PROVE  IInv'
  <1>1. Tail(dbq) \in Seq(Co) /\ c \in Co
    BY Resumed DEF DeleteRows, IInv
  <1>2. /\ pc' = [pc EXCEPT ![c] = "returned"] /\ dbq' = Tail(dbq)
        /\ row' = [m \in Msg |-> IF IsFile(m) THEN NoRow ELSE row[m]]
        /\ UNCHANGED <<mem, status, deleted, local, log, crashes>>
    BY DEF DeleteRows, Return
  <1>3. row' \in [Msg -> Nat \cup {NoRow}] /\ \A m \in Msg : row'[m] \in {row[m], NoRow}
    BY <1>2 DEF IInv, TypeOK
  <1>4. /\ pc' \in [Co -> Waits \cup {"idle", "returned", "raised", "lost"}]
        /\ Unwritten' /\ Held'
    BY <1>1, <1>2, <1>3, PcStep DEF IInv, Early, mem, local
  <1>5. TypeOK'
    BY <1>1, <1>2, <1>3, <1>4 DEF IInv, TypeOK, mem, local
  <1>6. RowsBounded'
    BY <1>3 DEF IInv, RowsBounded, NoRow
  <1>7. Agree'
    BY <1>2, <1>3 DEF IInv, Agree, Stored, mem
  <1>. QED
    BY <1>2, <1>4, <1>5, <1>6, <1>7 DEF IInv, mem

LEMMA FindSessionStep ==
  ASSUME IInv, NEW c \in Deleter, FindSession(c)
  PROVE  IInv'
  <1>1. Tail(dbq) \in Seq(Co) /\ c \in Co
    BY Resumed DEF FindSession, IInv
  <1>2. /\ UNCHANGED <<mem, db, kind, ref, num, st, after, out, before, log, crashes>>
        /\ kind' \in [Msg -> Kinds \cup {NoKind}] /\ st' \in [Co -> States]
        /\ after' \in [Reader -> Nat] /\ out' \in [Reader -> SUBSET Msg]
        /\ before' \in [Reader -> SUBSET Msg]
    BY DEF FindSession, local, IInv, TypeOK
  <1>3. CASE deleted
    <2>1. pc' = [pc EXCEPT ![c] = "raised"] /\ dbq' = Tail(dbq)
      BY <1>3 DEF FindSession
    <2>. QED
      BY <1>1, <1>2, <2>1, EndStep
  <1>4. CASE ~deleted
    <2>1. Await(c, "softdelete", Tail(dbq))
      BY <1>4 DEF FindSession
    <2>. QED
      BY <1>1, <1>2, <2>1, WaitStep DEF Waits, Early
  <1>. QED
    BY <1>3, <1>4

LEMMA SoftDeleteStep ==
  ASSUME IInv, NEW c \in Deleter, SoftDelete(c)
  PROVE  IInv'
  <1>1. Tail(dbq) \in Seq(Co) /\ c \in Co
    BY Resumed DEF SoftDelete, IInv
  <1>2. /\ pc' = [pc EXCEPT ![c] = "returned"] /\ dbq' = Tail(dbq)
        /\ deleted' = TRUE /\ status' = "deleted" /\ cur' = NoBuf
        /\ UNCHANGED <<bufs, nextSeq, msgSeq, row, local, log, crashes>>
    BY DEF SoftDelete, Return
  <1>3. /\ pc' \in [Co -> Waits \cup {"idle", "returned", "raised", "lost"}]
        /\ Unwritten' /\ Held'
    BY <1>1, <1>2, PcStep DEF IInv, Early, local
  <1>4. cur' \in 0..Len(bufs')
    BY <1>2 DEF IInv, TypeOK, NoBuf
  <1>5. TypeOK'
    BY <1>1, <1>2, <1>3, <1>4 DEF IInv, TypeOK, local
  <1>. QED
    BY <1>2, <1>3, <1>5 DEF IInv, RowsBounded, Agree, Stored

LEMMA LookStep ==
  ASSUME IInv, NEW r \in Reader, Look(r)
  PROVE  IInv'
  <1>1. /\ Await(r, "readstate", dbq) /\ pc[r] \in Early
        /\ UNCHANGED <<mem, db, ref, num, log, crashes>>
    BY DEF Look, Wait, Starts, Early
  <1>2. /\ r \in Co /\ dbq \in Seq(Co)
        /\ kind' \in [Msg -> Kinds \cup {NoKind}] /\ st' \in [Co -> States]
        /\ after' \in [Reader -> Nat] /\ out' \in [Reader -> SUBSET Msg]
        /\ before' \in [Reader -> SUBSET Msg]
    BY DEF Look, Wait, IInv, TypeOK, Co, hist
  <1>. QED
    BY <1>1, <1>2, WaitStep DEF Waits

\* What a call of get_history notes when it starts.
LEMMA Asked ==
  ASSUME IInv, NEW r \in Reader, NEW a \in After, Asks(r, a)
  PROVE  /\ r \in Co /\ dbq \in Seq(Co)
         /\ after' \in [Reader -> Nat] /\ before' \in [Reader -> SUBSET Msg]
         /\ kind' \in [Msg -> Kinds \cup {NoKind}] /\ st' \in [Co -> States]
         /\ UNCHANGED <<mem, db, kind, ref, num, st, log, crashes>>
  BY ConstantsAssumption DEF Asks, IInv, TypeOK, Co

LEMMA GetFromMemoryStep ==
  ASSUME IInv, NEW r \in Reader, NEW a \in After, GetFromMemory(r, a)
  PROVE  IInv'
  <1>. DEFINE answer == {bufs[cur].msgs[i] : i \in Slice(bufs[cur], a)}
  <1>1. Asks(r, a) /\ Return(r, dbq) /\ out' = [out EXCEPT ![r] = answer]
    BY DEF GetFromMemory
  <1>2. bufs[cur] \in SoundBuffer
    BY DEF GetFromMemory, IInv, TypeOK, NoBuf
  <1>3. bufs[cur].msgs \in Seq(Msg) /\ bufs[cur].base \in Nat /\ a \in Nat
    BY <1>2, ConstantsAssumption DEF SoundBuffer, Buffer
  <1>4. Slice(bufs[cur], a) \subseteq 1..Len(bufs[cur].msgs)
    BY <1>3 DEF Slice
  <1>5. answer \subseteq Msg
    BY <1>3, <1>4
  <1>. HIDE DEF answer
  <1>6. out' \in [Reader -> SUBSET Msg]
    BY <1>1, <1>5 DEF IInv, TypeOK
  <1>7. pc' = [pc EXCEPT ![r] = "returned"] /\ dbq' = dbq
    BY <1>1 DEF Return
  <1>. QED
    BY <1>1, <1>6, <1>7, Asked, EndStep

LEMMA GetFromDbStep ==
  ASSUME IInv, NEW r \in Reader, NEW a \in After, GetFromDb(r, a)
  PROVE  IInv'
  <1>1. PICK w \in {"cold", "fallback"} : Await(r, w, dbq)
    BY DEF GetFromDb
  <1>2. w \in Waits /\ w \notin Early /\ w \notin {"select", "insert"}
    BY DEF Waits, Early
  <1>3. Asks(r, a) /\ out' \in [Reader -> SUBSET Msg]
    BY DEF GetFromDb, IInv, TypeOK
  <1>. QED
    BY <1>1, <1>2, <1>3, Asked, WaitStep

LEMMA FallbackStep ==
  ASSUME IInv, NEW r \in Reader, Fallback(r)
  PROVE  IInv'
  <1>1. Tail(dbq) \in Seq(Co) /\ r \in Co
    BY Resumed DEF Fallback, IInv
  <1>2. /\ pc' = [pc EXCEPT ![r] = "returned"] /\ dbq' = Tail(dbq)
        /\ out' = [out EXCEPT ![r] = RowsFrom(after[r])]
        /\ UNCHANGED <<mem, db, kind, ref, num, st, after, before, log, crashes>>
    BY DEF Fallback, Return
  <1>3. RowsFrom(after[r]) \subseteq Msg
    BY DEF RowsFrom
  <1>4. /\ out' \in [Reader -> SUBSET Msg] /\ after' \in [Reader -> Nat]
        /\ before' \in [Reader -> SUBSET Msg]
    BY <1>2, <1>3 DEF IInv, TypeOK
  <1>. QED
    BY <1>1, <1>2, <1>4, EndStep

LEMMA ColdReadStep ==
  ASSUME IInv, NEW r \in Reader, ColdRead(r)
  PROVE  IInv'
  <1>1. Tail(dbq) \in Seq(Co) /\ r \in Co /\ r \notin Msg
    BY Resumed, ConstantsAssumption DEF ColdRead, IInv
  <1>2. /\ out' = [out EXCEPT ![r] = RowsFrom(after[r])]
        /\ UNCHANGED <<mem, db, kind, ref, num, st, after, before, log, crashes>>
    BY DEF ColdRead
  <1>3. RowsFrom(after[r]) \subseteq Msg
    BY DEF RowsFrom
  <1>4. /\ out' \in [Reader -> SUBSET Msg] /\ after' \in [Reader -> Nat]
        /\ before' \in [Reader -> SUBSET Msg]
        /\ kind' \in [Msg -> Kinds \cup {NoKind}] /\ st' \in [Co -> States]
    BY <1>2, <1>3 DEF IInv, TypeOK
  <1>5. CASE Return(r, Tail(dbq))
    BY <1>1, <1>2, <1>4, <1>5, EndStep DEF Return
  <1>6. ASSUME NEW w \in {"owner", "readstate"}, Await(r, w, Tail(dbq))
        PROVE  IInv'
    <2>1. w \in Waits /\ w \notin {"select", "insert"}
      BY DEF Waits
    <2>. QED
      BY <1>1, <1>2, <1>4, <1>6, <2>1, WaitStep
  <1>. QED
    BY <1>5, <1>6 DEF ColdRead

\* What happens from outside writes no row and lets no call go on.
LEMMA BeginRunStep ==
  ASSUME IInv, BeginRun
  PROVE  IInv'
  <1>. DEFINE x == [bufs[cur] EXCEPT !.done = FALSE, !.state = "running"]
  <1>1. cur \in 1..Len(bufs) /\ bufs[cur] \in SoundBuffer
    BY DEF BeginRun, IInv, TypeOK, NoBuf
  <1>2. x \in SoundBuffer
    BY <1>1 DEF SoundBuffer, Buffer, States
  <1>3. /\ bufs' = [bufs EXCEPT ![cur] = x]
        /\ UNCHANGED <<cur, nextSeq, msgSeq, db, local, pc, dbq, log, crashes>>
    BY <1>1 DEF BeginRun, SoundBuffer, Buffer
  <1>. HIDE DEF x
  <1>4. bufs' \in Seq(SoundBuffer) /\ Len(bufs') = Len(bufs) /\ bufs' \in Seq(Buffer)
    BY <1>1, <1>2, <1>3, HeapUpdate, HeapType DEF IInv
  <1>5. TypeOK'
    BY <1>3, <1>4 DEF IInv, TypeOK, db, local
  <1>. QED
    BY <1>3, <1>4, <1>5
    DEF IInv, RowsBounded, Unwritten, Held, Agree, Stored, db, local

LEMMA ExpireStep ==
  ASSUME IInv, Expire
  PROVE  IInv'
  <1>1. cur' \in 0..Len(bufs')
    BY DEF Expire, IInv, TypeOK, NoBuf
  <1>2. TypeOK'
    BY <1>1 DEF Expire, IInv, TypeOK, db, local
  <1>. QED
    BY <1>2 DEF Expire, IInv, RowsBounded, Unwritten, Held, Agree, Stored, db, local

LEMMA CrashStep ==
  ASSUME IInv, Crash
  PROVE  IInv'
  <1>1. /\ bufs' = <<>> /\ cur' = NoBuf /\ nextSeq' = NoSeq /\ dbq' = <<>>
        /\ msgSeq' = [m \in Msg |-> NoSeq]
        /\ pc' = [c \in Co |-> IF pc[c] \in Waits THEN "lost" ELSE pc[c]]
        /\ ref' = [c \in Co |-> NoBuf]
        /\ UNCHANGED <<row, deleted, kind, num, st, hist, log>>
    BY DEF Crash
  <1>2. bufs' \in Seq(SoundBuffer) /\ bufs' \in Seq(Buffer) /\ cur' \in 0..Len(bufs')
    BY <1>1 DEF NoBuf
  <1>3. status' \in States \cup {"deleted"}
    BY ReadStates DEF Crash, IInv, TypeOK
  <1>4. crashes' \in 0..MaxCrashes
    BY ConstantsAssumption DEF Crash, IInv, TypeOK
  <1>5. pc' \in [Co -> Waits \cup {"idle", "returned", "raised", "lost"}]
    BY <1>1 DEF IInv, TypeOK
  <1>6. ref' \in [Co -> Nat] /\ dbq' \in Seq(Co) /\ msgSeq' \in [Msg -> Nat \cup {NoSeq}]
    BY <1>1 DEF NoBuf
  <1>7. TypeOK'
    BY <1>1, <1>2, <1>3, <1>4, <1>5, <1>6 DEF IInv, TypeOK, hist
  <1>8. \A m \in Msg : m \in Co /\ (pc'[m] \in Early => pc[m] \in Early)
                       /\ pc'[m] \notin {"select", "insert"}
    BY <1>1 DEF Co, Early, Waits
  <1>9. Unwritten' /\ Held'
    BY <1>1, <1>8 DEF IInv, Unwritten, Held
  <1>. QED
    BY <1>1, <1>2, <1>7, <1>9 DEF IInv, RowsBounded, Agree

-----------------------------------------------------------------------------
LEMMA StepIInv == IInv /\ [Next]_vars => IInv'
  <1>. SUFFICES ASSUME IInv, [Next]_vars PROVE IInv'
    OBVIOUS
  <1>1. ASSUME NEW m \in Msg, Add(m) \/ Select(m) \/ Insert(m) \/ InsertFails(m)
        PROVE  IInv'
    BY <1>1, AddStep, SelectStep, InsertStep, InsertFailsStep
  <1>2. ASSUME NEW c \in Co,
               OwnerRead(c) \/ StateRead(c) \/ SeqRead(c) \/ WriteStatus(c)
        PROVE  IInv'
    BY <1>2, OwnerReadStep, StateReadStep, SeqReadStep, WriteStatusStep
  <1>3. ASSUME NEW c \in Marker \cup Remover, CallOther(c)
        PROVE  IInv'
    BY <1>3, CallOtherStep DEF Co
  <1>4. ASSUME NEW c \in Remover, DeleteRows(c)
        PROVE  IInv'
    BY <1>4, DeleteRowsStep
  <1>5. ASSUME NEW c \in Deleter, CallDelete(c) \/ FindSession(c) \/ SoftDelete(c)
        PROVE  IInv'
    BY <1>5, CallDeleteStep, FindSessionStep, SoftDeleteStep
  <1>6. ASSUME NEW r \in Reader, NEW a \in After, GetFromMemory(r, a) \/ GetFromDb(r, a)
        PROVE  IInv'
    BY <1>6, GetFromMemoryStep, GetFromDbStep
  <1>7. ASSUME NEW r \in Reader, Fallback(r) \/ ColdRead(r) \/ Look(r)
        PROVE  IInv'
    BY <1>7, FallbackStep, ColdReadStep, LookStep
  <1>8. CASE BeginRun \/ Expire \/ Crash
    BY <1>8, BeginRunStep, ExpireStep, CrashStep
  <1>9. CASE UNCHANGED vars
    BY <1>9 DEF vars, IInv, TypeOK, RowsBounded, Unwritten, Held, Agree, Stored
  <1>. QED
    BY <1>1, <1>2, <1>3, <1>4, <1>5, <1>6, <1>7, <1>8, <1>9 DEF Next

\* The invariant the theorems below rest on: true at the start and kept by
\* every call, every answer of the database, every expiry and every crash.
THEOREM Inductive == Spec => []IInv
  BY InitIInv, StepIInv, PTL DEF Spec

\* Every variable of the buffer keeps its type: list positions and numbers
\* stay in range through eviction, removal, cold starts and renumbering.
THEOREM TypeCorrect == Spec => []TypeOK
  <1>1. IInv => TypeOK
    BY DEF IInv
  <1>. QED
    BY <1>1, Inductive, PTL

\* Once add_message has returned, the message it appended carries in memory
\* the seq of its row in SQLite: any number of writers and buffers may race
\* and _write_db may renumber with any gap.
THEOREM RowsAgree == Spec => []Agreement
  <1>1. IInv => Agreement
    BY DEF IInv, Agree, Agreement
  <1>. QED
    BY <1>1, Inductive, PTL

\* A buffer that is done is in a terminal state, whoever wrote to it last.
THEOREM TerminalWhenDone == Spec => []DoneIsTerminal
  <1>1. IInv => DoneIsTerminal
    BY DEF IInv, DoneIsTerminal, SoundBuffer
  <1>. QED
    BY <1>1, Inductive, PTL

-----------------------------------------------------------------------------
(* A warm session: no call but the first finds it out of memory.  The dict   *)
(* that is created first is then the only one until the process ends.         *)

\* dbq has the calls that wait, each once
Queued ==
    /\ \A c \in Co : pc[c] \in Waits <=> \E i \in DOMAIN dbq : dbq[i] = c
    /\ \A i, j \in DOMAIN dbq : dbq[i] = dbq[j] => i = j

\* Counter and dict are there together, and who writes has them
Warm ==
    /\ Len(bufs) <= 1
    /\ nextSeq = NoSeq <=> bufs = <<>>
    /\ bufs = <<>> => \A c \in Co : pc[c] \notin {"select", "insert", "status", "delete"}

\* c starts, or is resumed; q is the queue without it
Enters(c, q) ==
    \/ Starts(c) /\ q = dbq
    \/ pc[c] \in Waits /\ dbq # <<>> /\ c = Head(dbq) /\ q = Tail(dbq)

\* c goes on to wait for w, or is through
Goes(c, w, q) ==
    /\ pc' = [pc EXCEPT ![c] = w]
    /\ dbq' = IF w \in Waits THEN Append(q, c) ELSE q

Quietly == {"owner", "readstate", "readseq", "exists", "softdelete", "cold", "fallback",
            "returned", "raised"}

\* A step that writes nothing: _ensure_buf on its way, a read, a call refused
Idles(c, w, q) ==
    /\ Goes(c, w, q)
    /\ pc[c] \in {"idle", "owner", "readstate", "exists", "cold", "fallback"}
    /\ c \in Msg => /\ pc[c] \in {"idle", "owner", "readstate"}
                    /\ w \in {"owner", "readstate", "readseq"}
    /\ \A m \in Msg : kind'[m] = kind[m] \/ (m = c /\ pc[c] = "idle")
    /\ IF w = "readseq" THEN pc[c] = "readstate" /\ st' = [st EXCEPT ![c] = DbState]
       ELSE UNCHANGED st
    /\ UNCHANGED <<mem, db, ref, num, log, crashes>>

\* _ensure_buf has given c the one dict there is, or has created it
Uses(c, h, n, q) ==
    /\ Proceed(c, 1, h, n, q)
    /\ cur' = 1
    /\ \A m \in Msg : kind'[m] = kind[m] \/ (m = c /\ pc[c] = "idle")
    /\ pc[c] \in {"idle", "owner", "readseq"}
    /\ \/ Len(bufs) = 1 /\ h = bufs /\ n = nextSeq
       \/ bufs = <<>> /\ pc[c] = "readseq" /\ h = <<NewBuf(st[c])>> /\ n = DbMax + 1

LEMMA QueueMove ==
  ASSUME IInv, Queued, NEW c \in Co, NEW w \in Waits \cup {"returned", "raised"}, NEW q,
         Enters(c, q), Goes(c, w, q)
  PROVE  /\ Queued' /\ q \in Seq(Co) /\ pc'[c] = w
         /\ \A d \in Co \ {c} : pc'[d] = pc[d]
         /\ \A i \in DOMAIN q : q[i] # c
  <1>1. dbq \in Seq(Co) /\ pc \in [Co -> Waits \cup {"idle", "returned", "raised", "lost"}]
    BY DEF IInv, TypeOK
  <1>2. /\ pc'[c] = w /\ \A d \in Co \ {c} : pc'[d] = pc[d]
        /\ {"idle", "returned", "raised"} \cap Waits = {}
    BY <1>1 DEF Goes, Waits
  <1>3. /\ q \in Seq(Co)
        /\ \A i \in DOMAIN q : q[i] # c
        /\ \A i, j \in DOMAIN q : q[i] = q[j] => i = j
        /\ \A d \in Co \ {c} : pc[d] \in Waits <=> \E i \in DOMAIN q : q[i] = d
    <2>1. CASE Starts(c) /\ q = dbq
      BY <1>1, <1>2, <2>1 DEF Queued, Starts
    <2>2. CASE pc[c] \in Waits /\ dbq # <<>> /\ c = Head(dbq) /\ q = Tail(dbq)
      <3>1. /\ q \in Seq(Co) /\ Len(q) = Len(dbq) - 1 /\ Len(dbq) \in Nat \ {0} /\ dbq[1] = c
            /\ \A i \in 1 .. Len(q) : q[i] = dbq[i + 1]
        BY <1>1, <2>2
      <3>2. \A i \in 2 .. Len(dbq) : i - 1 \in DOMAIN q /\ q[i - 1] = dbq[i]
        BY <3>1
      <3>3. \A i \in DOMAIN q : i + 1 \in DOMAIN dbq /\ i + 1 # 1
        BY <1>1, <3>1
      <3>4. \A i \in DOMAIN q : q[i] # c
        BY <1>1, <3>1, <3>3 DEF Queued
      <3>5. ASSUME NEW i \in DOMAIN q, NEW j \in DOMAIN q, q[i] = q[j] PROVE i = j
        <4>1. DOMAIN q = 1 .. Len(q) /\ i \in Int /\ j \in Int
          BY <3>1
        <4>2. i + 1 = j + 1
          BY <3>1, <3>3, <3>5, <4>1 DEF Queued
        <4>. QED
          BY <4>1, <4>2
      <3>6. ASSUME NEW d \in Co \ {c}
            PROVE  pc[d] \in Waits <=> \E i \in DOMAIN q : q[i] = d
        <4>1. ASSUME pc[d] \in Waits PROVE \E i \in DOMAIN q : q[i] = d
          <5>1. PICK i \in DOMAIN dbq : dbq[i] = d
            BY <4>1 DEF Queued
          <5>2. i \in 2 .. Len(dbq)
            BY <1>1, <3>1, <5>1
          <5>. QED
            BY <3>2, <5>1, <5>2
        <4>2. ASSUME NEW i \in DOMAIN q, q[i] = d PROVE pc[d] \in Waits
          BY <3>1, <3>3, <4>2 DEF Queued
        <4>. QED
          BY <4>1, <4>2
      <3>. QED
        BY <3>1, <3>4, <3>5, <3>6
    <2>. QED
      BY <2>1, <2>2 DEF Enters
  <1>4. CASE w \in Waits
    <2>1. dbq' = Append(q, c)
      BY <1>4 DEF Goes
    <2>2. /\ DOMAIN dbq' = 1 .. Len(q) + 1 /\ Len(q) \in Nat /\ dbq'[Len(q) + 1] = c
          /\ DOMAIN q = 1 .. Len(q) /\ \A i \in 1 .. Len(q) : dbq'[i] = q[i]
      BY <1>3, <2>1
    <2>3. \A i, j \in DOMAIN dbq' : dbq'[i] = dbq'[j] => i = j
      BY <1>3, <2>2
    <2>4. \A d \in Co : pc'[d] \in Waits <=> \E i \in DOMAIN dbq' : dbq'[i] = d
      <3>1. \A d \in Co \ {c} : (\E i \in DOMAIN dbq' : dbq'[i] = d)
                                    <=> \E i \in DOMAIN q : q[i] = d
        BY <2>2
      <3>. QED
        BY <1>2, <1>3, <1>4, <2>2, <3>1
    <2>. QED
      BY <1>2, <1>3, <2>3, <2>4 DEF Queued
  <1>5. CASE w \notin Waits
    <2>1. dbq' = q
      BY <1>5 DEF Goes
    <2>2. \A d \in Co \ {c} : pc'[d] \in Waits <=> \E i \in DOMAIN dbq' : dbq'[i] = d
      BY <1>2, <1>3, <2>1
    <2>3. pc'[c] \notin Waits /\ \A i \in DOMAIN dbq' : dbq'[i] # c
      BY <1>2, <1>3, <1>5, <2>1
    <2>4. \A d \in Co : pc'[d] \in Waits <=> \E i \in DOMAIN dbq' : dbq'[i] = d
      BY <2>2, <2>3
    <2>5. \A i, j \in DOMAIN dbq' : dbq'[i] = dbq'[j] => i = j
      BY <1>3, <2>1
    <2>. QED
      BY <1>2, <1>3, <2>4, <2>5 DEF Queued
  <1>. QED
    BY <1>4, <1>5


LEMMA OneDict ==
  ASSUME IInv, Warm, cur # NoBuf
  PROVE  cur = 1 /\ Len(bufs) = 1
  <1>1. cur \in 0 .. Len(bufs) /\ Len(bufs) \in Nat /\ Len(bufs) <= 1
    BY DEF IInv, TypeOK, Warm
  <1>2. \A n \in Nat : n <= 1 => \A k \in 0 .. n : k # 0 => k = 1 /\ n = 1
    OBVIOUS
  <1>. QED
    BY <1>1, <1>2 DEF NoBuf

\* _ensure_buf, wherever a call comes to it
LEMMA Ensures ==
  ASSUME MaxBufs <= 1, IInv, Queued, Warm, NEW c \in Co, NEW q, Enters(c, q),
         pc[c] \in {"idle", "owner"}, NEW w \in {"owner", "readstate"},
         \A m \in Msg : kind'[m] = kind[m] \/ (m = c /\ pc[c] = "idle"),
         IF cur = NoBuf THEN Wait(c, w, q)
         ELSE Proceed(c, cur, bufs, nextSeq, q) /\ UNCHANGED cur
  PROVE  \/ Idles(c, w, q)
         \/ \E h, n : Uses(c, h, n, q)
  <1>1. CASE cur = NoBuf
    <2>1. Wait(c, w, q)
      BY <1>1
    <2>. QED
      BY <2>1 DEF Wait, Await, Idles, Goes, Waits
  <1>2. CASE cur # NoBuf
    <2>2. cur = 1 /\ Len(bufs) = 1
      BY <1>2, OneDict
    <2>. QED
      BY <1>2, <2>2 DEF Uses
  <1>. QED
    BY <1>1, <1>2

LEMMA Registers ==
  ASSUME MaxBufs <= 1, IInv, Queued, Warm, NEW c \in Co, pc[c] = "readseq",
         Register(c, st[c], DbMax + 1), UNCHANGED kind
  PROVE  Uses(c, <<NewBuf(st[c])>>, DbMax + 1, Tail(dbq))
  <1>1. bufs \in Seq(Buffer) /\ Len(bufs) < MaxBufs /\ MaxBufs \in Nat
    BY ConstantsAssumption DEF IInv, TypeOK, Register
  <1>2. bufs = <<>> /\ Len(bufs) = 0
    BY <1>1
  <1>3. Append(bufs, NewBuf(st[c])) = <<NewBuf(st[c])>>
    BY <1>2
  <1>. QED
    BY <1>2, <1>3 DEF Register, Uses

\* Every step of a warm session is one of these
LEMMA WarmSteps ==
  ASSUME MaxBufs <= 1, IInv, Queued, Warm, [Next]_vars
  PROVE  \/ \E c \in Co : \E q : Enters(c, q) /\ \E w \in Quietly : Idles(c, w, q)
         \/ \E c \in Co : \E q : Enters(c, q) /\ \E h, n : Uses(c, h, n, q)
         \/ \E m \in Msg : Select(m) \/ Insert(m) \/ InsertFails(m)
         \/ \E c \in Co : WriteStatus(c)
         \/ \E c \in Remover : DeleteRows(c)
         \/ \E c \in Deleter : SoftDelete(c)
         \/ BeginRun \/ Expire \/ Crash \/ UNCHANGED vars
  <1>. DEFINE Quiet == \E c \in Co : \E q : Enters(c, q) /\ \E w \in Quietly : Idles(c, w, q)
              Busy  == \E c \in Co : \E q : Enters(c, q) /\ \E h, n : Uses(c, h, n, q)
  <1>0. /\ "owner" \in Quietly /\ "readstate" \in Quietly
        /\ \A c, w : Resumes(c, w) /\ w \in Waits => Enters(c, Tail(dbq))
    BY DEF Quietly, Resumes, Enters
  <1>1. ASSUME NEW m \in Msg, Add(m) PROVE Quiet \/ Busy
    <2>1. m \in Co /\ Enters(m, dbq) /\ pc[m] = "idle"
      BY <1>1 DEF Co, Add, Enters, Starts
    <2>2. \A o \in Msg : kind'[o] = kind[o] \/ (o = m /\ pc[m] = "idle")
      BY <1>1, <2>1 DEF Add, IInv, TypeOK
    <2>3. \/ Idles(m, "owner", dbq)
          \/ \E h, n : Uses(m, h, n, dbq)
      BY <1>1, <2>1, <2>2, Ensures DEF Add
    <2>. QED
      BY <1>0, <2>1, <2>3
  <1>2. ASSUME NEW c \in Marker \cup Remover, CallOther(c) PROVE Quiet \/ Busy
    <2>1. c \in Co /\ Enters(c, dbq) /\ pc[c] = "idle"
      BY <1>2 DEF Co, CallOther, Enters, Starts
    <2>2. \/ Idles(c, "readstate", dbq)
          \/ \E h, n : Uses(c, h, n, dbq)
      BY <1>2, <2>1, Ensures DEF CallOther
    <2>. QED
      BY <1>0, <2>1, <2>2
  <1>3. ASSUME NEW c \in Co, OwnerRead(c) PROVE Quiet \/ Busy
    <2>1. Enters(c, Tail(dbq)) /\ pc[c] = "owner"
      BY <1>0, <1>3 DEF OwnerRead, Resumes, Waits
    <2>2. \/ Idles(c, "readstate", Tail(dbq))
          \/ \E h, n : Uses(c, h, n, Tail(dbq))
      BY <1>3, <2>1, Ensures DEF OwnerRead
    <2>. QED
      BY <1>0, <2>1, <2>2
  <1>4. ASSUME NEW c \in Co, StateRead(c) PROVE Quiet
    <2>1. Enters(c, Tail(dbq)) /\ pc[c] = "readstate"
      BY <1>0, <1>4 DEF StateRead, Resumes, Waits
    <2>2. nextSeq = NoSeq
      <3>1. ASSUME nextSeq # NoSeq PROVE FALSE
        <4>1. Len(bufs) < MaxBufs /\ bufs # <<>>
          BY <1>4, <3>1 DEF StateRead, Register, Warm
        <4>. QED
          BY <4>1, ConstantsAssumption DEF IInv, TypeOK
      <3>. QED
        BY <3>1
    <2>3. Idles(c, "readseq", Tail(dbq))
      BY <1>4, <2>1, <2>2 DEF StateRead, Idles, Goes, Await, Waits
    <2>4. "readseq" \in Quietly
      BY DEF Quietly
    <2>. QED
      BY <2>1, <2>3, <2>4
  <1>5. ASSUME NEW c \in Co, SeqRead(c) PROVE Busy
    <2>1. Enters(c, Tail(dbq)) /\ pc[c] = "readseq"
      BY <1>0, <1>5 DEF SeqRead, Resumes, Waits
    <2>2. Uses(c, <<NewBuf(st[c])>>, DbMax + 1, Tail(dbq))
      BY <1>5, <2>1, Registers DEF SeqRead
    <2>. QED
      BY <2>1, <2>2
  <1>6. ASSUME NEW c \in Deleter, CallDelete(c) \/ FindSession(c) PROVE Quiet
    <2>0. c \in Co /\ c \notin Msg
      BY ConstantsAssumption DEF Co
    <2>1. CASE CallDelete(c)
      <3>1. Enters(c, dbq) /\ Idles(c, "exists", dbq) /\ "exists" \in Quietly
        BY <2>0, <2>1 DEF CallDelete, Enters, Starts, Wait, Await, Idles, Goes, Waits, Quietly
      <3>. QED
        BY <2>0, <3>1
    <2>2. CASE FindSession(c)
      <3>1. Enters(c, Tail(dbq)) /\ pc[c] = "exists"
        BY <1>0, <2>2 DEF FindSession, Resumes, Waits
      <3>2. Idles(c, IF deleted THEN "raised" ELSE "softdelete", Tail(dbq))
        BY <2>0, <2>2, <3>1 DEF FindSession, Await, Idles, Goes, Waits, local
      <3>3. (IF deleted THEN "raised" ELSE "softdelete") \in Quietly
        BY DEF Quietly
      <3>. QED
        BY <2>0, <3>1, <3>2, <3>3
    <2>. QED
      BY <1>6, <2>1, <2>2
  <1>7. ASSUME NEW r \in Reader, \/ \E a \in After : GetFromMemory(r, a) \/ GetFromDb(r, a)
                                 \/ Fallback(r) \/ ColdRead(r) \/ Look(r)
        PROVE  Quiet
    <2>0. r \in Co /\ r \notin Msg /\ {"returned", "cold", "fallback", "readstate", "owner"} \subseteq Quietly
      BY ConstantsAssumption DEF Co, Quietly
    <2>1. ASSUME NEW a \in After, GetFromMemory(r, a) \/ GetFromDb(r, a) PROVE Quiet
      <3>1. Enters(r, dbq) /\ pc[r] = "idle"
        BY <2>1 DEF GetFromMemory, GetFromDb, Asks, Enters, Starts
      <3>2. PICK w \in {"returned", "cold", "fallback"} : Goes(r, w, dbq)
        BY <2>1 DEF GetFromMemory, GetFromDb, Return, Await, Goes, Waits
      <3>3. Idles(r, w, dbq)
        BY <2>0, <2>1, <3>1, <3>2 DEF GetFromMemory, GetFromDb, Asks, Idles
      <3>. QED
        BY <2>0, <3>1, <3>3
    <2>2. CASE Fallback(r)
      <3>1. Enters(r, Tail(dbq)) /\ pc[r] = "fallback"
        BY <1>0, <2>2 DEF Fallback, Resumes, Waits
      <3>2. Idles(r, "returned", Tail(dbq))
        BY <2>0, <2>2, <3>1 DEF Fallback, Return, Idles, Goes, Waits
      <3>. QED
        BY <2>0, <3>1, <3>2
    <2>3. CASE ColdRead(r)
      <3>1. Enters(r, Tail(dbq)) /\ pc[r] = "cold"
        BY <1>0, <2>3 DEF ColdRead, Resumes, Waits
      <3>2. PICK w \in {"returned", "owner", "readstate"} : Goes(r, w, Tail(dbq))
        BY <2>3 DEF ColdRead, Return, Await, Goes, Waits
      <3>3. Idles(r, w, Tail(dbq))
        BY <2>0, <2>3, <3>1, <3>2 DEF ColdRead, Idles
      <3>. QED
        BY <2>0, <3>1, <3>3
    <2>4. CASE Look(r)
      <3>1. Enters(r, dbq) /\ Idles(r, "readstate", dbq)
        BY <2>0, <2>4 DEF Look, Enters, Starts, Wait, Await, Idles, Goes, Waits
      <3>. QED
        BY <2>0, <3>1
    <2>. QED
      BY <1>7, <2>1, <2>2, <2>3, <2>4
  <1>. HIDE DEF Quiet, Busy
  <1>8. \/ Quiet \/ Busy
        \/ \E m \in Msg : Select(m) \/ Insert(m) \/ InsertFails(m)
        \/ \E c \in Co : WriteStatus(c)
        \/ \E c \in Remover : DeleteRows(c)
        \/ \E c \in Deleter : SoftDelete(c)
        \/ BeginRun \/ Expire \/ Crash \/ UNCHANGED vars
    BY <1>1, <1>2, <1>3, <1>4, <1>5, <1>6, <1>7 DEF Next
  <1>. QED
    BY <1>8 DEF Quiet, Busy

\* What a use of the dict comes to
LEMMA UsesEffect ==
  ASSUME IInv, Queued, Warm, NEW c \in Co, NEW q, Enters(c, q), NEW h, NEW n, Uses(c, h, n, q)
  PROVE  /\ n \in Nat /\ h \in Seq(SoundBuffer) /\ Len(h) = 1 /\ h[1] \in SoundBuffer
         /\ \E w \in {"returned", "select", "status", "delete"} :
                Goes(c, w, q) /\ (w = "select" => c \in Msg)
         /\ \E x \in SoundBuffer : bufs' = [h EXCEPT ![1] = x]
         /\ Len(bufs') = 1 /\ bufs' # <<>> /\ bufs' \in Seq(SoundBuffer)
         /\ nextSeq' \in {n, n + 1}
  <1>1. n \in Nat /\ h \in Seq(SoundBuffer) /\ Len(h) = 1
    <2>1. CASE Len(bufs) = 1 /\ h = bufs /\ n = nextSeq
      <3>1. nextSeq \in Nat \cup {NoSeq} /\ bufs \in Seq(SoundBuffer)
        BY DEF IInv, TypeOK
      <3>2. bufs # <<>>
        BY <2>1
      <3>3. nextSeq # NoSeq
        BY <3>2 DEF Warm
      <3>. QED
        BY <2>1, <3>1, <3>3
    <2>2. CASE bufs = <<>> /\ h = <<NewBuf(st[c])>> /\ n = DbMax + 1
      <3>1. DbMax \in Nat \cup {NoRow}
        BY MaxSeq DEF IInv
      <3>2. NewBuf(st[c]) \in SoundBuffer
        BY NewBufSound DEF IInv, TypeOK
      <3>. QED
        BY <2>2, <3>1, <3>2 DEF NoRow
    <2>. QED
      BY <2>1, <2>2 DEF Uses
  <1>2. h[1] \in SoundBuffer
    BY <1>1
  <1>3. Proceed(c, 1, h, n, q)
    BY DEF Uses
  <1>. DEFINE Turns == \E w \in {"returned", "select", "status", "delete"} :
                           Goes(c, w, q) /\ (w = "select" => c \in Msg)
              Writes == \E x \in SoundBuffer : bufs' = [h EXCEPT ![1] = x]
  <1>4. ASSUME c \in Msg /\ AddStream(c, 1, h, n, q)
        PROVE  Turns /\ Writes /\ nextSeq' \in {n, n + 1}
    <2>1. Transition(Appended(h[1], c), "stream") \in SoundBuffer
      BY <1>2, <1>4, AppendedSound, TransitionSound
    <2>2. Writes
      BY <1>4, <2>1 DEF AddStream
    <2>3. Turns
      BY <1>4 DEF AddStream, Return, Goes, Waits
    <2>. QED
      BY <1>4, <2>2, <2>3 DEF AddStream
  <1>5. ASSUME c \in Msg /\ AddNumbered(c, 1, h, n, q)
        PROVE  Turns /\ Writes /\ nextSeq' \in {n, n + 1}
    <2>1. Appended(h[1], c) \in SoundBuffer
      BY <1>2, <1>5, AppendedSound
    <2>2. Writes
      BY <1>5, <2>1 DEF AddNumbered
    <2>3. nextSeq' = n + 1
      BY <1>1, <1>5 DEF AddNumbered, NoSeq
    <2>4. Goes(c, "select", q)
      BY <1>5 DEF AddNumbered, Await, Goes, Waits
    <2>. QED
      BY <1>5, <2>2, <2>3, <2>4
  <1>6. ASSUME c \in Marker /\ Mark(c, 1, h, n, q)
        PROVE  Turns /\ Writes /\ nextSeq' \in {n, n + 1}
    <2>. DEFINE s == IF h[1].state \in {"cancelled", "error"} THEN h[1].state ELSE "completed"
                x == [h[1] EXCEPT !.done = TRUE, !.state = s]
    <2>1. x \in SoundBuffer
      BY <1>2 DEF SoundBuffer, Buffer, Terminal, States
    <2>2. bufs' = [h EXCEPT ![1] = x]
      BY <1>1, <1>2, <1>6 DEF Mark
    <2>. HIDE DEF x
    <2>3. Writes
      BY <2>1, <2>2
    <2>4. Goes(c, "status", q)
      BY <1>6 DEF Mark, Await, Goes, Waits
    <2>. QED
      BY <1>6, <2>3, <2>4 DEF Mark
  <1>7. ASSUME c \in Remover /\ Remove(c, 1, h, n, q)
        PROVE  Turns /\ Writes /\ nextSeq' \in {n, n + 1}
    <2>1. WithoutFiles(h[1]) \in SoundBuffer
      BY <1>2, WithoutFilesSound
    <2>2. CASE bufs' = h
      <3>1. bufs' = [h EXCEPT ![1] = h[1]]
        BY <1>1, <2>2
      <3>. QED
        <4>1. Writes
          BY <1>2, <3>1
        <4>2. Turns
          BY <1>7 DEF Remove, Return, Await, Goes, Waits
        <4>. QED
          BY <1>7, <4>1, <4>2 DEF Remove
    <2>3. CASE bufs' = [h EXCEPT ![1] = WithoutFiles(h[1])]
      <3>1. Writes
        BY <2>1, <2>3
      <3>2. Turns
        BY <1>7 DEF Remove, Return, Await, Goes, Waits
      <3>. QED
        BY <1>7, <3>1, <3>2 DEF Remove
    <2>. QED
      BY <1>7, <2>2, <2>3 DEF Remove
  <1>8. ASSUME c \in Reader /\ Answer(c, h, n, q)
        PROVE  Turns /\ Writes /\ nextSeq' \in {n, n + 1}
    <2>1. bufs' = [h EXCEPT ![1] = h[1]]
      BY <1>1, <1>8 DEF Answer
    <2>2. Writes
      BY <1>2, <2>1
    <2>3. Goes(c, "returned", q)
      BY <1>8 DEF Answer, Return, Goes, Waits
    <2>. QED
      BY <1>8, <2>2, <2>3 DEF Answer
  <1>9. Turns /\ Writes /\ nextSeq' \in {n, n + 1}
    BY <1>3, <1>4, <1>5, <1>6, <1>7, <1>8 DEF Proceed
  <1>10. Len(bufs') = 1 /\ bufs' # <<>> /\ bufs' \in Seq(SoundBuffer)
    <2>1. PICK x \in SoundBuffer : bufs' = [h EXCEPT ![1] = x]
      BY <1>9
    <2>2. Len(bufs') = 1 /\ bufs' \in Seq(SoundBuffer)
      BY <1>1, <2>1, HeapUpdate
    <2>. QED
      BY <2>2
  <1>. QED
    BY <1>1, <1>2, <1>9, <1>10

\* The other steps resume the head of the queue, too
LEMMA OtherMoves ==
  ASSUME IInv, NEW c \in Co,
         \/ Select(c) \/ Insert(c) \/ InsertFails(c) \/ WriteStatus(c) \/ DeleteRows(c)
         \/ SoftDelete(c)
  PROVE  /\ Enters(c, Tail(dbq)) /\ pc[c] \in {"select", "insert", "status", "delete", "softdelete"}
         /\ \E w \in {"insert", "status", "returned", "raised"} :
                Goes(c, w, Tail(dbq)) /\ (w = "insert" => pc[c] = "select")
                /\ (w = "status" => pc[c] = "insert")
  <1>. USE DEF Resumes, Enters, Goes, Await, Return, Waits
  <1>1. CASE Select(c)
    BY <1>1 DEF Select
  <1>2. CASE Insert(c)
    BY <1>2 DEF Insert
  <1>3. CASE InsertFails(c)
    BY <1>3 DEF InsertFails
  <1>4. CASE WriteStatus(c)
    BY <1>4 DEF WriteStatus
  <1>5. CASE DeleteRows(c)
    BY <1>5 DEF DeleteRows
  <1>6. CASE SoftDelete(c)
    BY <1>6 DEF SoftDelete
  <1>. QED
    BY <1>1, <1>2, <1>3, <1>4, <1>5, <1>6

LEMMA WarmStep ==
  ASSUME MaxBufs <= 1, IInv, Queued, Warm, [Next]_vars, IInv'
  PROVE  Queued' /\ Warm'
  <1>1. ASSUME NEW c \in Co, NEW q, Enters(c, q), NEW w \in Quietly, Idles(c, w, q)
        PROVE  Queued' /\ Warm'
    <2>1. w \in Waits \cup {"returned", "raised"} /\ Goes(c, w, q)
      BY <1>1 DEF Idles, Quietly, Waits
    <2>2. Queued' /\ pc'[c] = w /\ \A d \in Co \ {c} : pc'[d] = pc[d]
      BY <1>1, <2>1, QueueMove
    <2>3. UNCHANGED mem /\ w \notin {"select", "insert", "status", "delete"}
      BY <1>1 DEF Idles, Quietly
    <2>. QED
      BY <2>2, <2>3 DEF Warm, mem
  <1>2. ASSUME NEW c \in Co, NEW q, Enters(c, q), NEW h, NEW n, Uses(c, h, n, q)
        PROVE  Queued' /\ Warm'
    <2>1. /\ n \in Nat /\ Len(bufs') = 1 /\ bufs' # <<>> /\ nextSeq' \in {n, n + 1}
          /\ \E w \in {"returned", "select", "status", "delete"} : Goes(c, w, q)
      BY <1>2, UsesEffect
    <2>2. Queued'
      BY <1>2, <2>1, QueueMove DEF Waits
    <2>3. nextSeq' # NoSeq
      BY <2>1 DEF NoSeq
    <2>. QED
      BY <2>1, <2>2, <2>3 DEF Warm
  <1>3. ASSUME NEW c \in Co, \/ Select(c) \/ Insert(c) \/ InsertFails(c) \/ WriteStatus(c)
                             \/ DeleteRows(c) \/ SoftDelete(c)
        PROVE  Queued' /\ Warm'
    <2>1. PICK w \in {"insert", "status", "returned", "raised"} :
              Goes(c, w, Tail(dbq)) /\ (w = "insert" => pc[c] = "select")
              /\ (w = "status" => pc[c] = "insert")
      BY <1>3, OtherMoves
    <2>2. Enters(c, Tail(dbq)) /\ pc[c] \in {"select", "insert", "status", "delete", "softdelete"}
      BY <1>3, OtherMoves
    <2>3. Queued' /\ pc'[c] = w /\ \A d \in Co \ {c} : pc'[d] = pc[d]
      BY <2>1, <2>2, QueueMove DEF Waits
    <2>4. CASE Select(c) \/ Insert(c)
      <3>1. pc[c] \in {"select", "insert"}
        BY <2>4 DEF Select, Insert, Resumes
      <3>2. bufs # <<>> /\ bufs \in Seq(Buffer) /\ nextSeq # NoSeq
        BY <3>1 DEF Warm, IInv, TypeOK
      <3>3. Len(bufs') = Len(bufs) /\ bufs' \in Seq(Buffer)
        BY <2>4, <3>2 DEF Select, Insert, IInv, TypeOK
      <3>4. nextSeq' # NoSeq
        <4>1. CASE Insert(c)
          BY <3>2, <4>1 DEF Insert
        <4>2. CASE Select(c)
          <5>1. num'[c] \in Nat /\ num'[c] = WriteSeq(c, DbMax)
            BY <4>2 DEF Select, IInv, TypeOK
          <5>. QED
            BY <4>2, <5>1 DEF Select, NoSeq
        <4>. QED
          BY <2>4, <4>1, <4>2
      <3>. QED
        BY <2>3, <3>2, <3>3, <3>4 DEF Warm
    <2>5. CASE InsertFails(c) \/ WriteStatus(c) \/ DeleteRows(c) \/ SoftDelete(c)
      <3>1. UNCHANGED <<bufs, nextSeq>>
        BY <2>5 DEF InsertFails, WriteStatus, DeleteRows, SoftDelete, mem
      <3>. QED
        BY <2>1, <2>3, <3>1 DEF Warm
    <2>. QED
      BY <1>3, <2>4, <2>5
  <1>4. CASE BeginRun
    <2>1. /\ cur = 1 /\ Len(bufs) = 1 /\ bufs \in Seq(Buffer)
          /\ bufs' = [bufs EXCEPT ![cur].done = FALSE, ![cur].state = "running"]
          /\ UNCHANGED <<nextSeq, pc, dbq>>
      BY <1>4, OneDict DEF BeginRun, IInv, TypeOK
    <2>2. Len(bufs') = Len(bufs) /\ bufs' # <<>> /\ bufs # <<>>
      BY <2>1 DEF IInv, TypeOK
    <2>. QED
      BY <2>1, <2>2 DEF Queued, Warm
  <1>5. CASE Expire
    BY <1>5 DEF Expire, Queued, Warm
  <1>6. CASE Crash
    <2>1. /\ bufs' = <<>> /\ nextSeq' = NoSeq /\ dbq' = <<>>
          /\ pc' = [c \in Co |-> IF pc[c] \in Waits THEN "lost" ELSE pc[c]]
      BY <1>6 DEF Crash
    <2>2. \A c \in Co : pc'[c] \notin Waits
      BY <2>1 DEF Waits
    <2>. QED
      BY <2>1, <2>2 DEF Queued, Warm, Waits
  <1>7. CASE UNCHANGED vars
    BY <1>7 DEF vars, Queued, Warm
  <1>8. /\ \A m \in Msg : m \in Co
        /\ Remover \subseteq Co /\ Deleter \subseteq Co
    BY DEF Co
  <1>. QED
    BY <1>1, <1>2, <1>3, <1>4, <1>5, <1>6, <1>7, <1>8, WarmSteps

LEMMA WarmInit == Init => Queued /\ Warm
  BY DEF Init, Queued, Warm, Waits

-----------------------------------------------------------------------------
(* The status column follows the state in memory. *)

\* When the UPDATEs that wait are done, the column says s
LastWrite(s) ==
    \/ \E i \in DOMAIN dbq :
           /\ pc[dbq[i]] = "status" /\ st[dbq[i]] = s
           /\ \A j \in DOMAIN dbq : j > i => pc[dbq[j]] # "status"
    \/ status = s /\ \A i \in DOMAIN dbq : pc[dbq[i]] # "status"

StatusInv ==
    /\ bufs = <<>> => \A c \in Co : pc[c] = "readseq" => st[c] = DbState
    /\ bufs = <<>> /\ ~deleted /\ DbState \in Terminal => status = DbState
    /\ bufs # <<>> /\ ~deleted /\ bufs[1].state \in Terminal => LastWrite(bufs[1].state)

\* No other call changes what it is about to write
OthersWrite(c) == \A d \in Co \ {c} : st'[d] = st[d]

\* A call that neither wrote the column nor is about to leaves it to the others.
LEMMA KeepsLast ==
  ASSUME IInv, Queued, NEW c \in Co, NEW w \in Waits \cup {"returned", "raised"}, NEW q,
         Enters(c, q), Goes(c, w, q), pc[c] # "status", w # "status",
         OthersWrite(c), UNCHANGED status,
         NEW s, LastWrite(s)
  PROVE  LastWrite(s)'
  <1>1. /\ q \in Seq(Co) /\ pc'[c] = w /\ \A d \in Co \ {c} : pc'[d] = pc[d]
        /\ \A i \in DOMAIN q : q[i] # c
    BY QueueMove
  <1>2. dbq \in Seq(Co)
    BY DEF IInv, TypeOK
  <1>3. PICK k \in {0, 1} : /\ Len(dbq) = Len(q) + k
                            /\ \A i \in 1 .. Len(q) : q[i] = dbq[i + k]
                            /\ k = 1 => dbq[1] = c
    <2>1. CASE q = dbq
      BY <1>2, <2>1
    <2>2. CASE dbq # <<>> /\ c = Head(dbq) /\ q = Tail(dbq)
      BY <1>2, <2>2
    <2>. QED
      BY <2>1, <2>2 DEF Enters
  <1>4. PICK e \in {0, 1} : /\ Len(dbq') = Len(q) + e /\ dbq' \in Seq(Co)
                            /\ \A i \in 1 .. Len(q) : dbq'[i] = q[i]
                            /\ e = 1 => dbq'[Len(q) + 1] = c
    <2>1. CASE dbq' = q
      BY <1>1, <2>1
    <2>2. CASE dbq' = Append(q, c)
      BY <1>1, <2>2
    <2>. QED
      BY <2>1, <2>2 DEF Goes
  <1>5. Len(q) \in Nat /\ DOMAIN dbq = 1 .. Len(q) + k /\ DOMAIN dbq' = 1 .. Len(q) + e
    BY <1>1, <1>2, <1>3, <1>4
  <1>6. \A i \in 1 .. Len(q) : /\ q[i] \in Co \ {c} /\ dbq'[i] = dbq[i + k]
                               /\ pc'[dbq'[i]] = pc[dbq[i + k]]
                               /\ st'[dbq'[i]] = st[dbq[i + k]]
    BY <1>1, <1>3, <1>4, <1>5 DEF OthersWrite
  <1>7. \A j \in DOMAIN dbq' : j \in 1 .. Len(q) \/ (j = Len(q) + 1 /\ dbq'[j] = c)
    BY <1>4, <1>5
  <1>8. \A j \in DOMAIN dbq' : pc'[dbq'[j]] = "status" => j \in 1 .. Len(q)
    BY <1>1, <1>7
  <1>9. ASSUME NEW i \in DOMAIN dbq, pc[dbq[i]] = "status", st[dbq[i]] = s,
               \A j \in DOMAIN dbq : j > i => pc[dbq[j]] # "status"
        PROVE  LastWrite(s)'
    <2>1. i - k \in 1 .. Len(q) /\ (i - k) + k = i
      BY <1>3, <1>5, <1>9
    <2>2. pc'[dbq'[i - k]] = "status" /\ st'[dbq'[i - k]] = s /\ i - k \in DOMAIN dbq'
      BY <1>5, <1>6, <1>9, <2>1
    <2>3. ASSUME NEW j \in DOMAIN dbq', j > i - k, pc'[dbq'[j]] = "status" PROVE FALSE
      <3>1. j \in 1 .. Len(q)
        BY <1>8, <2>3
      <3>2. j + k \in DOMAIN dbq /\ j + k > i /\ pc[dbq[j + k]] = "status"
        BY <1>5, <1>6, <2>1, <2>3, <3>1
      <3>. QED
        BY <1>9, <3>2
    <2>. QED
      BY <2>2, <2>3 DEF LastWrite
  <1>10. ASSUME status = s, \A i \in DOMAIN dbq : pc[dbq[i]] # "status"
         PROVE  LastWrite(s)'
    <2>1. ASSUME NEW j \in DOMAIN dbq', pc'[dbq'[j]] = "status" PROVE FALSE
      <3>1. j \in 1 .. Len(q)
        BY <1>8, <2>1
      <3>2. j + k \in DOMAIN dbq /\ pc[dbq[j + k]] = "status"
        BY <1>5, <1>6, <2>1, <3>1
      <3>. QED
        BY <1>10, <3>2
    <2>. QED
      BY <1>10, <2>1 DEF LastWrite
  <1>. QED
    BY <1>9, <1>10 DEF LastWrite

\* A call that is about to write s will be the last to write.
LEMMA WritesLast ==
  ASSUME IInv, Queued, NEW c \in Co, NEW q, Enters(c, q), Goes(c, "status", q),
         NEW s, st'[c] = s
  PROVE  LastWrite(s)'
  <1>1. "status" \in Waits /\ "status" \in Waits \cup {"returned", "raised"}
    BY DEF Waits
  <1>2. q \in Seq(Co) /\ pc'[c] = "status"
    BY <1>1, QueueMove
  <1>3. dbq' = Append(q, c)
    BY <1>1 DEF Goes
  <1>4. /\ DOMAIN dbq' = 1 .. Len(q) + 1 /\ Len(q) \in Nat
        /\ dbq'[Len(q) + 1] = c
    BY <1>2, <1>3
  <1>5. Len(q) + 1 \in DOMAIN dbq' /\ \A j \in DOMAIN dbq' : ~(j > Len(q) + 1)
    BY <1>4
  <1>. QED
    BY <1>2, <1>4, <1>5 DEF LastWrite

LEMMA WriteIsLast ==
  ASSUME IInv, Queued, NEW c \in Co, WriteStatus(c), ~deleted, NEW s, LastWrite(s)
  PROVE  LastWrite(s)'
  <1>1. /\ c = dbq[1] /\ pc[c] = "status" /\ dbq' = Tail(dbq) /\ dbq # <<>> /\ dbq \in Seq(Co)
        /\ pc' = [pc EXCEPT ![c] = "returned"] /\ status' = st[c] /\ st' = st
    BY DEF WriteStatus, Return, Resumes, local, IInv, TypeOK
  <1>2. /\ Len(dbq) \in Nat \ {0} /\ DOMAIN dbq = 1 .. Len(dbq)
        /\ DOMAIN dbq' = 1 .. Len(dbq) - 1
        /\ \A j \in 1 .. Len(dbq) - 1 : dbq'[j] = dbq[j + 1]
    BY <1>1
  <1>3. \A j \in 1 .. Len(dbq) - 1 : dbq[j + 1] \in Co \ {c}
    <2>1. \A j \in 1 .. Len(dbq) - 1 : j + 1 \in DOMAIN dbq /\ j + 1 # 1 /\ 1 \in DOMAIN dbq
      BY <1>2
    <2>. QED
      BY <1>1, <2>1 DEF Queued
  <1>4. \A j \in 1 .. Len(dbq) - 1 : pc'[dbq'[j]] = pc[dbq[j + 1]] /\ st'[dbq'[j]] = st[dbq[j + 1]]
    BY <1>1, <1>2, <1>3 DEF IInv, TypeOK
  <1>5. ASSUME NEW i \in DOMAIN dbq, pc[dbq[i]] = "status", st[dbq[i]] = s,
               \A j \in DOMAIN dbq : j > i => pc[dbq[j]] # "status"
        PROVE  LastWrite(s)'
    <2>1. CASE i = 1
      <3>1. \A j \in DOMAIN dbq' : pc'[dbq'[j]] # "status"
        BY <1>2, <1>4, <1>5, <2>1
      <3>. QED
        BY <1>1, <1>5, <2>1, <3>1 DEF LastWrite
    <2>2. CASE i # 1
      <3>1. i - 1 \in DOMAIN dbq' /\ (i - 1) + 1 = i /\ i - 1 \in 1 .. Len(dbq) - 1
        BY <1>2, <2>2
      <3>2. pc'[dbq'[i - 1]] = "status" /\ st'[dbq'[i - 1]] = s
        BY <1>4, <1>5, <3>1
      <3>3. \A j \in DOMAIN dbq' : j > i - 1 => j + 1 \in DOMAIN dbq /\ j + 1 > i
        BY <1>2, <3>1
      <3>4. \A j \in DOMAIN dbq' : j > i - 1 => pc'[dbq'[j]] # "status"
        BY <1>2, <1>4, <1>5, <3>3
      <3>. QED
        BY <3>1, <3>2, <3>4 DEF LastWrite
    <2>. QED
      BY <2>1, <2>2
  <1>6. 1 \in DOMAIN dbq
    BY <1>2
  <1>. QED
    BY <1>1, <1>5, <1>6 DEF LastWrite

\* What the rows say does not change as long as no row does.
LEMMA DbStateStays ==
  ASSUME IInv, UNCHANGED row, \A m \in Msg : kind'[m] = kind[m] \/ row[m] = NoRow
  PROVE  DbState' = DbState
  <1>1. \A ks : StoredOf(ks)' = StoredOf(ks)
    BY DEF StoredOf, Stored
  <1>. DEFINE S == StoredOf(StateKinds \cup {"result"})
  <1>2. S' = S
    BY <1>1
  <1>3. CASE S = {}
    BY <1>2, <1>3 DEF DbState
  <1>4. CASE S # {}
    <2>1. S \subseteq Msg /\ \A m \in S : row[m] # NoRow
      BY DEF StoredOf, Stored
    <2>2. Newest(S) \in S
      BY <1>4, <2>1, NewestIn DEF IInv
    <2>3. Newest(S)' = Newest(S)
      <3>1. \A T : (CHOOSE m \in T : \A o \in T : row'[o] <= row'[m])
                    = CHOOSE m \in T : \A o \in T : row[o] <= row[m]
        OBVIOUS
      <3>. QED
        BY <1>2, <3>1 DEF Newest
    <2>4. kind'[Newest(S)] = kind[Newest(S)]
      BY <2>1, <2>2
    <2>. QED
      BY <1>2, <1>4, <2>3, <2>4 DEF DbState
  <1>. QED
    BY <1>3, <1>4

\* A use of the dict sets its state and queues the UPDATE, or leaves both alone
LEMMA UsesState ==
  ASSUME IInv, Queued, Warm, NEW c \in Co, NEW q, Enters(c, q), NEW h, NEW n, Uses(c, h, n, q)
  PROVE  \/ \E w \in {"returned", "select", "delete"} :
                Goes(c, w, q) /\ UNCHANGED st /\ bufs'[1].state = h[1].state
         \/ Goes(c, "status", q) /\ st'[c] = bufs'[1].state
  <1>0. h \in Seq(SoundBuffer) /\ Len(h) = 1 /\ h[1] \in SoundBuffer
    BY UsesEffect
  <1>1. Proceed(c, 1, h, n, q)
    BY DEF Uses
  <1>2. \A x : [h EXCEPT ![1] = x][1] = x
    BY <1>0
  <1>. DEFINE Same == \E w \in {"returned", "select", "delete"} :
                          Goes(c, w, q) /\ UNCHANGED st /\ bufs'[1].state = h[1].state
              Told == Goes(c, "status", q) /\ st'[c] = bufs'[1].state
  <1>3. \A m : Appended(h[1], m).state = h[1].state
    BY <1>0 DEF Appended, SoundBuffer, Buffer
  <1>4. ASSUME c \in Msg, AddStream(c, 1, h, n, q)
        PROVE  Same
    <2>1. bufs'[1] = Transition(Appended(h[1], c), "stream")
      BY <1>2, <1>4 DEF AddStream
    <2>2. Appended(h[1], c) \in SoundBuffer
      BY <1>0, <1>4, AppendedSound
    <2>3. \A s : StateAfter(s, "stream") = s
      BY DEF StateAfter, StateKinds, Terminal
    <2>4. \A b \in SoundBuffer : Transition(b, "stream").state = StateAfter(b.state, "stream")
      BY DEF Transition, SoundBuffer, Buffer
    <2>5. bufs'[1].state = h[1].state
      BY <1>3, <2>1, <2>2, <2>3, <2>4
    <2>6. Goes(c, "returned", q) /\ UNCHANGED st
      BY <1>4 DEF AddStream, Return, Goes, Waits
    <2>. QED
      BY <2>5, <2>6
  <1>5. ASSUME c \in Msg, AddNumbered(c, 1, h, n, q)
        PROVE  Same
    <2>1. bufs'[1] = Appended(h[1], c)
      BY <1>2, <1>5 DEF AddNumbered
    <2>2. Goes(c, "select", q) /\ UNCHANGED st
      BY <1>5 DEF AddNumbered, Await, Goes, Waits
    <2>. QED
      BY <1>3, <2>1, <2>2
  <1>6. ASSUME c \in Marker, Mark(c, 1, h, n, q)
        PROVE  Told
    <2>. DEFINE s == IF h[1].state \in {"cancelled", "error"} THEN h[1].state ELSE "completed"
    <2>1. bufs' = [h EXCEPT ![1] = [h[1] EXCEPT !.done = TRUE, !.state = s]]
      BY <1>0, <1>6 DEF Mark
    <2>2. bufs'[1].state = s
      BY <1>0, <1>2, <2>1 DEF SoundBuffer, Buffer
    <2>3. Goes(c, "status", q) /\ st'[c] = s
      BY <1>6 DEF Mark, Await, Goes, Waits, IInv, TypeOK
    <2>. QED
      BY <2>2, <2>3
  <1>7. ASSUME c \in Remover, Remove(c, 1, h, n, q)
        PROVE  Same
    <2>1. WithoutFiles(h[1]).state = h[1].state
      BY <1>0 DEF WithoutFiles, SoundBuffer, Buffer
    <2>2. bufs'[1].state = h[1].state
      BY <1>2, <1>7, <2>1 DEF Remove
    <2>3. Goes(c, "returned", q) \/ Goes(c, "delete", q)
      BY <1>7 DEF Remove, Return, Await, Goes, Waits
    <2>. QED
      BY <1>7, <2>2, <2>3 DEF Remove
  <1>8. ASSUME c \in Reader, Answer(c, h, n, q)
        PROVE  Same
    <2>1. Goes(c, "returned", q) /\ bufs' = h /\ UNCHANGED st
      BY <1>8 DEF Answer, Return, Goes, Waits
    <2>. QED
      BY <2>1
  <1>. QED
    BY <1>1, <1>4, <1>5, <1>6, <1>7, <1>8 DEF Proceed

LEMMA StatusUses ==
  ASSUME IInv, Queued, Warm, StatusInv,
         NEW c \in Co, NEW q, Enters(c, q), NEW h, NEW n, Uses(c, h, n, q)
  PROVE  StatusInv'
  <1>1. bufs' # <<>> /\ UNCHANGED <<status, deleted>> /\ pc[c] # "status"
    BY UsesEffect DEF Uses, Proceed, db
  <1>. SUFFICES ASSUME ~deleted, bufs'[1].state \in Terminal
                PROVE  LastWrite(bufs[1].state)'
    BY <1>1 DEF StatusInv
  <1>. PICK s : s = bufs'[1].state
    OBVIOUS
  <1>0. SUFFICES LastWrite(s)'
    BY <1>0 DEF LastWrite
  <1>2. CASE Goes(c, "status", q) /\ st'[c] = bufs'[1].state
    BY <1>2, WritesLast
  <1>3. ASSUME NEW w \in {"returned", "select", "delete"},
               Goes(c, w, q), UNCHANGED st, h[1].state = s
        PROVE  LastWrite(s)'
    <2>1. LastWrite(s)
      <3>1. CASE Len(bufs) = 1 /\ h = bufs
        <4>1. bufs # <<>>
          BY <3>1
        <4>2. LastWrite(bufs[1].state)
          BY <1>3, <3>1, <4>1 DEF StatusInv
        <4>. QED
          BY <1>3, <3>1, <4>2
      <3>2. CASE bufs = <<>> /\ pc[c] = "readseq" /\ h = <<NewBuf(st[c])>>
        <4>1. h[1].state = st[c] /\ st[c] = DbState
          BY <3>2 DEF NewBuf, StatusInv
        <4>2. status = s
          BY <1>3, <3>2, <4>1 DEF StatusInv
        <4>3. \A i \in DOMAIN dbq : dbq[i] \in Co
          BY DEF IInv, TypeOK
        <4>4. \A i \in DOMAIN dbq : pc[dbq[i]] # "status"
          BY <3>2, <4>3 DEF Warm
        <4>. QED
          BY <4>2, <4>4 DEF LastWrite
      <3>. QED
        BY <3>1, <3>2 DEF Uses
    <2>2. w \in Waits \cup {"returned", "raised"} /\ w # "status"
      BY DEF Waits
    <2>3. OthersWrite(c)
      BY <1>3 DEF OthersWrite
    <2>. QED
      BY <1>1, <1>3, <2>1, <2>2, <2>3, KeepsLast
  <1>. QED
    BY <1>2, <1>3, UsesState

LEMMA StatusInsert ==
  ASSUME IInv, Queued, Warm, StatusInv, NEW m \in Msg, Insert(m)
  PROVE  StatusInv'
  <1>. DEFINE old == bufs[ref[m]]
              new == Transition(Aligned(old, num[m]), kind[m])
  <1>1. /\ m \in Co /\ Enters(m, Tail(dbq)) /\ pc[m] = "insert"
        /\ UNCHANGED <<status, deleted>> /\ bufs' = [bufs EXCEPT ![ref[m]] = new]
    BY DEF Insert, Resumes, Enters, Waits, Co
  <1>2. bufs # <<>> /\ Len(bufs) \in Nat /\ Len(bufs) <= 1 /\ ref[m] \in 1 .. Len(bufs)
    BY <1>1 DEF Warm, Held, IInv, TypeOK
  <1>3. ref[m] = 1 /\ Len(bufs) = 1
    BY <1>2
  <1>4. bufs'[1] = new /\ bufs' # <<>>
    BY <1>1, <1>2, <1>3 DEF IInv, TypeOK
  <1>. SUFFICES ASSUME ~deleted, bufs'[1].state \in Terminal
                PROVE  LastWrite(bufs[1].state)'
    BY <1>1, <1>4 DEF StatusInv
  <1>. PICK s : s = new.state
    OBVIOUS
  <1>5. SUFFICES LastWrite(s)'
    BY <1>4, <1>5 DEF LastWrite
  <1>6. CASE new.state # old.state
    <2>1. st' = [st EXCEPT ![m] = new.state] /\ Await(m, "status", Tail(dbq))
      BY <1>6 DEF Insert
    <2>2. st'[m] = s
      BY <1>1, <2>1 DEF IInv, TypeOK
    <2>3. Goes(m, "status", Tail(dbq))
      BY <2>1 DEF Await, Goes, Waits
    <2>. QED
      BY <1>1, <2>2, <2>3, WritesLast
  <1>7. CASE new.state = old.state
    <2>1. OthersWrite(m) /\ Return(m, Tail(dbq))
      BY <1>7 DEF Insert, OthersWrite
    <2>2. Goes(m, "returned", Tail(dbq))
      BY <2>1 DEF Return, Goes, Waits
    <2>3. LastWrite(bufs[1].state)
      BY <1>2, <1>3, <1>4, <1>7 DEF StatusInv
    <2>4. LastWrite(s)
      BY <1>3, <1>7, <2>3
    <2>5. "returned" \in Waits \cup {"returned", "raised"} /\ "returned" # "status"
      OBVIOUS
    <2>. QED
      BY <1>1, <2>1, <2>2, <2>4, <2>5, KeepsLast
  <1>. QED
    BY <1>6, <1>7

\* A step that writes neither rows, column nor state
LEMMA StatusQuiet ==
  ASSUME IInv, Queued, Warm, StatusInv, NEW c \in Co, NEW q, Enters(c, q),
         NEW w \in Waits \cup {"returned", "raised"}, Goes(c, w, q),
         pc[c] # "status", w # "status",
         w = "readseq" => st'[c] = DbState, OthersWrite(c),
         UNCHANGED <<bufs, status, deleted>>, bufs = <<>> => DbState' = DbState
  PROVE  StatusInv'
  <1>1. pc'[c] = w /\ \A d \in Co \ {c} : pc'[d] = pc[d]
    BY QueueMove
  <1>2. CASE bufs = <<>>
    <2>1. ASSUME NEW d \in Co, pc'[d] = "readseq" PROVE st'[d] = DbState
      BY <1>1, <1>2, <2>1 DEF StatusInv, OthersWrite
    <2>. QED
      BY <1>2, <2>1 DEF StatusInv
  <1>3. CASE bufs # <<>>
    <2>. SUFFICES ASSUME ~deleted, bufs[1].state \in Terminal
                  PROVE  LastWrite(bufs[1].state)'
      BY <1>3 DEF StatusInv
    <2>. PICK s : s = bufs[1].state
      OBVIOUS
    <2>1. LastWrite(s)
      BY <1>3 DEF StatusInv
    <2>2. LastWrite(s)'
      BY <2>1, KeepsLast
    <2>. QED
      BY <2>2 DEF LastWrite
  <1>. QED
    BY <1>2, <1>3

LEMMA StatusCrash ==
  ASSUME "result" \notin Kinds, IInv, Crash
  PROVE  StatusInv'
  <1>1. /\ bufs' = <<>> /\ UNCHANGED <<row, deleted, kind>>
        /\ status' = IF deleted THEN status ELSE BackfillState
        /\ pc' = [c \in Co |-> IF pc[c] \in Waits THEN "lost" ELSE pc[c]]
    BY DEF Crash
  <1>2. \A c \in Co : pc'[c] # "readseq"
    BY <1>1 DEF Waits
  <1>3. DbState' = DbState
    BY <1>1, DbStateStays
  <1>4. StoredOf(StateKinds \cup {"result"}) = StoredOf(StateKinds)
    BY DEF StoredOf, IInv, TypeOK, NoKind
  <1>5. DbState \in Terminal => BackfillState = DbState
    <2>1. CASE StoredOf(StateKinds) = {}
      BY <1>4, <2>1 DEF DbState, Terminal
    <2>2. CASE StoredOf(StateKinds) # {}
      <3>1. Newest(StoredOf(StateKinds)) \in StoredOf(StateKinds)
        BY <2>2, NewestIn DEF IInv, StoredOf
      <3>2. kind[Newest(StoredOf(StateKinds))] # "result"
        BY <3>1 DEF StoredOf, StateKinds, Terminal
      <3>. QED
        BY <1>4, <2>2, <3>2 DEF DbState, BackfillState
    <2>. QED
      BY <2>1, <2>2
  <1>. QED
    BY <1>1, <1>2, <1>3, <1>5 DEF StatusInv

LEMMA StatusStep ==
  ASSUME MaxBufs <= 1, "result" \notin Kinds,
         IInv, Queued, Warm, StatusInv, [Next]_vars
  PROVE  StatusInv'
  <1>0. Msg \subseteq Co /\ Remover \subseteq Co /\ Deleter \subseteq Co
    BY DEF Co
  <1>1. ASSUME NEW c \in Co, NEW q, Enters(c, q), NEW w \in Quietly, Idles(c, w, q)
        PROVE  StatusInv'
    <2>1. /\ w \in Waits \cup {"returned", "raised"} /\ w # "status" /\ Goes(c, w, q)
          /\ pc[c] # "status" /\ UNCHANGED <<bufs, status, deleted, row>>
      BY <1>1 DEF Idles, Quietly, Waits, mem, db
    <2>2. \A m \in Msg : kind'[m] = kind[m] \/ row[m] = NoRow
      BY <1>1 DEF Idles, IInv, Unwritten, Early
    <2>3. DbState' = DbState
      BY <2>1, <2>2, DbStateStays
    <2>4. OthersWrite(c) /\ (w = "readseq" => st'[c] = DbState)
      BY <1>1 DEF Idles, OthersWrite, IInv, TypeOK
    <2>. QED
      BY <1>1, <2>1, <2>3, <2>4, StatusQuiet
  <1>2. ASSUME NEW c \in Co, NEW q, Enters(c, q), NEW h, NEW n, Uses(c, h, n, q)
        PROVE  StatusInv'
    BY <1>2, StatusUses
  <1>3. ASSUME NEW c \in Co, Select(c) \/ InsertFails(c) \/ DeleteRows(c)
        PROVE  StatusInv'
    <2>1. /\ Enters(c, Tail(dbq))
          /\ \E w \in {"insert", "returned", "raised"} : Goes(c, w, Tail(dbq))
      BY <1>3 DEF Select, InsertFails, DeleteRows, Resumes, Enters, Goes, Await, Return, Waits
    <2>2. /\ pc[c] \in {"select", "insert", "delete"}
          /\ UNCHANGED <<bufs, status, deleted, st>>
      BY <1>3 DEF Select, InsertFails, DeleteRows, Resumes, mem, db, local
    <2>3. bufs # <<>> /\ OthersWrite(c)
      BY <2>2 DEF Warm, OthersWrite
    <2>4. PICK w \in {"insert", "returned", "raised"} : Goes(c, w, Tail(dbq))
      BY <2>1
    <2>5. w \in Waits \cup {"returned", "raised"} /\ w # "status" /\ w # "readseq"
      BY DEF Waits
    <2>. QED
      BY <2>1, <2>2, <2>3, <2>4, <2>5, StatusQuiet
  <1>4. ASSUME NEW c \in Co, WriteStatus(c)
        PROVE  StatusInv'
    <2>1. bufs # <<>> /\ UNCHANGED <<bufs, deleted>>
      BY <1>4 DEF WriteStatus, Resumes, Warm, mem
    <2>. SUFFICES ASSUME ~deleted, bufs[1].state \in Terminal
                  PROVE  LastWrite(bufs[1].state)'
      BY <2>1 DEF StatusInv
    <2>. PICK s : s = bufs[1].state
      OBVIOUS
    <2>2. LastWrite(s)
      BY <2>1 DEF StatusInv
    <2>3. LastWrite(s)'
      BY <1>4, <2>2, WriteIsLast
    <2>. QED
      BY <2>1, <2>3 DEF LastWrite
  <1>5. ASSUME NEW c \in Deleter, SoftDelete(c)
        PROVE  StatusInv'
    <2>1. /\ deleted' /\ UNCHANGED <<bufs, row, kind, st>> /\ c \in Co
          /\ Goes(c, "returned", Tail(dbq))
      BY <1>0, <1>5 DEF SoftDelete, local, Return, Goes, Waits
    <2>2. \A d \in Co : pc'[d] = "readseq" => pc[d] = "readseq"
      BY <2>1 DEF Goes, IInv, TypeOK
    <2>3. DbState' = DbState
      BY <2>1, DbStateStays
    <2>. QED
      BY <2>1, <2>2, <2>3 DEF StatusInv
  <1>6. CASE BeginRun
    <2>1. /\ cur = 1 /\ Len(bufs) = 1 /\ bufs \in Seq(SoundBuffer)
          /\ bufs' = [bufs EXCEPT ![cur].done = FALSE, ![cur].state = "running"]
      BY <1>6, OneDict DEF BeginRun, IInv
    <2>2. bufs' # <<>> /\ bufs'[1].state = "running"
      BY <2>1 DEF SoundBuffer, Buffer
    <2>. QED
      BY <2>2 DEF StatusInv, Terminal
  <1>7. CASE Expire \/ UNCHANGED vars
    <2>1. UNCHANGED <<bufs, row, kind, st, pc, dbq, status, deleted>>
      BY <1>7 DEF Expire, vars, db, local
    <2>2. DbState' = DbState
      BY <2>1, DbStateStays
    <2>. QED
      BY <2>1, <2>2 DEF StatusInv, LastWrite
  <1>8. CASE Crash
    BY <1>8, StatusCrash
  <1>9. ASSUME NEW m \in Msg, Insert(m)
        PROVE  StatusInv'
    BY <1>9, StatusInsert
  <1>. QED
    BY <1>0, <1>1, <1>2, <1>3, <1>4, <1>5, <1>6, <1>7, <1>8, <1>9, WarmSteps

\* A warm session: the facts about its one dict hold in every state.
LEMMA AlwaysWarm ==
  ASSUME MaxBufs <= 1
  PROVE  Spec => [](IInv /\ Queued /\ Warm)
  <1>1. IInv /\ Queued /\ Warm /\ [Next]_vars => (IInv /\ Queued /\ Warm)'
    BY StepIInv, WarmStep
  <1>. QED
    BY <1>1, InitIInv, WarmInit, PTL DEF Spec

\* Between calls, a session that is done in memory has the same state in the
\* sessions table, for any number of calls at once and any kinds of messages
\* but results: as long as only a crash takes the session out of memory.
THEOREM StatusFollows ==
  ASSUME MaxBufs <= 1, "result" \notin Kinds
  PROVE  Spec => []StatusAgrees
  <1>1. Init => StatusInv
    BY DEF Init, StatusInv, DbState, StoredOf, Stored, Terminal
  <1>2. (IInv /\ Queued /\ Warm) /\ StatusInv /\ [Next]_vars => StatusInv'
    BY StatusStep
  <1>3. IInv /\ Queued /\ Warm /\ StatusInv => StatusAgrees
    <2>. SUFFICES ASSUME IInv, Queued, Warm, StatusInv, dbq = <<>>, ~deleted, cur # NoBuf,
                         bufs[cur].done
                  PROVE  status = bufs[cur].state
      BY DEF StatusAgrees
    <2>1. cur = 1 /\ Len(bufs) = 1
      BY OneDict
    <2>2. bufs # <<>> /\ bufs[1] \in SoundBuffer
      BY <2>1 DEF IInv
    <2>3. bufs[1].state \in Terminal
      BY <2>1, <2>2 DEF SoundBuffer
    <2>. QED
      BY <2>1, <2>2, <2>3 DEF StatusInv, LastWrite
  <1>. QED
    BY <1>1, <1>2, <1>3, AlwaysWarm, PTL DEF Spec

-----------------------------------------------------------------------------
(* The numbers of a pair of calls on a warm session: _write_db never has to  *)
(* renumber, as no message is stored between the moment one with a smaller    *)
(* number asks for MAX(seq) and its INSERT.                                   *)

Pending(m) == pc[m] \in {"select", "insert"}
Placed(m)  == Pending(m) \/ Stored(m)
Place(m)   == IF Pending(m) THEN msgSeq[m] ELSE row[m]

NotYet == {"idle", "owner", "readstate", "readseq"}

\* The counter has been set to one past the message that asked before, and
\* so for now to no more than the number of the one that asks next
Ahead(m) ==
    Len(dbq) = 2 /\ dbq[1] = m /\ pc[m] = "select" /\ pc[dbq[2]] = "insert"

\* Who waits for the table has a number, and inserts under that
Numbered ==
    /\ \A c \in Co : pc[c] \in {"select", "insert"} => c \in Msg
    /\ \A m \in Msg : Pending(m) => msgSeq[m] # NoSeq /\ (pc[m] = "insert" => num[m] = msgSeq[m])

Unlogged ==
    \A m \in Msg : pc[m] \in NotYet => msgSeq[m] = NoSeq /\ \A i \in DOMAIN log : log[i] # m

LogOrder ==
    \A i, j \in DOMAIN log : i < j =>
        /\ log[i] # log[j]
        /\ Placed(log[i]) /\ Placed(log[j]) => Place(log[i]) < Place(log[j])

Above == \A m, o \in Msg : Pending(m) /\ Stored(o) => row[o] < msgSeq[m]

\* Of two that wait the first has the smaller number, but for the turn in
\* which the one behind has asked and the one in front has not
InTurn ==
    Len(dbq) = 2 /\ pc[dbq[1]] \in {"select", "insert"} /\ pc[dbq[2]] \in {"select", "insert"} =>
        IF pc[dbq[1]] = "select" /\ pc[dbq[2]] = "insert"
        THEN msgSeq[dbq[2]] < msgSeq[dbq[1]]
        ELSE msgSeq[dbq[1]] < msgSeq[dbq[2]]

Counter ==
    nextSeq # NoSeq =>
        \A m \in Msg : /\ Stored(m) => row[m] < nextSeq
                       /\ Pending(m) /\ ~Ahead(m) => msgSeq[m] < nextSeq

Numbers ==
    /\ Len(dbq) <= 2
    /\ Numbered
    /\ Unlogged
    /\ LogOrder
    /\ Above
    /\ InTurn
    /\ Counter

\* MAX(seq) is the seq of a row, if there is one.
LEMMA MaxSeqIsRow ==
  ASSUME IInv
  PROVE  DbMax = NoRow \/ \E m \in Msg : Stored(m) /\ row[m] = DbMax
  <1>. DEFINE S == {row[m] : m \in Msg} \cup {NoRow}
  <1>1. PICK n \in Nat : \A m \in Msg : row[m] <= n
    BY DEF IInv, RowsBounded
  <1>2. S \subseteq Nat \cup {NoRow} /\ S # {} /\ \A s \in S : s <= n
    BY <1>1 DEF IInv, TypeOK, NoRow
  <1>3. \E g \in S : \A s \in S : s <= g
    BY <1>2, Greatest
  <1>4. DbMax = CHOOSE s \in S : \A t \in S : t <= s
    BY DEF DbMax
  <1>5. DbMax \in S
    BY <1>3, <1>4
  <1>. QED
    BY <1>5 DEF Stored

\* Who starts finds at most one other waiting.
LEMMA StartsSecond ==
  ASSUME MaxCalls <= 2, IInv, Queued, NEW c, Starts(c)
  PROVE  Len(dbq) <= 1
  <1>. DEFINE W == {o \in Co : pc[o] \in Waits}
              L == {dbq[i] : i \in DOMAIN dbq}
  <1>1. dbq \in Seq(Co) /\ Len(dbq) \in Nat /\ DOMAIN dbq = 1 .. Len(dbq)
    BY DEF IInv, TypeOK
  <1>2. IsFiniteSet(DOMAIN dbq)
    BY <1>1, FS_Interval
  <1>3. IsFiniteSet(L)
    <2>. DEFINE f == [i \in DOMAIN dbq |-> dbq[i]]
    <2>1. f \in Surjection(DOMAIN dbq, L)
      BY DEF Surjection
    <2>. QED
      BY <1>2, <2>1, FS_Surjection
  <1>4. W = L
    BY <1>1 DEF Queued
  <1>5. IsFiniteSet(W) /\ Cardinality(W) \in Nat
    BY <1>3, <1>4, FS_CardinalityType
  <1>6. Cardinality(W) <= 1
    BY <1>5, ConstantsAssumption DEF Starts
  <1>7. ASSUME Len(dbq) > 1 PROVE FALSE
    <2>1. 1 \in DOMAIN dbq /\ 2 \in DOMAIN dbq
      BY <1>1, <1>7
    <2>2. dbq[1] \in W /\ dbq[2] \in W /\ dbq[1] # dbq[2]
      BY <1>4, <2>1 DEF Queued
    <2>3. {dbq[1], dbq[2]} \subseteq W
      BY <2>2
    <2>4. Cardinality({dbq[1], dbq[2]}) = 2
      <3>1. IsFiniteSet({dbq[1]}) /\ Cardinality({dbq[1]}) = 1
        BY FS_Singleton
      <3>2. Cardinality({dbq[1]} \cup {dbq[2]}) = Cardinality({dbq[1]}) + 1
        BY <2>2, <3>1, FS_AddElement
      <3>3. {dbq[1]} \cup {dbq[2]} = {dbq[1], dbq[2]}
        OBVIOUS
      <3>. QED
        BY <3>1, <3>2, <3>3
    <2>5. Cardinality({dbq[1], dbq[2]}) <= Cardinality(W)
      BY <1>5, <2>3, FS_Subset
    <2>. QED
      BY <1>5, <1>6, <2>4, <2>5
  <1>. QED
    BY <1>1, <1>7

\* The queue as it is before and after a step of c: one other at most.
LEMMA Pair ==
  ASSUME MaxCalls <= 2, IInv, Queued, Len(dbq) <= 2, NEW c \in Co, NEW q, Enters(c, q),
         NEW w \in Waits \cup {"returned", "raised"}, Goes(c, w, q)
  PROVE  /\ pc'[c] = w /\ \A d \in Co \ {c} : pc'[d] = pc[d]
         /\ Len(dbq') <= 2
         /\ Len(dbq) = 2 => pc[c] \in Waits /\ dbq[1] = c
         /\ Len(dbq') = 2 => w \in Waits /\ dbq'[2] = c /\ dbq'[1] \in Co \ {c}
         /\ \A d \in Co \ {c} : pc[d] \in Waits /\ pc[c] \in Waits =>
                Len(dbq) = 2 /\ dbq[1] = c /\ dbq[2] = d
         /\ \A d \in Co \ {c} : pc[d] \in Waits /\ w \in Waits =>
                Len(dbq') = 2 /\ dbq'[2] = c /\ dbq'[1] = d
  <1>1. /\ q \in Seq(Co) /\ pc'[c] = w /\ \A d \in Co \ {c} : pc'[d] = pc[d]
        /\ \A i \in DOMAIN q : q[i] # c
    BY QueueMove
  <1>2. dbq \in Seq(Co)
    BY DEF IInv, TypeOK
  <1>3. Len(q) \in Nat /\ Len(q) <= 1
    <2>1. CASE Starts(c) /\ q = dbq
      BY <1>1, <2>1, StartsSecond
    <2>2. CASE pc[c] \in Waits /\ dbq # <<>> /\ c = Head(dbq) /\ q = Tail(dbq)
      BY <1>2, <2>2
    <2>. QED
      BY <2>1, <2>2 DEF Enters
  <1>4. Len(dbq) \in Nat /\ DOMAIN dbq = 1 .. Len(dbq) /\ "idle" \notin Waits
    BY <1>2 DEF Waits
  <1>5. /\ Len(dbq) = 2 => pc[c] \in Waits /\ dbq[1] = c
        /\ pc[c] \in Waits => dbq # <<>> /\ dbq[1] = c
    <2>1. CASE Starts(c) /\ q = dbq
      BY <1>3, <1>4, <2>1 DEF Starts
    <2>2. CASE pc[c] \in Waits /\ dbq # <<>> /\ c = Head(dbq) /\ q = Tail(dbq)
      BY <1>2, <2>2
    <2>. QED
      BY <2>1, <2>2 DEF Enters
  <1>6. ASSUME NEW d \in Co \ {c}, pc[d] \in Waits, pc[c] \in Waits
        PROVE  Len(dbq) = 2 /\ dbq[1] = c /\ dbq[2] = d
    <2>1. PICK i \in DOMAIN dbq : dbq[i] = d
      BY <1>6 DEF Queued
    <2>2. i # 1 /\ i \in 1 .. Len(dbq)
      BY <1>4, <1>5, <1>6, <2>1
    <2>3. i = 2 /\ Len(dbq) = 2
      BY <1>4, <2>2
    <2>. QED
      BY <1>5, <1>6, <2>1, <2>3
  <1>7. CASE w \in Waits
    <2>1. dbq' = Append(q, c)
      BY <1>7 DEF Goes
    <2>2. /\ Len(dbq') = Len(q) + 1 /\ dbq'[Len(q) + 1] = c
          /\ \A i \in 1 .. Len(q) : dbq'[i] = q[i] /\ q[i] \in Co \ {c}
          /\ DOMAIN dbq' = 1 .. Len(q) + 1
      BY <1>1, <2>1
    <2>3. Len(dbq') <= 2
      BY <1>3, <2>2
    <2>4. ASSUME Len(dbq') = 2 PROVE dbq'[2] = c /\ dbq'[1] \in Co \ {c}
      <3>0. Len(dbq') = Len(q) + 1
        BY <2>2
      <3>1. Len(q) = 1
        <4>1. \A n \in Nat : n + 1 = 2 => n = 1
          OBVIOUS
        <4>. QED
          BY <1>3, <2>4, <3>0, <4>1
      <3>2. 1 \in 1 .. Len(q) /\ Len(q) + 1 = 2
        BY <3>1
      <3>3. dbq'[1] = q[1] /\ q[1] \in Co \ {c} /\ dbq'[2] = c
        BY <2>2, <3>1, <3>2
      <3>. QED
        BY <3>3
    <2>5. Queued'
      BY QueueMove
    <2>6. ASSUME NEW d \in Co \ {c}, pc[d] \in Waits
          PROVE  Len(dbq') = 2 /\ dbq'[2] = c /\ dbq'[1] = d
      <3>1. pc'[d] \in Waits
        BY <1>1, <2>6
      <3>2. PICK i \in DOMAIN dbq' : dbq'[i] = d
        BY <2>5, <3>1 DEF Queued
      <3>3. i # Len(q) + 1 /\ i \in 1 .. Len(q) + 1
        BY <2>2, <2>6, <3>2
      <3>4. i \in Int /\ i >= 1 /\ i <= Len(q)
        BY <1>3, <3>3
      <3>5. i = 1 /\ Len(q) = 1
        <4>1. \A k \in Int, l \in Nat : k >= 1 /\ k <= l /\ l <= 1 => k = 1 /\ l = 1
          OBVIOUS
        <4>. QED
          BY <1>3, <3>4, <4>1
      <3>. QED
        BY <2>2, <3>2, <3>5
    <2>. QED
      BY <1>1, <1>5, <1>6, <1>7, <2>3, <2>4, <2>6
  <1>8. CASE w \notin Waits
    <2>1. Len(dbq') <= 2 /\ Len(dbq') # 2
      BY <1>3, <1>8 DEF Goes
    <2>. QED
      BY <1>1, <1>5, <1>6, <1>8, <2>1
  <1>. QED
    BY <1>7, <1>8

\* A call that is about no number: c neither waits for the table nor comes to
LEMMA PlainNumbers ==
  ASSUME MaxCalls <= 2, IInv, Queued, Warm, Numbers, NEW c \in Co, NEW q, Enters(c, q),
         NEW w \in Waits \cup {"returned", "raised"}, Goes(c, w, q),
         pc[c] \notin {"select", "insert"}, w \notin {"select", "insert"},
         c \in Msg /\ w \in NotYet => pc[c] \in NotYet,
         UNCHANGED <<msgSeq, num, log>>, \A m \in Msg : row'[m] \in {row[m], NoRow},
         nextSeq' = nextSeq \/ (bufs = <<>> /\ nextSeq' = DbMax + 1)
  PROVE  Numbers'
  <1>0. \A m \in Msg : m \in Co
    BY DEF Co
  <1>1. /\ pc'[c] = w /\ \A d \in Co \ {c} : pc'[d] = pc[d]
        /\ Len(dbq') <= 2
        /\ Len(dbq) = 2 => dbq[1] = c
        /\ Len(dbq') = 2 => dbq'[2] = c
    BY Pair DEF Numbers
  <1>2. \A d \in Co : pc'[d] \in {"select", "insert"} <=> pc[d] \in {"select", "insert"}
    BY <1>1
  <1>3. \A m \in Msg : /\ Pending(m)' <=> Pending(m)
                       /\ Stored(m)' => Stored(m) /\ row'[m] = row[m]
                       /\ Placed(m)' => Placed(m) /\ Place(m)' = Place(m)
    BY <1>0, <1>2 DEF Pending, Stored, Placed, Place
  <1>4. Numbered'
    BY <1>0, <1>1, <1>2, <1>3 DEF Numbers, Numbered
  <1>5. Unlogged'
    BY <1>0, <1>1 DEF Numbers, Unlogged
  <1>6. LogOrder'
    <2>1. \A i \in DOMAIN log : log[i] \in Msg
      BY DEF IInv, TypeOK
    <2>. QED
      BY <1>3, <2>1 DEF Numbers, LogOrder
  <1>7. Above'
    BY <1>3 DEF Numbers, Above
  <1>8. InTurn'
    BY <1>1 DEF InTurn
  <1>9. Counter'
    <2>1. \A m \in Msg : ~Ahead(m)
      BY <1>1 DEF Ahead
    <2>2. CASE nextSeq' = nextSeq
      BY <1>3, <2>1, <2>2 DEF Numbers, Counter
    <2>3. CASE bufs = <<>> /\ nextSeq' = DbMax + 1
      <3>1. \A m \in Msg : ~Pending(m) /\ row[m] < DbMax + 1
        <4>1. DbMax \in Nat \cup {NoRow} /\ \A m \in Msg : row[m] <= DbMax /\ row[m] \in Nat \cup {NoRow}
          BY MaxSeq DEF IInv, TypeOK
        <4>2. \A m \in Msg : ~Pending(m)
          BY <1>0, <2>3 DEF Warm, Pending
        <4>. QED
          BY <4>1, <4>2 DEF NoRow
      <3>. QED
        BY <1>3, <2>3, <3>1 DEF Counter
    <2>. QED
      BY <2>2, <2>3
  <1>. QED
    BY <1>1, <1>4, <1>5, <1>6, <1>7, <1>8, <1>9 DEF Numbers

\* add_message takes a number behind all that are taken
LEMMA NumberTaken ==
  ASSUME MaxCalls <= 2, IInv, Queued, Warm, Numbers, NEW c \in Msg, NEW q, Enters(c, q),
         NEW h, NEW n \in Nat, Uses(c, h, n, q), AddNumbered(c, 1, h, n, q)
  PROVE  Numbers'
  <1>0. (\A m \in Msg : m \in Co) /\ c \in Co /\ "select" \in Waits \cup {"returned", "raised"}
    BY DEF Co, Waits
  <1>1. Goes(c, "select", q)
    BY DEF AddNumbered, Await, Goes, Waits
  <1>2. /\ pc'[c] = "select" /\ \A d \in Co \ {c} : pc'[d] = pc[d]
        /\ Len(dbq') <= 2
        /\ Len(dbq) = 2 => dbq[1] = c
        /\ Len(dbq') = 2 => dbq'[2] = c /\ dbq'[1] \in Co \ {c}
    BY <1>0, <1>1, Pair DEF Numbers
  <1>3. /\ msgSeq' = [msgSeq EXCEPT ![c] = n] /\ nextSeq' = n + 1 /\ log' = Append(log, c)
        /\ UNCHANGED <<row, num>> /\ pc[c] \in NotYet
    <2>1. n # NoSeq
      BY DEF NoSeq
    <2>2. msgSeq' = [msgSeq EXCEPT ![c] = n] /\ nextSeq' = n + 1 /\ log' = Append(log, c)
      BY <2>1 DEF AddNumbered
    <2>. QED
      BY <2>2 DEF Uses, Proceed, db, NotYet
  <1>4. /\ \A m \in Msg : msgSeq'[m] = IF m = c THEN n ELSE msgSeq[m]
        /\ \A i \in DOMAIN log : log[i] \in Msg \ {c}
        /\ log \in Seq(Msg)
    BY <1>3 DEF IInv, TypeOK, Numbers, Unlogged
  <1>5. \A m \in Msg : (Stored(m) => row[m] < n) /\ (Pending(m) => msgSeq[m] < n)
    <2>1. \A m \in Msg : ~Ahead(m)
      BY <1>2, <1>3 DEF Ahead, NotYet
    <2>2. CASE Len(bufs) = 1 /\ n = nextSeq
      BY <2>1, <2>2 DEF Numbers, Counter, NoSeq
    <2>3. CASE bufs = <<>> /\ n = DbMax + 1
      <3>1. DbMax \in Nat \cup {NoRow} /\ \A m \in Msg : row[m] <= DbMax /\ row[m] \in Nat \cup {NoRow}
        BY MaxSeq DEF IInv, TypeOK
      <3>2. \A m \in Msg : ~Pending(m)
        BY <1>0, <2>3 DEF Warm, Pending
      <3>. QED
        BY <2>3, <3>1, <3>2 DEF NoRow
    <2>. QED
      BY <2>2, <2>3 DEF Uses
  <1>6. /\ \A m \in Msg \ {c} : (Pending(m)' <=> Pending(m)) /\ Place(m)' = Place(m)
        /\ \A m \in Msg : (Stored(m)' <=> Stored(m)) /\ row'[m] = row[m]
        /\ Pending(c)' /\ ~Pending(c) /\ ~Stored(c) /\ Place(c)' = n
    <2>1. ~Stored(c) /\ ~Pending(c)
      BY <1>3 DEF Stored, IInv, Unwritten, Early, NotYet, Pending
    <2>. QED
      BY <1>0, <1>2, <1>3, <1>4, <2>1 DEF Pending, Place, Stored
  <1>7. \A m \in Msg \ {c} : (Placed(m)' => Placed(m)) /\ (Placed(m) => Place(m) < n)
    BY <1>5, <1>6 DEF Placed, Place
  <1>8. Numbered'
    BY <1>0, <1>2, <1>3, <1>4, <1>6 DEF Numbers, Numbered, NoSeq
  <1>9. Unlogged'
    <2>. SUFFICES ASSUME NEW m \in Msg, pc'[m] \in NotYet
                  PROVE  msgSeq'[m] = NoSeq /\ \A i \in DOMAIN log' : log'[i] # m
      BY DEF Unlogged
    <2>1. m # c /\ pc[m] \in NotYet
      BY <1>0, <1>2 DEF NotYet
    <2>2. msgSeq'[m] = NoSeq /\ \A i \in DOMAIN log : log[i] # m
      BY <1>4, <2>1 DEF Numbers, Unlogged
    <2>. QED
      BY <1>3, <1>4, <2>1, <2>2
  <1>10. LogOrder'
    <2>. SUFFICES ASSUME NEW i \in DOMAIN log', NEW j \in DOMAIN log', i < j
                  PROVE  /\ log'[i] # log'[j]
                         /\ Placed(log[i])' /\ Placed(log[j])' => Place(log[i])' < Place(log[j])'
      BY DEF LogOrder
    <2>1. /\ DOMAIN log = 1 .. Len(log) /\ DOMAIN log' = 1 .. Len(log) + 1 /\ Len(log) \in Nat
          /\ \A k \in DOMAIN log : log'[k] = log[k]
          /\ log'[Len(log) + 1] = c
      BY <1>3, <1>4
    <2>2. i \in DOMAIN log /\ log'[i] = log[i] /\ log[i] \in Msg \ {c}
      BY <1>4, <2>1
    <2>. PICK a \in Msg \ {c} : a = log[i]
      BY <2>2
    <2>3. CASE j \in DOMAIN log
      <3>. PICK b \in Msg \ {c} : b = log[j]
        BY <1>4, <2>3
      <3>1. log'[j] = b /\ log'[i] = a
        BY <2>1, <2>2, <2>3
      <3>2. a # b /\ (Placed(a) /\ Placed(b) => Place(a) < Place(b))
        BY <2>2, <2>3 DEF Numbers, LogOrder
      <3>3. Placed(a)' /\ Placed(b)' => Place(a)' < Place(b)'
        BY <1>6, <1>7, <3>2
      <3>. QED
        BY <3>1, <3>2, <3>3 DEF Placed, Place, Pending, Stored
    <2>4. CASE j = Len(log) + 1
      <3>1. log'[j] = c /\ log'[i] = a
        BY <2>1, <2>2, <2>4
      <3>2. Placed(a)' => Place(a)' < Place(c)'
        BY <1>6, <1>7
      <3>. QED
        BY <3>1, <3>2 DEF Placed, Place, Pending, Stored
    <2>. QED
      BY <2>1, <2>3, <2>4
  <1>11. Above'
    <2>. SUFFICES ASSUME NEW m \in Msg, NEW o \in Msg, Pending(m)', Stored(o)'
                  PROVE  row'[o] < msgSeq'[m]
      BY DEF Above
    <2>. QED
      BY <1>4, <1>5, <1>6 DEF Numbers, Above
  <1>12. InTurn'
    <2>. SUFFICES ASSUME Len(dbq') = 2, pc'[dbq'[1]] \in {"select", "insert"}
                  PROVE  msgSeq'[dbq'[1]] < msgSeq'[dbq'[2]]
      BY <1>2 DEF InTurn
    <2>1. pc[dbq'[1]] \in {"select", "insert"}
      BY <1>2
    <2>2. dbq'[1] \in Msg \ {c} /\ Pending(dbq'[1])
      BY <1>2, <2>1 DEF Numbers, Numbered, Pending
    <2>. QED
      BY <1>2, <1>4, <1>5, <2>2
  <1>13. Counter'
    <2>. SUFFICES ASSUME NEW m \in Msg
                  PROVE  (Stored(m)' => row'[m] < n + 1) /\ (Pending(m)' => msgSeq'[m] < n + 1)
      BY <1>3 DEF Counter
    <2>1. row[m] \in Nat \cup {NoRow} /\ msgSeq[m] \in Nat \cup {NoSeq}
      BY DEF IInv, TypeOK
    <2>. QED
      BY <1>4, <1>5, <1>6, <2>1 DEF NoRow, NoSeq
  <1>. QED
    BY <1>2, <1>8, <1>9, <1>10, <1>11, <1>12, <1>13 DEF Numbers

\* What the table's maximum is below: everybody who waits for the table
LEMMA BelowPending ==
  ASSUME IInv, Numbers, NEW m \in Msg, Pending(m)
  PROVE  DbMax \in Nat \cup {NoRow} /\ msgSeq[m] \in Nat /\ DbMax < msgSeq[m]
  <1>1. DbMax \in Nat \cup {NoRow}
    BY MaxSeq DEF IInv
  <1>2. msgSeq[m] \in Nat
    BY DEF Numbers, Numbered, IInv, TypeOK
  <1>3. CASE DbMax = NoRow
    BY <1>2, <1>3 DEF NoRow
  <1>4. ASSUME NEW o \in Msg, Stored(o), row[o] = DbMax
        PROVE  DbMax < msgSeq[m]
    BY <1>4 DEF Numbers, Above
  <1>5. DbMax < msgSeq[m]
    BY <1>3, <1>4, MaxSeqIsRow
  <1>. QED
    BY <1>1, <1>2, <1>5

\* So the number is kept
LEMMA NumberKept ==
  ASSUME IInv, Numbers, NEW m \in Msg, Select(m)
  PROVE  /\ num' = [num EXCEPT ![m] = msgSeq[m]] /\ nextSeq' = msgSeq[m] + 1
         /\ Pending(m) /\ msgSeq[m] \in Nat
  <1>1. Pending(m)
    BY DEF Select, Resumes, Pending
  <1>2. WriteSeq(m, DbMax) = msgSeq[m]
    BY <1>1, BelowPending DEF WriteSeq
  <1>. QED
    BY <1>1, <1>2, BelowPending DEF Select

LEMMA SelectNumbers ==
  ASSUME MaxCalls <= 2, IInv, Queued, Warm, Numbers, NEW m \in Msg, Select(m)
  PROVE  Numbers'
  <1>0. /\ \A o \in Msg : o \in Co
        /\ "insert" \in Waits \cup {"returned", "raised"}
        /\ "select" \in Waits /\ "insert" \in Waits
    BY DEF Co, Waits
  <1>1. /\ Enters(m, Tail(dbq)) /\ Goes(m, "insert", Tail(dbq)) /\ pc[m] = "select"
        /\ UNCHANGED <<msgSeq, row, log>>
    BY <1>0 DEF Select, Resumes, Enters, Await, Goes, db
  <1>2. /\ num' = [num EXCEPT ![m] = msgSeq[m]] /\ nextSeq' = msgSeq[m] + 1
        /\ msgSeq[m] \in Nat
    BY NumberKept
  <1>3. /\ pc'[m] = "insert" /\ \A d \in Co \ {m} : pc'[d] = pc[d]
        /\ Len(dbq') <= 2
        /\ Len(dbq) = 2 => dbq[1] = m
        /\ Len(dbq') = 2 => dbq'[2] = m /\ dbq'[1] \in Co \ {m}
        /\ \A d \in Co \ {m} : pc[d] \in Waits =>
               Len(dbq) = 2 /\ dbq[1] = m /\ dbq[2] = d /\ Len(dbq') = 2 /\ dbq'[1] = d
    BY <1>0, <1>1, Pair DEF Numbers
  <1>4. /\ \A o \in Msg : (Pending(o)' <=> Pending(o)) /\ (Stored(o)' <=> Stored(o))
        /\ \A o \in Msg : (Placed(o)' <=> Placed(o)) /\ Place(o)' = Place(o)
    BY <1>0, <1>1, <1>3 DEF Pending, Stored, Placed, Place
  \* the one behind m
  <1>5. \A o \in Msg \ {m} : Pending(o) =>
            /\ pc[o] = "select" => msgSeq[m] < msgSeq[o] /\ Ahead(o)'
            /\ pc[o] = "insert" => msgSeq[o] < msgSeq[m]
    <2>. SUFFICES ASSUME NEW o \in Msg \ {m}, Pending(o)
                  PROVE  /\ pc[o] = "select" => msgSeq[m] < msgSeq[o] /\ Ahead(o)'
                         /\ pc[o] = "insert" => msgSeq[o] < msgSeq[m]
      OBVIOUS
    <2>1. /\ Len(dbq) = 2 /\ dbq[1] = m /\ dbq[2] = o /\ Len(dbq') = 2 /\ dbq'[1] = o
          /\ dbq'[2] = m /\ pc'[o] = pc[o]
      BY <1>0, <1>3 DEF Pending
    <2>2. IF pc[o] = "insert" THEN msgSeq[o] < msgSeq[m] ELSE msgSeq[m] < msgSeq[o]
      BY <1>1, <2>1 DEF Numbers, InTurn, Pending
    <2>3. pc[o] = "select" => Ahead(o)'
      BY <1>3, <2>1 DEF Ahead
    <2>. QED
      BY <2>2, <2>3
  <1>6. Numbered'
    BY <1>0, <1>1, <1>2, <1>3, <1>4 DEF Numbers, Numbered, Pending, IInv, TypeOK
  <1>7. Unlogged'
    BY <1>0, <1>1, <1>3 DEF Numbers, Unlogged, NotYet
  <1>8. LogOrder'
    <2>1. \A i \in DOMAIN log : log[i] \in Msg
      BY DEF IInv, TypeOK
    <2>. QED
      BY <1>1, <1>4, <2>1 DEF Numbers, LogOrder
  <1>9. Above'
    BY <1>1, <1>4 DEF Numbers, Above
  <1>10. InTurn'
    <2>. SUFFICES ASSUME Len(dbq') = 2, pc'[dbq'[1]] \in {"select", "insert"}
                  PROVE  IF pc'[dbq'[1]] = "select" THEN msgSeq[m] < msgSeq[dbq'[1]]
                         ELSE msgSeq[dbq'[1]] < msgSeq[m]
      BY <1>1, <1>3 DEF InTurn
    <2>1. pc'[dbq'[1]] = pc[dbq'[1]] /\ dbq'[1] \in Msg \ {m} /\ Pending(dbq'[1])
      BY <1>3 DEF Numbers, Numbered, Pending
    <2>. QED
      BY <1>5, <2>1 DEF Pending
  <1>11. Counter'
    <2>. SUFFICES ASSUME NEW o \in Msg
                  PROVE  /\ Stored(o)' => row'[o] < msgSeq[m] + 1
                         /\ Pending(o)' /\ ~Ahead(o)' => msgSeq'[o] < msgSeq[m] + 1
      BY <1>2 DEF Counter
    <2>1. row[o] \in Nat \cup {NoRow} /\ msgSeq[o] \in Nat \cup {NoSeq}
      BY DEF IInv, TypeOK
    <2>2. Stored(o)' => row'[o] < msgSeq[m] + 1
      <3>1. Stored(o) => row[o] < msgSeq[m]
        BY NumberKept DEF Numbers, Above
      <3>. QED
        BY <1>1, <1>2, <1>4, <2>1, <3>1 DEF NoRow
    <2>3. Pending(o)' /\ ~Ahead(o)' => msgSeq'[o] < msgSeq[m] + 1
      <3>1. Pending(o) /\ ~Ahead(o)' => o = m \/ msgSeq[o] < msgSeq[m]
        BY <1>5 DEF Pending
      <3>. QED
        BY <1>1, <1>2, <1>4, <2>1, <3>1 DEF NoSeq
    <2>. QED
      BY <2>2, <2>3
  <1>. QED
    BY <1>3, <1>6, <1>7, <1>8, <1>9, <1>10, <1>11 DEF Numbers

LEMMA InsertNumbers ==
  ASSUME MaxCalls <= 2, IInv, Queued, Warm, Numbers, NEW m \in Msg, Insert(m)
  PROVE  Numbers'
  <1>0. /\ \A o \in Msg : o \in Co
        /\ {"status", "returned"} \subseteq Waits \cup {"returned", "raised"}
        /\ {"select", "insert"} \subseteq Waits
    BY DEF Co, Waits
  <1>1. /\ Enters(m, Tail(dbq)) /\ pc[m] = "insert"
        /\ row' = [row EXCEPT ![m] = num[m]] /\ msgSeq' = [msgSeq EXCEPT ![m] = num[m]]
        /\ UNCHANGED <<nextSeq, num, log>>
    BY <1>0 DEF Insert, Resumes, Enters
  <1>. PICK w \in {"status", "returned"} : Goes(m, w, Tail(dbq))
    BY DEF Insert, Await, Return, Goes, Waits
  <1>2. /\ pc'[m] = w /\ \A d \in Co \ {m} : pc'[d] = pc[d]
        /\ Len(dbq') <= 2
        /\ Len(dbq) = 2 => dbq[1] = m
        /\ Len(dbq') = 2 => dbq'[2] = m
        /\ \A d \in Co \ {m} : pc[d] \in Waits =>
               Len(dbq) = 2 /\ dbq[1] = m /\ dbq[2] = d
    BY <1>0, <1>1, Pair DEF Numbers
  <1>3. Pending(m) /\ num[m] = msgSeq[m] /\ msgSeq[m] \in Nat
    BY <1>1 DEF Numbers, Numbered, Pending, IInv, TypeOK
  <1>4. /\ msgSeq' = msgSeq
        /\ \A o \in Msg : row'[o] = IF o = m THEN msgSeq[m] ELSE row[o]
    BY <1>1, <1>3 DEF IInv, TypeOK
  <1>5. /\ \A o \in Msg : Pending(o)' <=> Pending(o) /\ o # m
        /\ \A o \in Msg : Stored(o)' <=> Stored(o) \/ o = m
        /\ \A o \in Msg : (Placed(o)' <=> Placed(o)) /\ Place(o)' = Place(o)
    BY <1>0, <1>2, <1>3, <1>4 DEF Pending, Stored, Placed, Place, NoRow
  <1>6. Numbered'
    BY <1>0, <1>1, <1>2, <1>4, <1>5 DEF Numbers, Numbered, Pending
  <1>7. Unlogged'
    BY <1>0, <1>1, <1>2, <1>4 DEF Numbers, Unlogged, NotYet
  <1>8. LogOrder'
    <2>1. \A i \in DOMAIN log : log[i] \in Msg
      BY DEF IInv, TypeOK
    <2>. QED
      BY <1>1, <1>5, <2>1 DEF Numbers, LogOrder
  <1>9. Above'
    <2>. SUFFICES ASSUME NEW p \in Msg, NEW o \in Msg, Pending(p)', Stored(o)'
                  PROVE  row'[o] < msgSeq'[p]
      BY DEF Above
    <2>1. Pending(p) /\ p # m
      BY <1>5
    <2>2. CASE o # m
      BY <1>4, <1>5, <2>1, <2>2 DEF Numbers, Above
    <2>3. CASE o = m
      <3>1. Len(dbq) = 2 /\ dbq[1] = m /\ dbq[2] = p
        BY <1>0, <1>2, <2>1 DEF Pending
      <3>2. msgSeq[m] < msgSeq[p]
        BY <1>1, <2>1, <3>1 DEF Numbers, InTurn, Pending
      <3>. QED
        BY <1>4, <2>3, <3>2
    <2>. QED
      BY <2>2, <2>3
  <1>10. InTurn'
    BY <1>2 DEF InTurn
  <1>11. Counter'
    <2>1. \A o \in Msg : ~Ahead(o)
      BY <1>1, <1>2 DEF Ahead
    <2>2. nextSeq # NoSeq => \A o \in Msg : /\ Stored(o) => row[o] < nextSeq
                                            /\ Pending(o) => msgSeq[o] < nextSeq
      BY <2>1 DEF Numbers, Counter
    <2>. QED
      BY <1>1, <1>3, <1>4, <1>5, <2>2 DEF Counter
  <1>. QED
    BY <1>2, <1>6, <1>7, <1>8, <1>9, <1>10, <1>11 DEF Numbers

LEMMA NeverFails ==
  ASSUME IInv, Numbers, NEW m \in Msg
  PROVE  ~InsertFails(m)
  <1>. SUFFICES ASSUME InsertFails(m) PROVE FALSE
    OBVIOUS
  <1>1. Pending(m) /\ num[m] = msgSeq[m] /\ msgSeq[m] \in Nat
    BY DEF InsertFails, Resumes, Pending, Numbers, Numbered, IInv, TypeOK
  <1>2. PICK o \in Msg : row[o] = msgSeq[m]
    BY <1>1 DEF InsertFails, Taken
  <1>3. Stored(o) /\ row[o] < msgSeq[m]
    BY <1>1, <1>2 DEF Stored, NoRow, Numbers, Above
  <1>. QED
    BY <1>1, <1>2, <1>3

LEMMA CrashNumbers ==
  ASSUME IInv, Numbers, Crash
  PROVE  Numbers'
  <1>1. /\ nextSeq' = NoSeq /\ dbq' = <<>> /\ msgSeq' = [m \in Msg |-> NoSeq]
        /\ pc' = [c \in Co |-> IF pc[c] \in Waits THEN "lost" ELSE pc[c]]
        /\ UNCHANGED <<row, num, log>>
    BY DEF Crash, hist
  <1>2. \A m \in Msg : m \in Co
    BY DEF Co
  <1>3. /\ \A c \in Co : pc'[c] \notin {"select", "insert"}
        /\ \A c \in Co : pc'[c] \in NotYet => pc[c] \in NotYet
    BY <1>1 DEF Waits, NotYet
  <1>4. \A m \in Msg : ~Pending(m)' /\ (Stored(m)' => Placed(m) /\ Place(m)' = Place(m))
    <2>1. \A m \in Msg : Stored(m) => ~Pending(m)
      BY DEF IInv, Unwritten, Stored, Pending, Early
    <2>. QED
      BY <1>1, <1>2, <1>3, <2>1 DEF Pending, Stored, Placed, Place
  <1>5. LogOrder'
    <2>1. \A i \in DOMAIN log : log[i] \in Msg
      BY DEF IInv, TypeOK
    <2>2. \A m \in Msg : Placed(m)' => Placed(m) /\ Place(m)' = Place(m)
      BY <1>4 DEF Placed
    <2>. QED
      BY <1>1, <2>1, <2>2 DEF Numbers, LogOrder
  <1>6. Numbered' /\ Above'
    BY <1>2, <1>3, <1>4 DEF Numbered, Above
  <1>7. Unlogged'
    BY <1>1, <1>2, <1>3 DEF Numbers, Unlogged
  <1>8. InTurn' /\ Counter' /\ Len(dbq') <= 2
    BY <1>1 DEF InTurn, Counter
  <1>. QED
    BY <1>5, <1>6, <1>7, <1>8 DEF Numbers

\* A use of the dict that takes no number
LEMMA UsesNoNumber ==
  ASSUME MaxCalls <= 2, IInv, Queued, Warm, Numbers, NEW c \in Co, NEW q, Enters(c, q),
         NEW h, NEW n, Uses(c, h, n, q), ~(c \in Msg /\ AddNumbered(c, 1, h, n, q))
  PROVE  Numbers'
  <1>1. Proceed(c, 1, h, n, q)
    BY DEF Uses
  <1>2. /\ \E w \in {"returned", "status", "delete"} : Goes(c, w, q)
        /\ nextSeq' = n /\ UNCHANGED <<msgSeq, log, num, row>>
    BY <1>1 DEF Proceed, AddStream, Mark, Remove, Answer, Await, Return, Goes, Waits, db
  <1>3. PICK w \in {"returned", "status", "delete"} : Goes(c, w, q)
    BY <1>2
  <1>4. w \in Waits \cup {"returned", "raised"} /\ w \notin NotYet
    BY DEF Waits, NotYet
  <1>5. nextSeq' = nextSeq \/ (bufs = <<>> /\ nextSeq' = DbMax + 1)
    BY <1>2 DEF Uses
  <1>6. pc[c] \notin {"select", "insert"}
    BY DEF Uses
  <1>. QED
    BY <1>2, <1>3, <1>4, <1>5, <1>6, PlainNumbers

LEMMA NumbersStep ==
  ASSUME MaxBufs <= 1, MaxCalls <= 2, IInv, Queued, Warm, Numbers, [Next]_vars
  PROVE  Numbers'
  <1>0. Msg \subseteq Co /\ Remover \subseteq Co /\ Deleter \subseteq Co
    BY DEF Co
  <1>1. ASSUME NEW c \in Co, NEW q, Enters(c, q), NEW w \in Quietly, Idles(c, w, q)
        PROVE  Numbers'
    <2>1. /\ w \in Waits \cup {"returned", "raised"} /\ w \notin {"select", "insert"}
          /\ Goes(c, w, q) /\ pc[c] \notin {"select", "insert"}
          /\ UNCHANGED <<msgSeq, num, log, nextSeq, row>>
      BY <1>1 DEF Idles, Quietly, Waits, mem, db
    <2>2. c \in Msg /\ w \in NotYet => pc[c] \in NotYet
      BY <1>1 DEF Idles, NotYet
    <2>. QED
      BY <1>1, <2>1, <2>2, PlainNumbers
  <1>2. ASSUME NEW c \in Co, NEW q, Enters(c, q), NEW h, NEW n, Uses(c, h, n, q)
        PROVE  Numbers'
    <2>1. n \in Nat
      BY <1>2, UsesEffect
    <2>. QED
      BY <1>2, <2>1, NumberTaken, UsesNoNumber
  <1>3. ASSUME NEW m \in Msg, Select(m) \/ Insert(m) \/ InsertFails(m)
        PROVE  Numbers'
    BY <1>3, SelectNumbers, InsertNumbers, NeverFails
  <1>4. ASSUME NEW c \in Co, WriteStatus(c) \/ DeleteRows(c) \/ SoftDelete(c)
        PROVE  Numbers'
    <2>1. /\ Enters(c, Tail(dbq)) /\ Goes(c, "returned", Tail(dbq))
          /\ pc[c] \notin {"select", "insert"}
      BY <1>4 DEF WriteStatus, DeleteRows, SoftDelete, Resumes, Enters, Goes, Return, Waits
    <2>2. UNCHANGED <<msgSeq, num, log, nextSeq>>
      BY <1>4 DEF WriteStatus, DeleteRows, SoftDelete, mem, local
    <2>3. \A m \in Msg : row'[m] \in {row[m], NoRow}
      BY <1>4 DEF WriteStatus, DeleteRows, SoftDelete
    <2>4. "returned" \in Waits \cup {"returned", "raised"} /\ "returned" \notin NotYet
          /\ "returned" \notin {"select", "insert"}
      BY DEF NotYet
    <2>. QED
      BY <2>1, <2>2, <2>3, <2>4, PlainNumbers
  <1>5. CASE BeginRun \/ Expire \/ UNCHANGED vars
    <2>1. UNCHANGED <<nextSeq, msgSeq, row, pc, dbq, num, log>>
      BY <1>5 DEF BeginRun, Expire, vars, db, local
    <2>. QED
      BY <2>1 DEF Numbers, Numbered, Unlogged, LogOrder, Above, InTurn, Counter,
                  Pending, Stored, Placed, Place, Ahead
  <1>6. CASE Crash
    BY <1>6, CrashNumbers
  <1>. QED
    BY <1>0, <1>1, <1>2, <1>3, <1>4, <1>5, <1>6, WarmSteps

LEMMA AlwaysNumbered ==
  ASSUME MaxBufs <= 1, MaxCalls <= 2
  PROVE  Spec => [](IInv /\ Queued /\ Warm /\ Numbers)
  <1>1. Init => Numbers
    <2>. SUFFICES ASSUME Init PROVE Numbers
      OBVIOUS
    <2>1. /\ dbq = <<>> /\ log = <<>> /\ nextSeq = NoSeq
          /\ \A m \in Msg : m \in Co /\ msgSeq[m] = NoSeq
          /\ \A c \in Co : pc[c] = "idle"
      BY DEF Init, Co
    <2>. QED
      BY <2>1 DEF Numbers, Numbered, Unlogged, LogOrder, Above, InTurn, Counter, Pending
  <1>2. (IInv /\ Queued /\ Warm) /\ Numbers /\ [Next]_vars => Numbers'
    BY NumbersStep
  <1>. QED
    BY <1>1, <1>2, AlwaysWarm, PTL DEF Spec

\* A call's exception is the collision of its INSERT, and that does not happen.
LEMMA NobodyRaises ==
  ASSUME MaxBufs <= 1, IInv, Queued, Warm, Numbers, NothingLost, [Next]_vars
  PROVE  NothingLost'
  <1>0. \A m \in Msg : m \in Co /\ m \notin Deleter
    BY ConstantsAssumption DEF Co
  <1>1. ASSUME NEW c \in Co, NEW w, w # "raised" \/ c \notin Msg, pc' = [pc EXCEPT ![c] = w]
        PROVE  NothingLost'
    BY <1>0, <1>1 DEF NothingLost, IInv, TypeOK
  <1>2. ASSUME NEW c \in Co, NEW q, Enters(c, q), NEW w \in Quietly, Idles(c, w, q)
        PROVE  NothingLost'
    BY <1>1, <1>2 DEF Idles, Goes
  <1>3. ASSUME NEW c \in Co, NEW q, Enters(c, q), NEW h, NEW n, Uses(c, h, n, q)
        PROVE  NothingLost'
    <2>1. PICK w \in {"returned", "select", "status", "delete"} : Goes(c, w, q)
      BY <1>3, UsesEffect
    <2>. QED
      BY <1>1, <2>1 DEF Goes
  <1>4. ASSUME NEW m \in Msg, Select(m) \/ Insert(m) \/ InsertFails(m)
        PROVE  NothingLost'
    BY <1>0, <1>1, <1>4, NeverFails DEF Select, Insert, Await, Return
  <1>5. ASSUME NEW c \in Co, WriteStatus(c) \/ DeleteRows(c) \/ SoftDelete(c)
        PROVE  NothingLost'
    BY <1>1, <1>5 DEF WriteStatus, DeleteRows, SoftDelete, Return
  <1>6. CASE BeginRun \/ Expire \/ Crash \/ UNCHANGED vars
    BY <1>0, <1>6 DEF BeginRun, Expire, Crash, vars, NothingLost
  <1>7. Remover \subseteq Co /\ Deleter \subseteq Co
    BY DEF Co
  <1>. QED
    BY <1>2, <1>3, <1>4, <1>5, <1>6, <1>7, WarmSteps

\* For any number of messages and crashes, and a session that two calls at a
\* time use: no INSERT of _write_db meets a seq that is taken.
THEOREM NeverLost ==
  ASSUME MaxBufs <= 1, MaxCalls <= 2
  PROVE  Spec => []NothingLost
  <1>1. Init => NothingLost
    BY DEF Init, NothingLost, Co
  <1>2. (IInv /\ Queued /\ Warm /\ Numbers) /\ NothingLost /\ [Next]_vars => NothingLost'
    BY NobodyRaises
  <1>. QED
    BY <1>1, <1>2, AlwaysNumbered, PTL DEF Spec

\* Under the same conditions: between calls the counter is past every row.
THEOREM CounterLeads ==
  ASSUME MaxBufs <= 1, MaxCalls <= 2
  PROVE  Spec => []CounterAhead
  <1>1. IInv /\ Numbers => CounterAhead
    <2>. SUFFICES ASSUME IInv, Numbers, nextSeq # NoSeq
                  PROVE  nextSeq > DbMax
      BY DEF CounterAhead
    <2>1. nextSeq \in Nat /\ DbMax \in Nat \cup {NoRow}
      BY MaxSeq DEF IInv, TypeOK
    <2>2. \A m \in Msg : Stored(m) => row[m] < nextSeq
      BY DEF Numbers, Counter
    <2>3. CASE DbMax = NoRow
      BY <2>1, <2>3 DEF NoRow
    <2>4. CASE \E m \in Msg : Stored(m) /\ row[m] = DbMax
      BY <2>1, <2>2, <2>4 DEF NoRow
    <2>. QED
      BY <2>3, <2>4, MaxSeqIsRow
  <1>. QED
    BY <1>1, AlwaysNumbered, PTL

\* Under the same conditions: ORDER BY seq is the order in which add_message
\* took the messages, through crashes and removals.
THEOREM ReplaysInOrder ==
  ASSUME MaxBufs <= 1, MaxCalls <= 2
  PROVE  Spec => []ReplayOrder
  <1>1. IInv /\ Numbers => ReplayOrder
    <2>. SUFFICES ASSUME IInv, Numbers, NEW i \in DOMAIN log, NEW j \in DOMAIN log, i < j,
                         Stored(log[i]), Stored(log[j])
                  PROVE  row[log[i]] < row[log[j]]
      BY DEF ReplayOrder
    <2>1. log[i] \in Msg /\ log[j] \in Msg
      BY DEF IInv, TypeOK
    <2>2. ~Pending(log[i]) /\ ~Pending(log[j])
      BY <2>1 DEF IInv, Unwritten, Stored, Pending, Early
    <2>. QED
      BY <2>2 DEF Numbers, LogOrder, Placed, Place
  <1>. QED
    BY <1>1, AlwaysNumbered, PTL

\* Under the same conditions: the seq of a message, once it has one, is not
\* changed by _write_db or anything else as long as the process lives.
THEOREM IndicesStay ==
  ASSUME MaxBufs <= 1, MaxCalls <= 2
  PROVE  Spec => IndexStable
  <1>1. IInv /\ Queued /\ Warm /\ Numbers /\ [Next]_vars
            => [\A m \in Msg : msgSeq[m] # NoSeq => msgSeq'[m] \in {msgSeq[m], NoSeq}]_vars
    <2>. SUFFICES ASSUME IInv, Queued, Warm, Numbers, [Next]_vars,
                         NEW m \in Msg, msgSeq[m] # NoSeq
                  PROVE  msgSeq'[m] \in {msgSeq[m], NoSeq}
      OBVIOUS
    <2>1. ASSUME NEW c \in Co, NEW q, Enters(c, q), NEW w \in Quietly, Idles(c, w, q)
          PROVE  msgSeq' = msgSeq
      BY <2>1 DEF Idles, mem
    <2>2. ASSUME NEW c \in Co, NEW q, Enters(c, q), NEW h, NEW n, Uses(c, h, n, q)
          PROVE  msgSeq' = msgSeq \/ (c \in Msg /\ c # m /\ \E s : msgSeq' = [msgSeq EXCEPT ![c] = s])
      <3>1. pc[c] \in NotYet /\ Proceed(c, 1, h, n, q)
        BY <2>2 DEF Uses, NotYet
      <3>2. c # m
        BY <3>1 DEF Numbers, Unlogged
      <3>. QED
        BY <3>1, <3>2 DEF Proceed, AddStream, AddNumbered, Mark, Remove, Answer
    <2>3. ASSUME NEW o \in Msg, Insert(o)
          PROVE  msgSeq' = msgSeq
      <3>1. num[o] = msgSeq[o] /\ msgSeq' = [msgSeq EXCEPT ![o] = num[o]]
        BY <2>3 DEF Insert, Resumes, Numbers, Numbered, Pending
      <3>. QED
        BY <3>1 DEF IInv, TypeOK
    <2>4. ASSUME \/ \E o \in Msg : Select(o) \/ InsertFails(o)
                 \/ \E c \in Co : WriteStatus(c)
                 \/ \E c \in Remover : DeleteRows(c)
                 \/ \E c \in Deleter : SoftDelete(c)
                 \/ BeginRun \/ Expire \/ UNCHANGED vars
          PROVE  msgSeq' = msgSeq
      BY <2>4 DEF Select, InsertFails, WriteStatus, DeleteRows, SoftDelete, BeginRun, Expire,
                  mem, vars
    <2>5. CASE Crash
      BY <2>5 DEF Crash
    <2>6. CASE msgSeq' = msgSeq
      BY <2>6
    <2>. QED
      BY <2>1, <2>2, <2>3, <2>4, <2>5, <2>6, WarmSteps DEF IInv, TypeOK
  <1>. QED
    BY <1>1, AlwaysNumbered, PTL DEF Spec, IndexStable


-----------------------------------------------------------------------------
(* List positions run ahead of numbers: what lets get_history take an index   *)
(* for a position.  A number is one of the messages before it, a position one *)
(* of the stream events too; eviction and removals move base_index up by what *)
(* they take from the list.                                                   *)

End(b) == b.base + Len(b.msgs)

\* Message m with number p is in the list, at a position of p or more, or is
\* evicted, and p is below what the list begins with.
Has(b, m, p) ==
    p < b.base \/ \E i \in DOMAIN b.msgs : b.msgs[i] = m /\ p <= b.base + i - 1

LEMMA BufferFields ==
  ASSUME NEW b \in SoundBuffer
  PROVE  /\ b.base \in Nat /\ b.msgs \in Seq(Msg) /\ Len(b.msgs) \in Nat
         /\ DOMAIN b.msgs = 1 .. Len(b.msgs) /\ End(b) \in Nat
  BY DEF SoundBuffer, Buffer, End

LEMMA LastOnes ==
  ASSUME NEW s \in Seq(Msg), NEW d \in Nat, d <= Len(s), NEW t, t = SubSeq(s, d + 1, Len(s))
  PROVE  /\ Len(t) = Len(s) - d /\ DOMAIN t = 1 .. Len(s) - d
         /\ \A i \in 1 .. Len(s) - d : t[i] = s[i + d]
  <1>1. Len(s) \in Nat
    OBVIOUS
  <1>2. t \in Seq(Msg) /\ Len(t) = Len(s) - d
    BY <1>1
  <1>3. \A i \in 1 .. Len(s) - d : t[i] = s[i + d]
    BY <1>1
  <1>. QED
    BY <1>2, <1>3

LEMMA HasAppended ==
  ASSUME NEW b \in SoundBuffer, NEW c \in Msg, NEW o \in Msg, NEW p \in Nat
  PROVE  /\ End(Appended(b, c)) = End(b) + 1
         /\ Has(b, o, p) => Has(Appended(b, c), o, p)
         /\ p <= End(b) => Has(Appended(b, c), c, p)
  <1>. DEFINE all  == Append(b.msgs, c)
              drop == IF Len(all) > MaxHistory THEN Len(all) - MaxHistory ELSE 0
              new  == Appended(b, c)
  <1>1. /\ b.base \in Nat /\ b.msgs \in Seq(Msg) /\ Len(b.msgs) \in Nat
        /\ DOMAIN b.msgs = 1 .. Len(b.msgs)
    BY BufferFields
  <1>2. /\ all \in Seq(Msg) /\ Len(all) = Len(b.msgs) + 1 /\ all[Len(all)] = c
        /\ \A i \in 1 .. Len(b.msgs) : all[i] = b.msgs[i]
    BY <1>1
  <1>3. drop \in Nat /\ drop <= Len(all)
    BY <1>1, <1>2, ConstantsAssumption
  <1>4. new.msgs = SubSeq(all, drop + 1, Len(all)) /\ new.base = b.base + drop
    BY DEF Appended, SoundBuffer, Buffer
  <1>. HIDE DEF all, drop, new
  <1>5. /\ Len(new.msgs) = Len(all) - drop /\ DOMAIN new.msgs = 1 .. Len(all) - drop
        /\ \A i \in 1 .. Len(all) - drop : new.msgs[i] = all[i + drop]
    BY <1>2, <1>3, <1>4, LastOnes
  <1>6. \A i \in 1 .. Len(all) : i > drop => i - drop \in DOMAIN new.msgs /\ new.msgs[i - drop] = all[i]
    BY <1>1, <1>2, <1>3, <1>5
  <1>7. End(new) = End(b) + 1
    <2>1. Len(all) = Len(b.msgs) + 1 /\ Len(new.msgs) = Len(all) - drop
      BY <1>2, <1>5
    <2>2. new.base + Len(new.msgs) = b.base + Len(b.msgs) + 1
      BY <1>1, <1>3, <1>4, <2>1
    <2>. QED
      BY <2>2 DEF End
  <1>8. ASSUME NEW i \in 1 .. Len(all), all[i] = o, p <= b.base + i - 1
        PROVE  Has(new, o, p)
    <2>1. CASE i <= drop
      BY <1>1, <1>3, <1>4, <1>8, <2>1 DEF Has
    <2>2. CASE i > drop
      <3>1. i - drop \in DOMAIN new.msgs /\ new.msgs[i - drop] = o
        BY <1>6, <1>8, <2>2
      <3>2. p <= new.base + (i - drop) - 1
        BY <1>1, <1>3, <1>4, <1>8
      <3>. QED
        BY <3>1, <3>2 DEF Has
    <2>. QED
      BY <1>3, <2>1, <2>2
  <1>9. ASSUME Has(b, o, p) PROVE Has(new, o, p)
    <2>1. CASE p < b.base
      BY <1>1, <1>3, <1>4, <2>1 DEF Has
    <2>2. ASSUME NEW i \in DOMAIN b.msgs, b.msgs[i] = o, p <= b.base + i - 1
          PROVE  Has(new, o, p)
      <3>1. i \in 1 .. Len(all) /\ all[i] = o
        BY <1>1, <1>2, <2>2
      <3>. QED
        BY <1>8, <2>2, <3>1
    <2>. QED
      BY <1>9, <2>1, <2>2 DEF Has
  <1>10. ASSUME p <= End(b) PROVE Has(new, c, p)
    <2>. DEFINE l == Len(all)
    <2>1. l \in 1 .. l /\ all[l] = c /\ p <= b.base + l - 1 /\ l \in Nat
      BY <1>1, <1>2, <1>10 DEF End
    <2>2. CASE l <= drop
      BY <1>1, <1>3, <1>4, <2>1, <2>2 DEF Has
    <2>3. CASE l > drop
      <3>1. l - drop \in DOMAIN new.msgs /\ new.msgs[l - drop] = c
        BY <1>6, <2>1, <2>3
      <3>2. p <= new.base + (l - drop) - 1
        BY <1>1, <1>3, <1>4, <2>1
      <3>. QED
        BY <3>1, <3>2 DEF Has
    <2>. QED
      BY <1>3, <2>1, <2>2, <2>3
  <1>. QED
    BY <1>7, <1>9, <1>10 DEF new

LEMMA HasAligned ==
  ASSUME NEW b \in SoundBuffer, NEW s \in Nat, NEW o \in Msg, NEW p \in Nat
  PROVE  /\ End(Aligned(b, s)) >= End(b)
         /\ Has(b, o, p) => Has(Aligned(b, s), o, p)
  <1>1. /\ b.base \in Nat /\ b.msgs \in Seq(Msg) /\ Len(b.msgs) \in Nat
        /\ DOMAIN b.msgs = 1 .. Len(b.msgs)
    BY BufferFields
  <1>2. /\ Aligned(b, s).msgs = b.msgs
        /\ Aligned(b, s).base \in Nat /\ Aligned(b, s).base >= b.base
    BY <1>1 DEF Aligned, SoundBuffer, Buffer
  <1>3. End(Aligned(b, s)) >= End(b)
    BY <1>1, <1>2 DEF End
  <1>4. ASSUME p < b.base PROVE p < Aligned(b, s).base
    BY <1>1, <1>2, <1>4
  <1>5. ASSUME NEW i \in DOMAIN b.msgs, p <= b.base + i - 1
        PROVE  p <= Aligned(b, s).base + i - 1
    BY <1>1, <1>2, <1>5
  <1>6. Has(b, o, p) => Has(Aligned(b, s), o, p)
    BY <1>2, <1>4, <1>5 DEF Has
  <1>. QED
    BY <1>3, <1>6

LEMMA HasTransition ==
  ASSUME NEW b \in SoundBuffer, NEW k, NEW o, NEW p
  PROVE  /\ End(Transition(b, k)) = End(b)
         /\ Has(Transition(b, k), o, p) <=> Has(b, o, p)
  <1>1. Transition(b, k).msgs = b.msgs /\ Transition(b, k).base = b.base
    BY DEF Transition, SoundBuffer, Buffer
  <1>. QED
    BY <1>1 DEF End, Has

LEMMA EndWithoutFiles ==
  ASSUME NEW b \in SoundBuffer
  PROVE  End(WithoutFiles(b)) = End(b)
  <1>. DEFINE n == Len(b.msgs)
              k == Len(Kept(b.msgs))
  <1>1. b.base \in Nat /\ b.msgs \in Seq(Msg) /\ n \in Nat
    BY BufferFields
  <1>2. k \in Nat
    BY <1>1, KeptAll
  <1>3. Len(WithoutFiles(b).msgs) = k /\ WithoutFiles(b).base = b.base + n - k
    BY DEF WithoutFiles, SoundBuffer, Buffer
  <1>. HIDE DEF n, k
  <1>4. WithoutFiles(b).base + Len(WithoutFiles(b).msgs) = b.base + n
    BY <1>1, <1>2, <1>3
  <1>. QED
    BY <1>4 DEF End, n

LEMMA HasWithoutFiles ==
  ASSUME NEW b \in SoundBuffer, NEW o \in Msg, NEW p \in Nat
  PROVE  ~IsFile(o) /\ Has(b, o, p) => Has(WithoutFiles(b), o, p)
  <1>. DEFINE kept == Kept(b.msgs)
              new  == WithoutFiles(b)
  <1>1. /\ b.base \in Nat /\ b.msgs \in Seq(Msg) /\ Len(b.msgs) \in Nat
        /\ DOMAIN b.msgs = 1 .. Len(b.msgs)
    BY BufferFields
  <1>2. kept \in Seq(Msg) /\ Len(kept) <= Len(b.msgs)
    BY <1>1, KeptAll
  <1>3. new.msgs = kept /\ new.base = b.base + Len(b.msgs) - Len(kept)
    BY DEF WithoutFiles, SoundBuffer, Buffer
  <1>4. \A i \in 1 .. Len(b.msgs) : ~IsFile(b.msgs[i]) =>
            \E j \in 1 .. Len(kept) :
                kept[j] = b.msgs[i] /\ Len(kept) - j <= Len(b.msgs) - i
    BY <1>1, KeptAll
  <1>. HIDE DEF kept, new
  <1>5. Len(kept) \in Nat /\ DOMAIN kept = 1 .. Len(kept)
    BY <1>2
  <1>7. ASSUME p < b.base PROVE p < new.base
    BY <1>1, <1>2, <1>3, <1>5, <1>7
  <1>8. ASSUME NEW i \in DOMAIN b.msgs, b.msgs[i] = o, p <= b.base + i - 1, ~IsFile(o)
        PROVE  Has(new, o, p)
    <2>1. PICK j \in 1 .. Len(kept) : kept[j] = o /\ Len(kept) - j <= Len(b.msgs) - i
      BY <1>1, <1>4, <1>8
    <2>2. p <= new.base + j - 1
      <3>1. /\ i \in Nat /\ j \in Nat /\ Len(kept) - j <= Len(b.msgs) - i
            /\ new.base = b.base + Len(b.msgs) - Len(kept) /\ p <= b.base + i - 1
        BY <1>1, <1>3, <1>8, <2>1
      <3>. QED
        BY <1>1, <1>5, <3>1
    <2>3. j \in DOMAIN new.msgs /\ new.msgs[j] = o
      BY <1>3, <1>5, <2>1
    <2>. QED
      BY <2>2, <2>3 DEF Has
  <1>9. ~IsFile(o) /\ Has(b, o, p) => Has(new, o, p)
    BY <1>7, <1>8 DEF Has
  <1>. QED
    BY <1>9 DEF new

\* The buffer has what is numbered where a reader looks for it, and the counter
\* is not past its end.
Sits(b, n) ==
    /\ \A m \in Msg : Placed(m) /\ ~IsFile(m) => Has(b, m, Place(m))
    /\ n <= End(b)
    /\ \A m \in Msg : Pending(m) => msgSeq[m] < End(b)

\* As long as the buffer has held the session since its first message
Positions ==
    crashes = 0 =>
        /\ bufs = <<>> => \A m \in Msg : ~Placed(m)
        /\ bufs # <<>> => Sits(bufs[1], nextSeq)

LEMMA PlaceType ==
  ASSUME IInv, Numbers, NEW m \in Msg, Placed(m)
  PROVE  Place(m) \in Nat
  BY DEF Placed, Place, Stored, IInv, TypeOK, NoRow, NoSeq, Numbers, Numbered

\* Nothing new is numbered, and the buffer, if it changed, has what it had.
LEMMA SitsStays ==
  ASSUME IInv, Numbers,
         NEW b \in SoundBuffer, NEW x \in SoundBuffer, NEW n, NEW k, Sits(b, n),
         End(x) >= End(b), k <= End(x),
         \A m \in Msg, p \in Nat : ~IsFile(m) /\ Has(b, m, p) => Has(x, m, p),
         \A m \in Msg : /\ Placed(m)' => Placed(m) /\ Place(m)' = Place(m) /\ kind'[m] = kind[m]
                        /\ Pending(m)' => Pending(m) /\ msgSeq'[m] = msgSeq[m]
  PROVE  Sits(x, k)'
  <1>1. ASSUME NEW m \in Msg, Placed(m)', ~IsFile(m)' PROVE Has(x, m, Place(m)')
    <2>1. Placed(m) /\ ~IsFile(m) /\ Place(m)' = Place(m)
      BY <1>1 DEF IsFile
    <2>2. Has(b, m, Place(m)) /\ Place(m) \in Nat
      BY <2>1, PlaceType DEF Sits
    <2>. QED
      BY <2>1, <2>2
  <1>2. ASSUME NEW m \in Msg, Pending(m)' PROVE msgSeq'[m] < End(x)
    <2>1. Pending(m) /\ msgSeq'[m] = msgSeq[m] /\ msgSeq[m] < End(b)
      BY <1>2 DEF Sits
    <2>2. msgSeq[m] \in Int /\ End(b) \in Nat /\ End(x) \in Nat
      BY BufferFields DEF IInv, TypeOK, NoSeq
    <2>. QED
      BY <2>1, <2>2
  <1>3. \A m \in Msg : Has(x, m, Place(m)') <=> Has(x, m, Place(m))'
    BY DEF Has
  <1>4. End(x)' = End(x)
    BY DEF End
  <1>. QED
    BY <1>1, <1>2, <1>3, <1>4 DEF Sits

\* A call that is about no number leaves every message at its place.
LEMMA PlacesStay ==
  ASSUME IInv, Queued, NEW c \in Co, NEW q, Enters(c, q),
         NEW w \in Waits \cup {"returned", "raised"}, Goes(c, w, q),
         pc[c] \notin {"select", "insert"}, w \notin {"select", "insert"},
         UNCHANGED msgSeq, \A m \in Msg : row'[m] \in {row[m], NoRow},
         \A m \in Msg : kind'[m] = kind[m] \/ pc[m] = "idle"
  PROVE  \A m \in Msg : /\ Placed(m)' => Placed(m) /\ Place(m)' = Place(m) /\ kind'[m] = kind[m]
                        /\ Pending(m)' => Pending(m) /\ msgSeq'[m] = msgSeq[m]
  <1>0. \A m \in Msg : m \in Co
    BY DEF Co
  <1>1. pc'[c] = w /\ \A d \in Co \ {c} : pc'[d] = pc[d]
    BY QueueMove
  <1>2. \A m \in Msg : /\ Pending(m)' <=> Pending(m)
                       /\ Stored(m)' => Stored(m) /\ row'[m] = row[m]
                       /\ Placed(m) => pc[m] # "idle"
    BY <1>0, <1>1 DEF Pending, Stored, Placed, IInv, Unwritten, Early
  <1>. QED
    BY <1>2 DEF Placed, Place

LEMMA PlainPositions ==
  ASSUME IInv, Queued, Numbers, Positions, NEW c \in Co, NEW q, Enters(c, q),
         NEW w \in Waits \cup {"returned", "raised"}, Goes(c, w, q),
         pc[c] \notin {"select", "insert"}, w \notin {"select", "insert"},
         UNCHANGED <<bufs, nextSeq, msgSeq, crashes>>,
         \A m \in Msg : row'[m] \in {row[m], NoRow},
         \A m \in Msg : kind'[m] = kind[m] \/ pc[m] = "idle"
  PROVE  Positions'
  <1>. SUFFICES ASSUME crashes = 0 PROVE Positions'
    BY DEF Positions
  <1>1. \A m \in Msg : /\ Placed(m)' => Placed(m) /\ Place(m)' = Place(m) /\ kind'[m] = kind[m]
                       /\ Pending(m)' => Pending(m) /\ msgSeq'[m] = msgSeq[m]
    BY PlacesStay
  <1>2. CASE bufs = <<>>
    BY <1>1, <1>2 DEF Positions
  <1>3. CASE bufs # <<>>
    <2>. PICK b, n : b = bufs[1] /\ n = nextSeq
      OBVIOUS
    <2>1. b \in SoundBuffer /\ Sits(b, n)
      BY <1>3 DEF IInv, Positions
    <2>2. End(b) >= End(b) /\ n <= End(b)
      BY <2>1, BufferFields DEF Sits
    <2>3. Sits(b, n)'
      BY <1>1, <2>1, <2>2, SitsStays
    <2>. QED
      BY <1>3, <2>3 DEF Positions, Sits
  <1>. QED
    BY <1>2, <1>3

\* The dict that a use begins with
LEMMA UsesSits ==
  ASSUME IInv, Queued, Warm, Numbers, Positions, crashes = 0, NEW c \in Co, NEW q, Enters(c, q),
         NEW h, NEW n, Uses(c, h, n, q)
  PROVE  Sits(h[1], n)
  <1>1. CASE Len(bufs) = 1 /\ h = bufs /\ n = nextSeq
    <2>1. bufs # <<>>
      BY <1>1
    <2>. QED
      BY <1>1, <2>1 DEF Positions
  <1>2. CASE bufs = <<>> /\ h = <<NewBuf(st[c])>> /\ n = DbMax + 1
    <2>1. \A m \in Msg : ~Placed(m)
      BY <1>2 DEF Positions
    <2>2. DbMax = NoRow
      BY <2>1, MaxSeqIsRow DEF Placed
    <2>3. n = 0 /\ h[1] = NewBuf(st[c])
      BY <1>2, <2>2 DEF NoRow
    <2>4. End(h[1]) = 0
      BY <2>3 DEF End, NewBuf
    <2>. QED
      BY <2>1, <2>3, <2>4 DEF Sits, Placed
  <1>. QED
    BY <1>1, <1>2 DEF Uses

\* Each use leaves a buffer that has what it had, and one that ends no earlier.
LEMMA UsesPositions ==
  ASSUME IInv, Queued, Warm, Numbers, Positions, NEW c \in Co, NEW q, Enters(c, q),
         NEW h, NEW n, Uses(c, h, n, q)
  PROVE  Positions'
  <1>0. Proceed(c, 1, h, n, q) /\ UNCHANGED <<row, num, crashes>>
    BY DEF Uses, Proceed, db
  <1>. SUFFICES ASSUME crashes = 0 PROVE Positions'
    BY <1>0 DEF Positions
  <1>1. /\ n \in Nat /\ h \in Seq(SoundBuffer) /\ Len(h) = 1 /\ bufs' # <<>>
        /\ bufs' \in Seq(SoundBuffer) /\ Len(bufs') = 1
        /\ \A x : [h EXCEPT ![1] = x][1] = x
    BY UsesEffect
  <1>. PICK b : b = h[1]
    OBVIOUS
  <1>2. b \in SoundBuffer /\ Sits(b, n) /\ End(b) \in Nat
    BY <1>1, UsesSits, BufferFields
  <1>3. /\ pc[c] \in NotYet
        /\ \A m \in Msg : kind'[m] = kind[m] \/ pc[m] = "idle"
    BY DEF Uses, NotYet
  <1>. PICK x, k : x = bufs'[1] /\ k = nextSeq'
    OBVIOUS
  <1>4. x \in SoundBuffer
    BY <1>1
  <1>5. SUFFICES Sits(x, k)'
    BY <1>1, <1>5 DEF Positions, Sits
  <1>6. ASSUME c \in Msg, AddNumbered(c, 1, h, n, q)
        PROVE  Sits(x, k)'
    <2>1. x = Appended(b, c) /\ k = n + 1 /\ msgSeq' = [msgSeq EXCEPT ![c] = n]
      <3>1. n # NoSeq
        BY <1>1 DEF NoSeq
      <3>. QED
        BY <1>1, <1>6, <3>1 DEF AddNumbered
    <2>2. End(x) = End(b) + 1
      BY <1>2, <1>6, <2>1, HasAppended
    <2>3. /\ \A m \in Msg, p \in Nat : Has(b, m, p) => Has(x, m, p)
          /\ \A p \in Nat : p <= End(b) => Has(x, c, p)
      BY <1>2, <1>6, <2>1, HasAppended
    <2>4. pc'[c] = "select" /\ \A m \in Msg \ {c} : pc'[m] = pc[m]
      BY <1>6 DEF AddNumbered, Await, IInv, TypeOK, Co
    <2>5. /\ \A m \in Msg \ {c} : /\ (Placed(m)' <=> Placed(m)) /\ Place(m)' = Place(m)
                                  /\ (Pending(m)' <=> Pending(m)) /\ msgSeq'[m] = msgSeq[m]
                                  /\ Placed(m) => kind'[m] = kind[m]
          /\ Pending(c)' /\ Place(c)' = n /\ msgSeq'[c] = n
      <3>1. \A m \in Msg : Placed(m) => pc[m] # "idle"
        BY DEF Placed, Pending, Stored, IInv, Unwritten, Early
      <3>2. \A m \in Msg : msgSeq'[m] = IF m = c THEN n ELSE msgSeq[m]
        BY <2>1 DEF IInv, TypeOK
      <3>. QED
        BY <1>0, <1>3, <1>6, <2>4, <3>1, <3>2 DEF Placed, Place, Pending, Stored
    <2>6. ASSUME NEW m \in Msg, Placed(m)', ~IsFile(m)' PROVE Has(x, m, Place(m)')
      <3>1. CASE m = c
        BY <1>1, <1>2, <2>3, <2>5, <3>1 DEF Sits
      <3>2. CASE m # c
        <4>1. Placed(m) /\ Place(m)' = Place(m) /\ ~IsFile(m)
          BY <2>5, <2>6, <3>2 DEF IsFile
        <4>2. Has(b, m, Place(m)) /\ Place(m) \in Nat
          BY <1>2, <4>1, PlaceType DEF Sits
        <4>. QED
          BY <2>3, <4>1, <4>2
      <3>. QED
        BY <3>1, <3>2
    <2>7. ASSUME NEW m \in Msg, Pending(m)' PROVE msgSeq'[m] < End(x)
      <3>1. CASE m = c
        <4>1. n <= End(b)
          BY <1>2 DEF Sits
        <4>. QED
          BY <1>1, <1>2, <2>2, <2>5, <3>1, <4>1
      <3>2. CASE m # c
        <4>1. msgSeq'[m] = msgSeq[m] /\ msgSeq[m] < End(b) /\ msgSeq[m] \in Int
          BY <1>2, <2>5, <2>7, <3>2 DEF Sits, IInv, TypeOK, NoSeq
        <4>. QED
          BY <1>2, <2>2, <4>1
      <3>. QED
        BY <3>1, <3>2
    <2>8. k <= End(x)
      BY <1>1, <1>2, <2>1, <2>2 DEF Sits
    <2>9. \A m \in Msg : Has(x, m, Place(m)') <=> Has(x, m, Place(m))'
      BY DEF Has
    <2>10. End(x)' = End(x)
      BY DEF End
    <2>. QED
      BY <2>6, <2>7, <2>8, <2>9, <2>10 DEF Sits
  <1>7. ASSUME ~(c \in Msg /\ AddNumbered(c, 1, h, n, q))
        PROVE  Sits(x, k)'
    <2>1. /\ k = n /\ UNCHANGED msgSeq
          /\ \E w \in {"returned", "status", "delete"} : Goes(c, w, q)
      BY <1>0, <1>7 DEF Proceed, AddStream, Mark, Remove, Answer, Await, Return, Goes, Waits
    <2>. PICK w \in {"returned", "status", "delete"} : Goes(c, w, q)
      BY <2>1
    <2>2. w \in Waits \cup {"returned", "raised"} /\ pc[c] \notin {"select", "insert"}
          /\ w \notin {"select", "insert"} /\ \A m \in Msg : row'[m] \in {row[m], NoRow}
      BY <1>0, <1>3 DEF Waits, NotYet
    <2>3. \A m \in Msg : /\ Placed(m)' => Placed(m) /\ Place(m)' = Place(m) /\ kind'[m] = kind[m]
                         /\ Pending(m)' => Pending(m) /\ msgSeq'[m] = msgSeq[m]
      BY <1>3, <2>1, <2>2, PlacesStay
    <2>4. /\ End(x) >= End(b)
          /\ \A m \in Msg, p \in Nat : ~IsFile(m) /\ Has(b, m, p) => Has(x, m, p)
      <3>. DEFINE Keeps == /\ End(x) >= End(b)
                           /\ \A m \in Msg, p \in Nat : ~IsFile(m) /\ Has(b, m, p) => Has(x, m, p)
      <3>0. ASSUME x.msgs = b.msgs, x.base = b.base PROVE Keeps
        BY <1>2, <3>0 DEF End, Has
      <3>1. ASSUME c \in Msg, AddStream(c, 1, h, n, q) PROVE Keeps
        <4>1. x = Transition(Appended(b, c), "stream")
          BY <1>1, <3>1 DEF AddStream
        <4>2. Appended(b, c) \in SoundBuffer
          BY <1>2, <3>1, AppendedSound
        <4>3. End(x) = End(b) + 1
          BY <1>2, <3>1, <4>1, <4>2, HasAppended, HasTransition
        <4>4. \A m \in Msg, p \in Nat : Has(b, m, p) => Has(x, m, p)
          BY <1>2, <3>1, <4>1, <4>2, HasAppended, HasTransition
        <4>. QED
          BY <1>2, <4>3, <4>4
      <3>2. ASSUME c \in Marker, Mark(c, 1, h, n, q) PROVE Keeps
        <4>1. PICK s : bufs' = [h EXCEPT ![1] = [h[1] EXCEPT !.done = TRUE, !.state = s]]
          BY <1>1, <3>2 DEF Mark
        <4>2. x.msgs = b.msgs /\ x.base = b.base
          BY <1>1, <1>2, <4>1 DEF SoundBuffer, Buffer
        <4>. QED
          BY <3>0, <4>2
      <3>3. ASSUME c \in Remover, Remove(c, 1, h, n, q) PROVE Keeps
        <4>1. x = b \/ x = WithoutFiles(b)
          BY <1>1, <3>3 DEF Remove
        <4>2. CASE x = b
          BY <3>0, <4>2
        <4>3. CASE x = WithoutFiles(b)
          <5>1. End(x) = End(b)
            BY <1>2, <4>3, EndWithoutFiles
          <5>2. \A m \in Msg, p \in Nat : ~IsFile(m) /\ Has(b, m, p) => Has(x, m, p)
            BY <1>2, <4>3, HasWithoutFiles
          <5>. QED
            BY <1>2, <5>1, <5>2
        <4>. QED
          BY <4>1, <4>2, <4>3
      <3>4. ASSUME c \in Reader, Answer(c, h, n, q) PROVE Keeps
        BY <3>0, <3>4 DEF Answer
      <3>. QED
        BY <1>0, <1>7, <3>1, <3>2, <3>3, <3>4 DEF Proceed
    <2>5. k <= End(x)
      <3>1. n <= End(b) /\ End(x) \in Nat
        BY <1>2, <1>4, BufferFields DEF Sits
      <3>. QED
        BY <1>1, <1>2, <2>1, <2>4, <3>1
    <2>. QED
      BY <1>2, <1>4, <2>3, <2>4, <2>5, SitsStays
  <1>. QED
    BY <1>6, <1>7

LEMMA SelectPositions ==
  ASSUME MaxCalls <= 2, IInv, Queued, Warm, Numbers, Positions, NEW m \in Msg, Select(m)
  PROVE  Positions'
  <1>0. /\ UNCHANGED <<bufs, msgSeq, row, kind, crashes>> /\ nextSeq' = msgSeq[m] + 1
        /\ Pending(m) /\ msgSeq[m] \in Nat /\ pc' = [pc EXCEPT ![m] = "insert"]
    BY NumberKept DEF Select, Await, db
  <1>. SUFFICES ASSUME crashes = 0 PROVE Positions'
    BY <1>0 DEF Positions
  <1>1. \A o \in Msg : (Pending(o)' <=> Pending(o)) /\ (Stored(o)' <=> Stored(o))
    BY <1>0 DEF Pending, Stored, IInv, TypeOK, Co
  <1>2. \A o \in Msg : /\ Placed(o)' => Placed(o) /\ Place(o)' = Place(o) /\ kind'[o] = kind[o]
                       /\ Pending(o)' => Pending(o) /\ msgSeq'[o] = msgSeq[o]
    BY <1>0, <1>1 DEF Placed, Place
  <1>3. bufs # <<>>
    BY <1>0 DEF Positions, Placed
  <1>. PICK b, n, k : b = bufs[1] /\ n = nextSeq /\ k = nextSeq'
    OBVIOUS
  <1>4. b \in SoundBuffer /\ Sits(b, n)
    BY <1>3 DEF IInv, Positions
  <1>5. End(b) >= End(b) /\ k <= End(b)
    <2>1. msgSeq[m] < End(b) /\ End(b) \in Nat
      BY <1>0, <1>4, BufferFields DEF Sits
    <2>. QED
      BY <1>0, <2>1
  <1>6. Sits(b, k)'
    BY <1>2, <1>4, <1>5, SitsStays
  <1>. QED
    BY <1>0, <1>3, <1>6 DEF Positions, Sits

LEMMA InsertPositions ==
  ASSUME MaxCalls <= 2, IInv, Queued, Warm, Numbers, Positions, NEW m \in Msg, Insert(m)
  PROVE  Positions'
  <1>0. /\ pc[m] = "insert" /\ UNCHANGED <<nextSeq, kind, crashes>>
        /\ bufs' = [bufs EXCEPT ![ref[m]] = Transition(Aligned(bufs[ref[m]], num[m]), kind[m])]
        /\ row' = [row EXCEPT ![m] = num[m]] /\ msgSeq' = [msgSeq EXCEPT ![m] = num[m]]
        /\ \E w \in {"status", "returned"} : pc' = [pc EXCEPT ![m] = w]
    BY DEF Insert, Resumes, Await, Return
  <1>. SUFFICES ASSUME crashes = 0 PROVE Positions'
    BY <1>0 DEF Positions
  <1>1. Pending(m) /\ num[m] = msgSeq[m] /\ msgSeq[m] \in Nat /\ m \in Co
    BY <1>0 DEF Numbers, Numbered, Pending, IInv, TypeOK, Co
  <1>2. bufs # <<>> /\ ref[m] = 1 /\ Len(bufs) = 1
    <2>1. bufs # <<>>
      BY <1>1 DEF Positions, Placed
    <2>. PICK l, i : l = Len(bufs) /\ i = ref[m]
      OBVIOUS
    <2>2. l \in Nat /\ l <= 1 /\ i \in 1 .. l
      BY <1>0, <1>1 DEF Warm, Held, IInv, TypeOK
    <2>3. i = 1 /\ l = 1
      BY <2>2
    <2>4. ref[m] = 1 /\ Len(bufs) = 1
      BY <2>3
    <2>. QED
      BY <2>1, <2>4
  <1>3. /\ msgSeq' = msgSeq
        /\ \A o \in Msg : row'[o] = IF o = m THEN msgSeq[m] ELSE row[o]
    BY <1>0, <1>1 DEF IInv, TypeOK
  <1>4. /\ \A o \in Msg : Pending(o)' <=> Pending(o) /\ o # m
        /\ \A o \in Msg : Stored(o)' <=> Stored(o) \/ o = m
    BY <1>0, <1>1, <1>3 DEF Pending, Stored, NoRow, IInv, TypeOK, Co
  <1>5. \A o \in Msg : /\ Placed(o)' => Placed(o) /\ Place(o)' = Place(o) /\ kind'[o] = kind[o]
                       /\ Pending(o)' => Pending(o) /\ msgSeq'[o] = msgSeq[o]
    BY <1>0, <1>1, <1>3, <1>4 DEF Placed, Place
  <1>. PICK b, n, x : b = bufs[1] /\ n = nextSeq /\ x = Transition(Aligned(b, num[m]), kind[m])
    OBVIOUS
  <1>6. b \in SoundBuffer /\ Sits(b, n) /\ num[m] \in Nat
    BY <1>1, <1>2 DEF IInv, Positions
  <1>7. Aligned(b, num[m]) \in SoundBuffer /\ x \in SoundBuffer
    BY <1>6, AlignedSound, TransitionSound
  <1>8. End(x) >= End(b)
    <2>1. End(x) = End(Aligned(b, num[m]))
      BY <1>7, HasTransition
    <2>. QED
      BY <1>6, <2>1, HasAligned
  <1>9. \A o \in Msg, p \in Nat : ~IsFile(o) /\ Has(b, o, p) => Has(x, o, p)
    <2>1. \A o \in Msg, p \in Nat : Has(b, o, p) => Has(Aligned(b, num[m]), o, p)
      BY <1>6, HasAligned
    <2>2. \A o \in Msg, p \in Nat : Has(Aligned(b, num[m]), o, p) => Has(x, o, p)
      BY <1>7, HasTransition
    <2>. QED
      BY <2>1, <2>2
  <1>10. n <= End(x)
    <2>1. n <= End(b) /\ End(b) \in Nat /\ End(x) \in Nat /\ n \in Int
      BY <1>6, <1>7, BufferFields DEF Sits, IInv, TypeOK, NoSeq
    <2>. QED
      BY <1>8, <2>1
  <1>11. Sits(x, n)'
    BY <1>5, <1>6, <1>7, <1>8, <1>9, <1>10, SitsStays
  <1>12. bufs'[1] = x /\ bufs' # <<>>
    BY <1>0, <1>2
  <1>. QED
    BY <1>0, <1>11, <1>12 DEF Positions, Sits

LEMMA PositionsStep ==
  ASSUME MaxBufs <= 1, MaxCalls <= 2, IInv, Queued, Warm, Numbers, Positions, [Next]_vars
  PROVE  Positions'
  <1>0. Msg \subseteq Co /\ Remover \subseteq Co /\ Deleter \subseteq Co
    BY DEF Co
  <1>1. ASSUME NEW c \in Co, NEW q, Enters(c, q), NEW w \in Quietly, Idles(c, w, q)
        PROVE  Positions'
    <2>1. /\ w \in Waits \cup {"returned", "raised"} /\ w \notin {"select", "insert"}
          /\ Goes(c, w, q) /\ pc[c] \notin {"select", "insert"}
          /\ UNCHANGED <<bufs, nextSeq, msgSeq, crashes>>
      BY <1>1 DEF Idles, Quietly, Waits, mem
    <2>2. /\ \A m \in Msg : row'[m] \in {row[m], NoRow}
          /\ \A m \in Msg : kind'[m] = kind[m] \/ pc[m] = "idle"
      BY <1>1 DEF Idles, db
    <2>. QED
      BY <1>1, <2>1, <2>2, PlainPositions
  <1>2. ASSUME NEW c \in Co, NEW q, Enters(c, q), NEW h, NEW n, Uses(c, h, n, q)
        PROVE  Positions'
    BY <1>2, UsesPositions
  <1>3. ASSUME NEW m \in Msg, Select(m) \/ Insert(m) \/ InsertFails(m)
        PROVE  Positions'
    BY <1>3, SelectPositions, InsertPositions, NeverFails
  <1>4. ASSUME NEW c \in Co, WriteStatus(c) \/ DeleteRows(c) \/ SoftDelete(c)
        PROVE  Positions'
    <2>1. /\ Enters(c, Tail(dbq)) /\ Goes(c, "returned", Tail(dbq))
          /\ pc[c] \notin {"select", "insert"}
      BY <1>4 DEF WriteStatus, DeleteRows, SoftDelete, Resumes, Enters, Goes, Return, Waits
    <2>2. UNCHANGED <<bufs, nextSeq, msgSeq, kind, crashes>>
      BY <1>4 DEF WriteStatus, DeleteRows, SoftDelete, mem, local
    <2>3. \A m \in Msg : row'[m] \in {row[m], NoRow}
      BY <1>4 DEF WriteStatus, DeleteRows, SoftDelete
    <2>4. "returned" \in Waits \cup {"returned", "raised"} /\ "returned" \notin {"select", "insert"}
      OBVIOUS
    <2>5. \A m \in Msg : kind'[m] = kind[m] \/ pc[m] = "idle"
      BY <2>2
    <2>. QED
      BY <2>1, <2>2, <2>3, <2>4, <2>5, PlainPositions
  <1>5. CASE BeginRun
    <2>1. /\ cur = 1 /\ Len(bufs) = 1 /\ bufs \in Seq(SoundBuffer)
          /\ bufs' = [bufs EXCEPT ![cur].done = FALSE, ![cur].state = "running"]
          /\ UNCHANGED <<nextSeq, msgSeq, row, kind, pc, crashes>>
      BY <1>5, OneDict DEF BeginRun, IInv, db, local
    <2>2. /\ bufs # <<>> /\ bufs' # <<>>
          /\ bufs'[1].msgs = bufs[1].msgs /\ bufs'[1].base = bufs[1].base
      BY <2>1 DEF SoundBuffer, Buffer
    <2>. QED
      BY <2>1, <2>2 DEF Positions, Sits, Has, End, Placed, Place, Pending, Stored, IsFile
  <1>6. CASE Expire \/ UNCHANGED vars
    <2>1. UNCHANGED <<bufs, nextSeq, msgSeq, row, kind, pc, crashes>>
      BY <1>6 DEF Expire, vars, db, local
    <2>. QED
      BY <2>1 DEF Positions, Sits, Has, End, Placed, Place, Pending, Stored, IsFile
  <1>7. CASE Crash
    <2>1. crashes' # 0
      BY <1>7, ConstantsAssumption DEF Crash, IInv, TypeOK
    <2>. QED
      BY <2>1 DEF Positions
  <1>. QED
    BY <1>0, <1>1, <1>2, <1>3, <1>4, <1>5, <1>6, <1>7, WarmSteps

-----------------------------------------------------------------------------
(* What a reader was owed when it asked stays in the table, and it is either *)
(* answered from there or from a list that has it at a position not before   *)
(* its number.                                                               *)

\* The reader has its messages, or asked for none
Seen == {"returned", "owner", "readstate", "readseq"}

Owes(r, m) ==
    ~IsFile(m) => Stored(m) /\ (pc[r] \in Seen /\ row[m] >= after[r] => m \in out[r])

Tended(r) ==
    /\ pc[r] \in {"idle", "cold", "fallback"} \cup Seen
    /\ pc[r] = "idle" => before[r] = {}
    /\ \A m \in before[r] : pc[m] # "idle" /\ Owes(r, m)

Answers == crashes = 0 => \A r \in Reader : Tended(r)

LEMMA ProceedMoves ==
  ASSUME NEW c \in Co, NEW b, NEW h, NEW n, NEW q, Proceed(c, b, h, n, q)
  PROVE  /\ UNCHANGED <<hist, row, crashes>>
         /\ \E w \in {"returned", "select", "status", "delete"} :
                pc' = [pc EXCEPT ![c] = w] /\ (c \in Reader => w = "returned")
  <1>1. UNCHANGED <<hist, row, crashes>>
    BY DEF Proceed, db
  <1>2. CASE c \in Reader
    <2>1. Answer(c, h, n, q)
      BY <1>2, ConstantsAssumption DEF Proceed
    <2>. QED
      BY <1>1, <2>1 DEF Answer, Return
  <1>3. CASE c \notin Reader
    <2>1. \E w \in {"returned", "select", "status", "delete"} : pc' = [pc EXCEPT ![c] = w]
      BY <1>3 DEF Proceed, AddStream, AddNumbered, Mark, Remove, Await, Return
    <2>. QED
      BY <1>1, <1>3, <2>1
  <1>. QED
    BY <1>2, <1>3

\* A call that has begun keeps its message's kind, and its row once it is
\* written, unless the message is a file.
LEMMA RowsStay ==
  ASSUME MaxBufs <= 1, IInv, Queued, Warm, [Next]_vars, NEW m \in Msg, pc[m] # "idle"
  PROVE  /\ pc'[m] # "idle" /\ kind'[m] = kind[m]
         /\ Stored(m) /\ ~IsFile(m) => row'[m] = row[m]
  <1>. DEFINE Stays == /\ pc'[m] # "idle" /\ kind'[m] = kind[m]
                       /\ Stored(m) /\ ~IsFile(m) => row'[m] = row[m]
  <1>0. m \in Co /\ pc \in [Co -> Waits \cup {"idle", "returned", "raised", "lost"}]
    BY DEF Co, IInv, TypeOK
  <1>1. ASSUME NEW c \in Co, NEW w, w # "idle", pc' = [pc EXCEPT ![c] = w],
               kind'[m] = kind[m] \/ (m = c /\ pc[c] = "idle"),
               Stored(m) /\ ~IsFile(m) => row'[m] = row[m]
        PROVE  Stays
    BY <1>0, <1>1
  <1>2. ASSUME NEW c \in Co, NEW q, Enters(c, q), NEW w \in Quietly, Idles(c, w, q)
        PROVE  Stays
    <2>1. pc' = [pc EXCEPT ![c] = w] /\ w # "idle" /\ UNCHANGED row
      BY <1>2 DEF Idles, Goes, Quietly, db
    <2>2. kind'[m] = kind[m] \/ (m = c /\ pc[c] = "idle")
      BY <1>2 DEF Idles
    <2>. QED
      BY <1>1, <2>1, <2>2
  <1>3. ASSUME NEW c \in Co, NEW q, Enters(c, q), NEW h, NEW n, Uses(c, h, n, q)
        PROVE  Stays
    <2>1. Proceed(c, 1, h, n, q) /\ (kind'[m] = kind[m] \/ (m = c /\ pc[c] = "idle"))
      BY <1>3 DEF Uses
    <2>2. UNCHANGED row /\ \E w \in {"returned", "select", "status", "delete"} :
                               pc' = [pc EXCEPT ![c] = w]
      BY <2>1, ProceedMoves
    <2>. QED
      BY <1>1, <2>1, <2>2
  <1>4. ASSUME NEW o \in Msg, Select(o) \/ Insert(o) \/ InsertFails(o)
        PROVE  Stays
    <2>1. o \in Co /\ UNCHANGED kind
          /\ \E w \in {"insert", "status", "returned", "raised"} : pc' = [pc EXCEPT ![o] = w]
      BY <1>4 DEF Select, Insert, InsertFails, Await, Return, Co, local
    <2>2. ASSUME Stored(m) PROVE row'[m] = row[m]
      <3>1. CASE Select(o) \/ InsertFails(o)
        BY <3>1 DEF Select, InsertFails, db
      <3>2. CASE Insert(o)
        <4>1. row' = [row EXCEPT ![o] = num[o]] /\ pc[o] = "insert"
          BY <3>2 DEF Insert, Resumes
        <4>2. o # m
          BY <2>2, <4>1 DEF IInv, Unwritten, Early, Stored
        <4>. QED
          BY <4>1, <4>2 DEF IInv, TypeOK
      <3>. QED
        BY <1>4, <3>1, <3>2
    <2>. QED
      BY <1>1, <2>1, <2>2
  <1>5. ASSUME NEW c \in Co, WriteStatus(c) \/ DeleteRows(c) \/ SoftDelete(c)
        PROVE  Stays
    <2>1. pc' = [pc EXCEPT ![c] = "returned"] /\ UNCHANGED kind
      BY <1>5 DEF WriteStatus, DeleteRows, SoftDelete, Return, local
    <2>2. ~IsFile(m) => row'[m] = row[m]
      BY <1>5 DEF WriteStatus, DeleteRows, SoftDelete
    <2>. QED
      BY <1>1, <2>1, <2>2
  <1>6. CASE BeginRun \/ Expire \/ UNCHANGED vars
    BY <1>6 DEF BeginRun, Expire, vars, db, local
  <1>7. CASE Crash
    BY <1>0, <1>7 DEF Crash
  <1>8. Remover \subseteq Co /\ Deleter \subseteq Co
    BY DEF Co
  <1>. QED
    BY <1>2, <1>3, <1>4, <1>5, <1>6, <1>7, <1>8, WarmSteps

\* Steps of get_history, and those that change nothing of a reader but where
\* it stands in _ensure_buf
LEMMA ReaderSteps ==
  ASSUME IInv, [Next]_vars
  PROVE  \/ \E r \in Reader, a \in After : GetFromMemory(r, a) \/ GetFromDb(r, a)
         \/ \E r \in Reader : Fallback(r) \/ ColdRead(r)
         \/ Crash
         \/ /\ UNCHANGED <<hist, crashes>>
            /\ \A r \in Reader : \/ pc'[r] = pc[r]
                                 \/ pc'[r] \in Seen /\ pc[r] \notin {"cold", "fallback"}
  <1>. DEFINE Others == /\ UNCHANGED <<hist, crashes>>
                        /\ \A r \in Reader : \/ pc'[r] = pc[r]
                                             \/ pc'[r] \in Seen /\ pc[r] \notin {"cold", "fallback"}
  <1>0. pc \in [Co -> Waits \cup {"idle", "returned", "raised", "lost"}] /\ Reader \subseteq Co
    BY DEF IInv, TypeOK, Co
  <1>1. ASSUME NEW c \in Co, UNCHANGED <<hist, crashes>>, NEW w, pc' = [pc EXCEPT ![c] = w],
               c \in Reader => w \in Seen /\ pc[c] \notin {"cold", "fallback"}
        PROVE  Others
    BY <1>0, <1>1
  <1>2. ASSUME NEW c \in Co, NEW b, NEW h, NEW n, NEW q, Proceed(c, b, h, n, q),
               pc[c] \notin {"cold", "fallback"}
        PROVE  Others
    <2>1. PICK w \in {"returned", "select", "status", "delete"} :
              pc' = [pc EXCEPT ![c] = w] /\ (c \in Reader => w = "returned")
      BY <1>2, ProceedMoves
    <2>2. UNCHANGED <<hist, crashes>>
      BY <1>2, ProceedMoves
    <2>. QED
      BY <1>1, <1>2, <2>1, <2>2 DEF Seen
  <1>3. ASSUME NEW c \in Co, NEW w, NEW q, Wait(c, w, q), pc[c] \notin {"cold", "fallback"},
               c \in Reader => w \in Seen
        PROVE  Others
    <2>1. UNCHANGED <<hist, crashes>> /\ pc' = [pc EXCEPT ![c] = w]
      BY <1>3 DEF Wait, Await
    <2>. QED
      BY <1>1, <1>3, <2>1
  <1>4. ASSUME NEW m \in Msg, Add(m) \/ Select(m) \/ Insert(m) \/ InsertFails(m) PROVE Others
    <2>1. m \in Co /\ m \notin Reader
      BY ConstantsAssumption DEF Co
    <2>2. CASE Add(m)
      <3>1. pc[m] = "idle"
        BY <2>2 DEF Add, Starts
      <3>. QED
        BY <1>2, <1>3, <2>1, <2>2, <3>1 DEF Add
    <2>3. CASE Select(m) \/ Insert(m) \/ InsertFails(m)
      <3>1. UNCHANGED <<hist, crashes>> /\ \E w : pc' = [pc EXCEPT ![m] = w]
        BY <2>3 DEF Select, Insert, InsertFails, Await, Return, local, hist
      <3>. QED
        BY <1>1, <2>1, <3>1
    <2>. QED
      BY <1>4, <2>2, <2>3
  <1>5. ASSUME NEW c \in Co, OwnerRead(c) PROVE Others
    <2>1. pc[c] = "owner" /\ "readstate" \in Seen
      BY <1>5 DEF OwnerRead, Resumes, Seen
    <2>. QED
      BY <1>2, <1>3, <1>5, <2>1 DEF OwnerRead
  <1>6. ASSUME NEW c \in Co, StateRead(c) PROVE Others
    <2>1. pc[c] = "readstate" /\ "readseq" \in Seen
      BY <1>6 DEF StateRead, Resumes, Seen
    <2>2. CASE nextSeq = NoSeq
      <3>1. UNCHANGED <<hist, crashes>> /\ pc' = [pc EXCEPT ![c] = "readseq"]
        BY <1>6, <2>2 DEF StateRead, Await
      <3>. QED
        BY <1>1, <2>1, <3>1
    <2>3. CASE nextSeq # NoSeq
      BY <1>2, <1>6, <2>1, <2>3 DEF StateRead, Register
    <2>. QED
      BY <2>2, <2>3
  <1>7. ASSUME NEW c \in Co, SeqRead(c) PROVE Others
    <2>1. pc[c] = "readseq"
      BY <1>7 DEF SeqRead, Resumes
    <2>. QED
      BY <1>2, <1>7, <2>1 DEF SeqRead, Register
  <1>8. ASSUME NEW c \in Co, WriteStatus(c) PROVE Others
    <2>1. /\ pc[c] = "status" /\ "returned" \in Seen
          /\ UNCHANGED <<hist, crashes>> /\ pc' = [pc EXCEPT ![c] = "returned"]
      BY <1>8 DEF WriteStatus, Resumes, Return, local, hist, Seen
    <2>. QED
      BY <1>1, <2>1
  <1>9. ASSUME NEW c \in Marker \cup Remover, CallOther(c) PROVE Others
    <2>1. c \in Co /\ c \notin Reader /\ pc[c] = "idle"
      BY <1>9, ConstantsAssumption DEF Co, CallOther, Starts
    <2>. QED
      BY <1>2, <1>3, <1>9, <2>1 DEF CallOther
  <1>10. ASSUME NEW c \in Remover, DeleteRows(c) PROVE Others
    <2>1. /\ c \in Co /\ c \notin Reader
          /\ UNCHANGED <<hist, crashes>> /\ pc' = [pc EXCEPT ![c] = "returned"]
      BY <1>10, ConstantsAssumption DEF Co, DeleteRows, Return, local, hist
    <2>. QED
      BY <1>1, <2>1
  <1>11. ASSUME NEW c \in Deleter, CallDelete(c) \/ FindSession(c) \/ SoftDelete(c) PROVE Others
    <2>1. c \in Co /\ c \notin Reader
      BY ConstantsAssumption DEF Co
    <2>2. UNCHANGED <<hist, crashes>> /\ \E w : pc' = [pc EXCEPT ![c] = w]
      BY <1>11 DEF CallDelete, FindSession, SoftDelete, Wait, Await, Return, local, hist
    <2>. QED
      BY <1>1, <2>1, <2>2
  <1>12. ASSUME NEW r \in Reader, Look(r) PROVE Others
    <2>1. r \in Co /\ pc[r] = "idle" /\ "readstate" \in Seen
      BY <1>0, <1>12 DEF Look, Starts, Seen
    <2>. QED
      BY <1>3, <1>12, <2>1 DEF Look
  <1>13. CASE BeginRun \/ Expire \/ UNCHANGED vars
    BY <1>13 DEF BeginRun, Expire, vars, local, hist
  <1>14. CASE Next
    <2>1. \/ \E m \in Msg : Add(m) \/ Select(m) \/ Insert(m) \/ InsertFails(m)
          \/ \E c \in Co : OwnerRead(c) \/ StateRead(c) \/ SeqRead(c) \/ WriteStatus(c)
          \/ \E c \in Marker \cup Remover : CallOther(c)
          \/ \E c \in Remover : DeleteRows(c)
          \/ \E c \in Deleter : CallDelete(c) \/ FindSession(c) \/ SoftDelete(c)
          \/ \E r \in Reader, a \in After : GetFromMemory(r, a) \/ GetFromDb(r, a)
          \/ \E r \in Reader : Fallback(r) \/ ColdRead(r)
          \/ \E r \in Reader : Look(r)
          \/ BeginRun \/ Expire \/ Crash
      BY <1>14, Zenon DEF Next
    <2>2. (\E c \in Co : OwnerRead(c) \/ StateRead(c) \/ SeqRead(c) \/ WriteStatus(c)) => Others
      BY <1>5, <1>6, <1>7, <1>8
    <2>3. (\E c \in Marker \cup Remover : CallOther(c)) \/ (\E c \in Remover : DeleteRows(c)) => Others
      BY <1>9, <1>10
    <2>. QED
      BY <1>4, <1>11, <1>12, <1>13, <2>1, <2>2, <2>3 DEF Others
  <1>. QED
    BY <1>13, <1>14 DEF Others

\* Answered from memory: after_index is not before the list's first position,
\* so what has at least that number is at a position that is asked for.
LEMMA FromMemory ==
  ASSUME IInv, Warm, Positions, crashes = 0,
         NEW r \in Reader, NEW a \in After, GetFromMemory(r, a),
         NEW m \in Msg, ~IsFile(m), Stored(m), row[m] >= a
  PROVE  m \in out'[r]
  <1>1. cur = 1 /\ bufs # <<>>
    BY OneDict DEF GetFromMemory
  <1>. PICK b : b = bufs[1]
    OBVIOUS
  <1>2. /\ Slice(b, a) # {} /\ out'[r] = {b.msgs[i] : i \in Slice(b, a)}
    BY <1>1 DEF GetFromMemory, IInv, TypeOK
  <1>3. a \in Nat /\ row[m] \in Nat
    BY ConstantsAssumption DEF IInv, TypeOK, Stored, NoRow
  <1>4. b \in SoundBuffer /\ Has(b, m, row[m])
    <2>1. ~Pending(m)
      BY DEF IInv, Unwritten, Early, Pending, Stored
    <2>2. Placed(m) /\ Place(m) = row[m]
      BY <2>1 DEF Placed, Place
    <2>. QED
      BY <1>1, <2>2 DEF IInv, Positions, Sits
  <1>5. b.base \in Nat /\ DOMAIN b.msgs = 1 .. Len(b.msgs) /\ Len(b.msgs) \in Nat
    BY <1>4, BufferFields
  <1>6. a >= b.base /\ Slice(b, a) = (a - b.base + 1) .. Len(b.msgs)
    BY <1>2, <1>3, <1>5 DEF Slice
  <1>7. PICK i \in DOMAIN b.msgs : b.msgs[i] = m /\ row[m] <= b.base + i - 1
    BY <1>3, <1>4, <1>5, <1>6 DEF Has
  <1>8. i \in Slice(b, a)
    BY <1>3, <1>5, <1>6, <1>7
  <1>. QED
    BY <1>2, <1>7, <1>8

LEMMA AnswersStep ==
  ASSUME MaxBufs <= 1, IInv, Queued, Warm, Positions, Answers, [Next]_vars
  PROVE  Answers'
  <1>0. /\ Reader \subseteq Co /\ pc \in [Co -> Waits \cup {"idle", "returned", "raised", "lost"}]
        /\ before \in [Reader -> SUBSET Msg] /\ out \in [Reader -> SUBSET Msg]
        /\ after \in [Reader -> Nat] /\ row \in [Msg -> Nat \cup {NoRow}]
    BY DEF IInv, TypeOK, Co
  <1>1. \A m \in Msg : pc[m] # "idle" =>
            /\ pc'[m] # "idle" /\ (IsFile(m)' <=> IsFile(m))
            /\ Stored(m) /\ ~IsFile(m) => Stored(m)' /\ row'[m] = row[m]
    BY RowsStay DEF IsFile, Stored
  <1>2. \A m \in Msg : Stored(m) => pc[m] # "idle"
    BY DEF IInv, Unwritten, Early, Stored
  <1>3. CASE Crash
    <2>1. crashes' # 0
      BY <1>3, ConstantsAssumption DEF Crash, IInv, TypeOK
    <2>. QED
      BY <2>1 DEF Answers
  <1>4. CASE ~Crash
    <2>1. crashes' = crashes
      BY <1>4, ReaderSteps DEF GetFromMemory, GetFromDb, Asks, Fallback, ColdRead
    <2>. SUFFICES ASSUME crashes = 0, NEW r \in Reader
                  PROVE  Tended(r)'
      BY <2>1 DEF Answers
    <2>2. /\ pc[r] \in {"idle", "cold", "fallback"} \cup Seen
          /\ pc[r] = "idle" => before[r] = {}
          /\ \A m \in before[r] : pc[m] # "idle" /\ Owes(r, m)
      BY DEF Answers, Tended
    <2>. DEFINE Owed(m) == pc'[m] # "idle" /\ (~IsFile(m)' => Stored(m)' /\ row'[m] = row[m] /\ Stored(m) /\ ~IsFile(m))
    <2>3. \A m \in before[r] : Owed(m)
      BY <1>0, <1>1, <2>2 DEF Owes
    <2>4. ASSUME pc'[r] \in {"idle", "cold", "fallback"} \cup Seen, pc'[r] # "idle",
                 \A m \in before'[r] :
                    /\ m \in Msg /\ Owed(m)
                    /\ pc'[r] \in Seen /\ ~IsFile(m) /\ Stored(m) /\ row[m] >= after'[r] => m \in out'[r]
          PROVE  Tended(r)'
      BY <2>4 DEF Owes, Tended
    <2>5. ASSUME NEW x \in Reader, NEW a \in After, GetFromMemory(x, a) \/ GetFromDb(x, a)
          PROVE  Tended(r)'
      <3>1. CASE x = r
        <4>1. /\ pc'[r] \in {"returned", "cold", "fallback"}
              /\ pc'[r] = "returned" => GetFromMemory(r, a)
              /\ before'[r] = {m \in Msg : Stored(m)} /\ after'[r] = a
          BY <1>0, <2>5, <3>1 DEF GetFromMemory, GetFromDb, Asks, Return, Await
        <4>2. ASSUME NEW m \in before'[r]
              PROVE  /\ m \in Msg /\ Owed(m)
                     /\ pc'[r] \in Seen /\ ~IsFile(m) /\ Stored(m) /\ row[m] >= after'[r] => m \in out'[r]
          <5>1. m \in Msg /\ Stored(m) /\ Owed(m)
            BY <1>1, <1>2, <4>1
          <5>2. pc'[r] \in Seen => pc'[r] = "returned"
            BY <4>1 DEF Seen
          <5>3. pc'[r] \in Seen /\ ~IsFile(m) /\ Stored(m) /\ row[m] >= after'[r] => m \in out'[r]
            BY <4>1, <5>1, <5>2, FromMemory
          <5>. QED
            BY <5>1, <5>3
        <4>3. pc'[r] \in {"idle", "cold", "fallback"} \cup Seen /\ pc'[r] # "idle"
          BY <4>1 DEF Seen
        <4>. QED
          BY <2>4, <4>2, <4>3
      <3>2. CASE x # r
        <4>1. /\ pc'[r] = pc[r] /\ before'[r] = before[r] /\ after'[r] = after[r]
              /\ out'[r] = out[r]
          BY <1>0, <2>5, <3>2 DEF GetFromMemory, GetFromDb, Asks, Return, Await
        <4>. QED
          BY <2>2, <2>3, <4>1 DEF Owes, Tended
      <3>. QED
        BY <3>1, <3>2
    <2>6. ASSUME NEW x \in Reader, Fallback(x) \/ ColdRead(x)
          PROVE  Tended(r)'
      <3>1. CASE x = r
        <4>1. /\ pc'[r] \in {"returned", "owner", "readstate"}
              /\ before'[r] = before[r] /\ after'[r] = after[r]
              /\ out'[r] = {m \in Msg : Stored(m) /\ row[m] >= after[r]}
          BY <1>0, <2>6, <3>1 DEF Fallback, ColdRead, Return, Await, RowsFrom
        <4>2. pc'[r] \in {"idle", "cold", "fallback"} \cup Seen /\ pc'[r] # "idle"
          BY <4>1 DEF Seen
        <4>3. before[r] \subseteq Msg
          BY <1>0
        <4>. QED
          BY <2>3, <2>4, <4>1, <4>2, <4>3
      <3>2. CASE x # r
        <4>1. /\ pc'[r] = pc[r] /\ before'[r] = before[r] /\ after'[r] = after[r]
              /\ out'[r] = out[r]
          BY <1>0, <2>6, <3>2 DEF Fallback, ColdRead, Return, Await
        <4>. QED
          BY <2>2, <2>3, <4>1 DEF Owes, Tended
      <3>. QED
        BY <2>6, <3>1, <3>2
    <2>7. ASSUME UNCHANGED <<hist, crashes>>,
                 pc'[r] = pc[r] \/ (pc'[r] \in Seen /\ pc[r] \notin {"cold", "fallback"})
          PROVE  Tended(r)'
      <3>1. before'[r] = before[r] /\ after'[r] = after[r] /\ out'[r] = out[r]
        BY <2>7 DEF hist
      <3>2. CASE pc[r] = "idle"
        BY <2>2, <2>7, <3>1, <3>2 DEF Seen, Tended
      <3>3. CASE pc[r] # "idle"
        <4>1. /\ pc'[r] \in {"idle", "cold", "fallback"} \cup Seen /\ pc'[r] # "idle"
              /\ pc'[r] \in Seen => pc[r] \in Seen
          BY <2>2, <2>7, <3>3 DEF Seen
        <4>. QED
          BY <2>2, <2>3, <3>1, <4>1 DEF Owes, Tended
      <3>. QED
        BY <3>2, <3>3
    <2>. QED
      BY <1>4, <2>5, <2>6, <2>7, ReaderSteps
  <1>. QED
    BY <1>3, <1>4

\* A reader gets all it asked for as long as the buffer has held the session
\* since its first message: positions in the list run ahead of numbers and
\* never behind, through eviction, stream events and removals.
THEOREM ReadersGetAll ==
  ASSUME MaxBufs <= 1, MaxCalls <= 2
  PROVE  Spec => []FreshHistoryComplete
  <1>1. Init => Positions /\ Answers
    BY DEF Init, Positions, Placed, Pending, Stored, Answers, Tended, Co
  <1>2. (IInv /\ Queued /\ Warm /\ Numbers) /\ (Positions /\ Answers) /\ [Next]_vars
            => (Positions /\ Answers)'
    BY PositionsStep, AnswersStep
  <1>3. Answers => FreshHistoryComplete
    BY DEF Answers, Tended, FreshHistoryComplete, HistoryComplete, Owes, Seen
  <1>. QED
    BY <1>1, <1>2, <1>3, AlwaysNumbered, PTL DEF Spec

-----------------------------------------------------------------------------
(* The replay: the messages with a row, in the order of their numbers.       *)

\* The seq of each message's row, no two alike
Distinct(rows) ==
    /\ rows \in [Msg -> Nat \cup {NoRow}]
    /\ \A m, o \in Msg : rows[m] # NoRow /\ rows[m] = rows[o] => m = o

With(rows)     == {m \in Msg : rows[m] # NoRow}
UpTo(rows, m)  == {o \in Msg : rows[o] # NoRow /\ rows[o] <= rows[m]}

\* What is numbered less is ranked less.
LEMMA RankOrder ==
  ASSUME NEW rows, Distinct(rows), NEW m \in With(rows), NEW o \in With(rows), rows[m] < rows[o]
  PROVE  Rank(rows, m) < Rank(rows, o)
  <1>1. rows[m] \in Nat /\ rows[o] \in Nat /\ \A p \in With(rows) : rows[p] \in Nat
    BY DEF Distinct, With, NoRow
  <1>2. UpTo(rows, m) \subseteq UpTo(rows, o) /\ o \in UpTo(rows, o) /\ o \notin UpTo(rows, m)
    BY <1>1 DEF UpTo, With
  <1>3. UpTo(rows, o) \subseteq Msg /\ IsFiniteSet(UpTo(rows, o))
    BY ConstantsAssumption, FS_Subset DEF UpTo
  <1>4. IsFiniteSet(UpTo(rows, m)) /\ Cardinality(UpTo(rows, m)) <= Cardinality(UpTo(rows, o))
        /\ Cardinality(UpTo(rows, m)) # Cardinality(UpTo(rows, o))
    BY <1>2, <1>3, FS_Subset
  <1>5. Cardinality(UpTo(rows, m)) \in Nat /\ Cardinality(UpTo(rows, o)) \in Nat
    BY <1>3, <1>4, FS_CardinalityType
  <1>. QED
    BY <1>4, <1>5 DEF Rank, UpTo

\* Ranks go from 1 to the number of rows, and each is had by one message.
LEMMA Ranks ==
  ASSUME NEW rows, Distinct(rows)
  PROVE  /\ Cardinality(With(rows)) \in Nat
         /\ \A m \in With(rows) : Rank(rows, m) \in 1 .. Cardinality(With(rows))
         /\ \A m, o \in With(rows) : Rank(rows, m) = Rank(rows, o) => m = o
         /\ \A i \in 1 .. Cardinality(With(rows)) : \E m \in With(rows) : Rank(rows, m) = i
  <1>. DEFINE S == With(rows)
              N == Cardinality(S)
              f == [m \in S |-> Rank(rows, m)]
  <1>1. IsFiniteSet(S) /\ N \in Nat
    <2>1. S \subseteq Msg
      BY DEF With
    <2>. QED
      BY <2>1, ConstantsAssumption, FS_Subset, FS_CardinalityType
  <1>2. ASSUME NEW m \in S PROVE Rank(rows, m) \in 1 .. N
    <2>1. UpTo(rows, m) \subseteq S /\ m \in UpTo(rows, m)
      BY DEF UpTo, With, Distinct, NoRow
    <2>2. /\ IsFiniteSet(UpTo(rows, m)) /\ Cardinality(UpTo(rows, m)) <= N
          /\ Cardinality(UpTo(rows, m)) \in Nat /\ Cardinality(UpTo(rows, m)) # 0
      BY <1>1, <2>1, FS_Subset, FS_CardinalityType, FS_EmptySet
    <2>. QED
      BY <1>1, <2>2 DEF Rank, UpTo
  <1>3. ASSUME NEW m \in S, NEW o \in S, Rank(rows, m) = Rank(rows, o) PROVE m = o
    <2>1. rows[m] \in Nat /\ rows[o] \in Nat
      BY DEF Distinct, With, NoRow
    <2>2. ~(rows[m] < rows[o]) /\ ~(rows[o] < rows[m])
      BY <1>1, <1>2, <1>3, RankOrder
    <2>3. rows[m] = rows[o]
      BY <2>1, <2>2
    <2>. QED
      BY <2>3 DEF Distinct, With
  <1>4. f \in Injection(S, 1 .. N)
    BY <1>2, <1>3 DEF Injection, IsInjective
  <1>5. IsFiniteSet(1 .. N) /\ Cardinality(1 .. N) = N
    BY <1>1, FS_Interval
  <1>6. f \in Surjection(S, 1 .. N)
    BY <1>4, <1>5, FS_Injection
  <1>7. \A i \in 1 .. N : \E m \in S : f[m] = i
    BY <1>6 DEF Surjection
  <1>. QED
    BY <1>1, <1>2, <1>3, <1>7

\* Each is at the place of its rank.
LEMMA ReplayRanks ==
  ASSUME NEW rows, Distinct(rows)
  PROVE  /\ Replay(rows) \in Seq(Msg) /\ Len(Replay(rows)) = Cardinality(With(rows))
         /\ DOMAIN Replay(rows) = 1 .. Cardinality(With(rows))
         /\ \A i \in 1 .. Cardinality(With(rows)) :
                Replay(rows)[i] \in With(rows) /\ Rank(rows, Replay(rows)[i]) = i
         /\ \A m \in With(rows) : Replay(rows)[Rank(rows, m)] = m
  <1>. DEFINE N == Cardinality(With(rows))
  <1>1. Replay(rows) = [i \in 1 .. N |->
                            CHOOSE m \in Msg : rows[m] # NoRow /\ Rank(rows, m) = i]
    BY DEF Replay, With
  <1>2. ASSUME NEW i \in 1 .. N
        PROVE  Replay(rows)[i] \in With(rows) /\ Rank(rows, Replay(rows)[i]) = i
    <2>1. \E m \in Msg : rows[m] # NoRow /\ Rank(rows, m) = i
      BY Ranks DEF With
    <2>2. Replay(rows)[i] = CHOOSE m \in Msg : rows[m] # NoRow /\ Rank(rows, m) = i
      BY <1>1
    <2>. QED
      BY <2>1, <2>2, Zenon DEF With
  <1>3. N \in Nat
    BY Ranks
  <1>4. Replay(rows) \in [1 .. N -> Msg]
    BY <1>1, <1>2 DEF With
  <1>5. ASSUME NEW m \in With(rows) PROVE Replay(rows)[Rank(rows, m)] = m
    <2>1. Rank(rows, m) \in 1 .. N
      BY Ranks
    <2>2. Replay(rows)[Rank(rows, m)] \in With(rows)
          /\ Rank(rows, Replay(rows)[Rank(rows, m)]) = Rank(rows, m)
      BY <1>2, <2>1
    <2>. QED
      BY <2>2, Ranks
  <1>. HIDE DEF N
  <1>6. Replay(rows) \in Seq(Msg) /\ Len(Replay(rows)) = N /\ DOMAIN Replay(rows) = 1 .. N
    BY <1>3, <1>4
  <1>. QED
    BY <1>2, <1>5, <1>6 DEF N

\* It has what has a row, in the order of numbers.
LEMMA ReplayHas ==
  ASSUME NEW rows, Distinct(rows)
  PROVE  /\ Replay(rows) \in Seq(Msg)
         /\ \A m \in Msg : Log!In(m, Replay(rows)) <=> m \in With(rows)
         /\ \A m, o \in Msg : Log!Before(m, o, Replay(rows))
                                <=> m \in With(rows) /\ o \in With(rows) /\ rows[m] < rows[o]
  <1>. DEFINE N == Cardinality(With(rows))
              s == Replay(rows)
  <1>1. s \in Seq(Msg) /\ DOMAIN s = 1 .. N /\ N \in Nat
    BY ReplayRanks, Ranks
  <1>2. \A i \in 1 .. N : s[i] \in With(rows) /\ Rank(rows, s[i]) = i
    BY ReplayRanks
  <1>3. \A m \in With(rows) : Rank(rows, m) \in 1 .. N /\ s[Rank(rows, m)] = m
    BY ReplayRanks, Ranks
  <1>. HIDE DEF N, s
  <1>4. \A m \in Msg : Log!In(m, s) <=> m \in With(rows)
    BY <1>1, <1>2, <1>3 DEF Log!In
  <1>5. ASSUME NEW m \in Msg, NEW o \in Msg, Log!Before(m, o, s)
        PROVE  m \in With(rows) /\ o \in With(rows) /\ rows[m] < rows[o]
    <2>1. PICK i, j \in 1 .. N : i < j /\ s[i] = m /\ s[j] = o
      BY <1>1, <1>5 DEF Log!Before
    <2>2. m \in With(rows) /\ o \in With(rows) /\ Rank(rows, m) = i /\ Rank(rows, o) = j
      BY <1>2, <2>1
    <2>3. rows[m] \in Nat /\ rows[o] \in Nat
      BY <2>2 DEF Distinct, With, NoRow
    <2>4. ~(rows[o] < rows[m])
      <3>1. ASSUME rows[o] < rows[m] PROVE FALSE
        <4>1. Rank(rows, o) < Rank(rows, m)
          BY <2>2, <3>1, RankOrder
        <4>. QED
          BY <2>1, <2>2, <4>1
      <3>. QED
        BY <3>1
    <2>5. rows[m] # rows[o]
      <3>1. m # o
        BY <1>1, <2>1, <2>2
      <3>. QED
        BY <2>2, <3>1 DEF Distinct, With
    <2>. QED
      BY <2>2, <2>3, <2>4, <2>5
  <1>6. ASSUME NEW m \in With(rows), NEW o \in With(rows), rows[m] < rows[o]
        PROVE  Log!Before(m, o, s)
    BY <1>1, <1>3, <1>6, RankOrder DEF Log!Before
  <1>. QED
    BY <1>1, <1>4, <1>5, <1>6 DEF s

\* A row with a larger seq than all there are comes last.
LEMMA ReplayAppends ==
  ASSUME NEW rows, Distinct(rows), NEW m \in Msg, rows[m] = NoRow, NEW n \in Nat,
         \A o \in With(rows) : rows[o] < n
  PROVE  /\ Distinct([rows EXCEPT ![m] = n])
         /\ Replay([rows EXCEPT ![m] = n]) = Append(Replay(rows), m)
  <1>. DEFINE new == [rows EXCEPT ![m] = n]
              N   == Cardinality(With(rows))
  <1>1. /\ new \in [Msg -> Nat \cup {NoRow}] /\ new[m] = n /\ n # NoRow
        /\ \A o \in Msg \ {m} : new[o] = rows[o]
    BY DEF Distinct, NoRow
  <1>2. With(new) = With(rows) \cup {m} /\ m \notin With(rows) /\ With(rows) \subseteq Msg
    BY <1>1 DEF With
  <1>3. \A o \in With(rows) : new[o] = rows[o] /\ rows[o] < n /\ rows[o] \in Nat /\ o # m
    BY <1>1, <1>2 DEF With, Distinct
  <1>4. Distinct(new)
    <2>1. ASSUME NEW o \in Msg, NEW p \in Msg, new[o] # NoRow, new[o] = new[p] PROVE o = p
      <3>1. CASE o = m /\ p # m
        BY <1>1, <1>3, <2>1, <3>1 DEF With
      <3>2. CASE o # m /\ p = m
        BY <1>1, <1>3, <2>1, <3>2 DEF With
      <3>3. CASE o # m /\ p # m
        BY <1>1, <2>1, <3>3 DEF Distinct
      <3>. QED
        BY <3>1, <3>2, <3>3
    <2>. QED
      BY <1>1, <2>1 DEF Distinct
  <1>. HIDE DEF new
  <1>5. N \in Nat /\ Cardinality(With(new)) = N + 1
    <2>1. IsFiniteSet(With(rows))
      BY <1>2, ConstantsAssumption, FS_Subset
    <2>. QED
      BY <1>2, <2>1, FS_AddElement, FS_CardinalityType
  <1>6. ASSUME NEW o \in With(rows) PROVE Rank(new, o) = Rank(rows, o)
    <2>1. UpTo(new, o) = UpTo(rows, o)
      BY <1>1, <1>2, <1>3, <1>6 DEF UpTo, With
    <2>. QED
      BY <2>1 DEF Rank, UpTo
  <1>7. Rank(new, m) = N + 1
    <2>1. UpTo(new, m) = With(new)
      BY <1>1, <1>2, <1>3 DEF UpTo, With
    <2>. QED
      BY <1>5, <2>1 DEF Rank, UpTo
  <1>8. /\ Replay(rows) \in Seq(Msg) /\ Len(Replay(rows)) = N
        /\ Replay(new) \in Seq(Msg) /\ Len(Replay(new)) = N + 1
    BY <1>4, <1>5, ReplayRanks
  <1>9. ASSUME NEW i \in 1 .. N PROVE Replay(new)[i] = Replay(rows)[i]
    <2>. PICK o : o = Replay(rows)[i]
      OBVIOUS
    <2>1. o \in With(rows) /\ Rank(rows, o) = i
      BY ReplayRanks
    <2>2. o \in With(new) /\ Rank(new, o) = i
      BY <1>2, <1>6, <2>1
    <2>. QED
      BY <1>4, <2>2, ReplayRanks
  <1>10. Replay(new)[N + 1] = m
    BY <1>2, <1>4, <1>7, ReplayRanks
  <1>. HIDE DEF N
  <1>11. Replay(new) = Append(Replay(rows), m)
    BY <1>5, <1>8, <1>9, <1>10
  <1>. QED
    BY <1>4, <1>11 DEF new

-----------------------------------------------------------------------------
(* The buffer implements the log.  Who has a number is in the log, so that a *)
(* step takes a message, stores one that was taken, behind all that is        *)
(* stored, removes the files, or does nothing to it.                          *)

InLog(m) == \E i \in DOMAIN log : log[i] = m
Logged   == \A m \in Msg : Placed(m) => InLog(m)

\* Nothing else than what is placed already is placed, but for c
OnlyPlaces(S) == \A m \in Msg : Placed(m)' => Placed(m) \/ m \in S

Leaves ==
    /\ UNCHANGED <<log, row>>
    /\ \A m \in Msg : InLog(m) => kind'[m] = kind[m]
    /\ OnlyPlaces({})

Takes(c) ==
    /\ ~InLog(c)
    /\ log' = Append(log, c)
    /\ \A m \in Msg : InLog(m) => kind'[m] = kind[m]
    /\ UNCHANGED row
    /\ OnlyPlaces({c})

Stores(m) ==
    /\ Pending(m) /\ msgSeq[m] \in Nat
    /\ row' = [row EXCEPT ![m] = msgSeq[m]]
    /\ UNCHANGED <<log, kind>>
    /\ OnlyPlaces({})

Removes ==
    /\ row' = [m \in Msg |-> IF IsFile(m) THEN NoRow ELSE row[m]]
    /\ UNCHANGED <<log, kind>>
    /\ OnlyPlaces({})

\* A call that goes on to nothing it would be placed by
LEMMA NotPlaced ==
  ASSUME IInv, NEW c \in Co, NEW w, w \notin {"select", "insert"} \/ pc[c] \in {"select", "insert"},
         pc' = [pc EXCEPT ![c] = w], \A m \in Msg : row'[m] \in {row[m], NoRow}
  PROVE  OnlyPlaces({})
  <1>1. \A m \in Msg : m \in Co
    BY DEF Co
  <1>2. \A m \in Msg : Pending(m)' => Pending(m)
    BY <1>1 DEF Pending, IInv, TypeOK
  <1>3. \A m \in Msg : Stored(m)' => Stored(m)
    BY DEF Stored
  <1>. QED
    BY <1>2, <1>3 DEF Placed, OnlyPlaces

LEMMA LogSteps ==
  ASSUME MaxBufs <= 1, MaxCalls <= 2, IInv, Queued, Warm, Numbers, [Next]_vars
  PROVE  \/ Leaves
         \/ \E c \in Msg : Takes(c) \/ Stores(c)
         \/ Removes
  <1>0. /\ Remover \subseteq Co /\ Deleter \subseteq Co /\ Msg \subseteq Co
        /\ \A m \in Msg : pc[m] \in NotYet => ~InLog(m)
    BY DEF Co, Numbers, Unlogged, InLog
  <1>1. ASSUME NEW c \in Co, NEW q, Enters(c, q), NEW w \in Quietly, Idles(c, w, q)
        PROVE  Leaves
    <2>1. /\ UNCHANGED <<log, row>> /\ pc' = [pc EXCEPT ![c] = w] /\ w \notin {"select", "insert"}
          /\ \A m \in Msg : row'[m] \in {row[m], NoRow}
      BY <1>1 DEF Idles, Goes, Quietly, db
    <2>2. \A m \in Msg : InLog(m) => kind'[m] = kind[m]
      BY <1>0, <1>1 DEF Idles, NotYet
    <2>3. OnlyPlaces({})
      BY <2>1, NotPlaced
    <2>. QED
      BY <2>1, <2>2, <2>3 DEF Leaves
  <1>2. ASSUME NEW c \in Co, NEW q, Enters(c, q), NEW h, NEW n, Uses(c, h, n, q)
        PROVE  Leaves \/ \E m \in Msg : Takes(m)
    <2>1. /\ Proceed(c, 1, h, n, q) /\ UNCHANGED row /\ pc[c] \in NotYet
          /\ \A m \in Msg : InLog(m) => kind'[m] = kind[m]
      BY <1>0, <1>2 DEF Uses, Proceed, NotYet, db
    <2>2. ASSUME c \in Msg, AddNumbered(c, 1, h, n, q) PROVE Takes(c)
      <3>1. log' = Append(log, c) /\ pc' = [pc EXCEPT ![c] = "select"]
        BY <2>2 DEF AddNumbered, Await
      <3>2. OnlyPlaces({c})
        BY <2>1, <3>1 DEF OnlyPlaces, Placed, Pending, Stored, Co, IInv, TypeOK
      <3>. QED
        BY <1>0, <2>1, <2>2, <3>1, <3>2 DEF Takes
    <2>3. ASSUME ~(c \in Msg /\ AddNumbered(c, 1, h, n, q)) PROVE Leaves
      <3>1. /\ UNCHANGED log
            /\ \E w \in {"returned", "status", "delete"} : pc' = [pc EXCEPT ![c] = w]
        BY <2>1, <2>3 DEF Proceed, AddStream, Mark, Remove, Answer, Await, Return
      <3>2. OnlyPlaces({})
        BY <2>1, <3>1, NotPlaced
      <3>. QED
        BY <2>1, <3>1, <3>2 DEF Leaves
    <2>. QED
      BY <2>2, <2>3
  <1>3. ASSUME NEW m \in Msg, Select(m) \/ Insert(m) \/ InsertFails(m)
        PROVE  Leaves \/ Stores(m)
    <2>1. CASE Select(m)
      <3>1. /\ UNCHANGED <<log, row, kind>> /\ pc' = [pc EXCEPT ![m] = "insert"]
            /\ pc[m] = "select"
        BY <2>1 DEF Select, Await, Resumes, db
      <3>2. OnlyPlaces({})
        BY <1>0, <3>1, NotPlaced
      <3>. QED
        BY <3>1, <3>2 DEF Leaves
    <2>2. CASE Insert(m)
      <3>1. Pending(m) /\ num[m] = msgSeq[m] /\ msgSeq[m] \in Nat
        BY <2>2 DEF Insert, Resumes, Pending, Numbers, Numbered, IInv, TypeOK
      <3>2. /\ row' = [row EXCEPT ![m] = msgSeq[m]] /\ UNCHANGED <<log, kind>>
            /\ \E w \in {"status", "returned"} : pc' = [pc EXCEPT ![m] = w]
        BY <2>2, <3>1 DEF Insert, Await, Return
      <3>3. OnlyPlaces({})
        <4>1. \A o \in Msg : Pending(o)' => Pending(o)
          BY <1>0, <3>2 DEF Pending, IInv, TypeOK
        <4>2. \A o \in Msg : Stored(o)' => Stored(o) \/ o = m
          BY <3>2 DEF Stored, IInv, TypeOK
        <4>. QED
          BY <3>1, <4>1, <4>2 DEF OnlyPlaces, Placed
      <3>. QED
        BY <3>1, <3>2, <3>3 DEF Stores
    <2>. QED
      BY <1>3, <2>1, <2>2, NeverFails
  <1>4. ASSUME NEW c \in Co, WriteStatus(c) \/ SoftDelete(c) PROVE Leaves
    <2>1. UNCHANGED <<log, row, kind>> /\ pc' = [pc EXCEPT ![c] = "returned"]
      BY <1>4 DEF WriteStatus, SoftDelete, Return, local
    <2>2. OnlyPlaces({})
      BY <2>1, NotPlaced
    <2>. QED
      BY <2>1, <2>2 DEF Leaves
  <1>5. ASSUME NEW c \in Co, DeleteRows(c) PROVE Removes
    <2>1. /\ UNCHANGED <<log, kind>> /\ pc' = [pc EXCEPT ![c] = "returned"]
          /\ row' = [m \in Msg |-> IF IsFile(m) THEN NoRow ELSE row[m]]
      BY <1>5 DEF DeleteRows, Return, local
    <2>2. OnlyPlaces({})
      BY <2>1, NotPlaced
    <2>. QED
      BY <2>1, <2>2 DEF Removes
  <1>6. CASE BeginRun \/ Expire \/ UNCHANGED vars
    BY <1>6 DEF BeginRun, Expire, vars, db, local, Leaves, OnlyPlaces, Placed, Pending, Stored
  <1>7. CASE Crash
    <2>1. UNCHANGED <<log, row, kind>> /\ \A c \in Co : pc'[c] \in {"lost", pc[c]}
      BY <1>7 DEF Crash
    <2>2. OnlyPlaces({})
      BY <1>0, <2>1 DEF OnlyPlaces, Placed, Pending, Stored
    <2>. QED
      BY <2>1, <2>2 DEF Leaves
  <1>. QED
    BY <1>0, <1>1, <1>2, <1>3, <1>4, <1>5, <1>6, <1>7, WarmSteps

LEMMA InLogStays ==
  ASSUME IInv, NEW m, InLog(m), UNCHANGED log \/ \E c \in Msg : log' = Append(log, c)
  PROVE  InLog(m)'
  <1>1. PICK i \in DOMAIN log : log[i] = m
    BY DEF InLog
  <1>2. log \in Seq(Msg)
    BY DEF IInv, TypeOK
  <1>3. ASSUME NEW c \in Msg, log' = Append(log, c) PROVE i \in DOMAIN log' /\ log'[i] = m
    BY <1>1, <1>2, <1>3
  <1>. QED
    BY <1>1, <1>3 DEF InLog

LEMMA LoggedStep ==
  ASSUME MaxBufs <= 1, MaxCalls <= 2, IInv, Queued, Warm, Numbers, Logged, [Next]_vars
  PROVE  Logged'
  <1>1. \/ UNCHANGED log /\ OnlyPlaces({})
        \/ \E c \in Msg : log' = Append(log, c) /\ OnlyPlaces({c})
    BY LogSteps DEF Leaves, Takes, Stores, Removes
  <1>2. CASE UNCHANGED log /\ OnlyPlaces({})
    BY <1>2, InLogStays DEF OnlyPlaces, Logged
  <1>3. ASSUME NEW c \in Msg, log' = Append(log, c), OnlyPlaces({c}) PROVE Logged'
    <2>1. InLog(c)'
      <3>1. Len(log) + 1 \in DOMAIN log' /\ log'[Len(log) + 1] = c
        BY <1>3 DEF IInv, TypeOK
      <3>. QED
        BY <3>1 DEF InLog
    <2>. QED
      BY <1>3, <2>1, InLogStays DEF OnlyPlaces, Logged
  <1>. QED
    BY <1>1, <1>2, <1>3

\* Of two that have numbers the one taken first has the smaller
LEMMA TakenFirst ==
  ASSUME IInv, Numbers, Logged, NEW m \in Msg, NEW o \in Msg, Placed(m), Placed(o),
         Place(m) < Place(o)
  PROVE  Log!Before(m, o, log)
  <1>1. PICK i, j \in DOMAIN log : log[i] = m /\ log[j] = o
    BY DEF Logged, InLog
  <1>2. DOMAIN log = 1 .. Len(log) /\ Len(log) \in Nat
    BY DEF IInv, TypeOK
  <1>3. Place(m) \in Nat /\ Place(o) \in Nat
    BY PlaceType
  <1>4. ~(j < i) /\ i # j
    BY <1>1, <1>3 DEF Numbers, LogOrder
  <1>. QED
    BY <1>1, <1>2, <1>4 DEF Log!Before

\* No two messages are stored under one seq.
LEMMA RowsDistinct ==
  ASSUME IInv, Numbers, Logged
  PROVE  Distinct(row)
  <1>1. ASSUME NEW m \in Msg, NEW o \in Msg, row[m] # NoRow, row[m] = row[o], m # o
        PROVE  FALSE
    <2>1. Placed(m) /\ Placed(o) /\ Place(m) = row[m] /\ Place(o) = row[m] /\ row[m] \in Nat
      <3>1. ~Pending(m) /\ ~Pending(o)
        BY <1>1 DEF IInv, Unwritten, Early, Pending
      <3>. QED
        BY <1>1, <3>1 DEF Placed, Place, Stored, IInv, TypeOK
    <2>2. PICK i, j \in DOMAIN log : log[i] = m /\ log[j] = o
      BY <2>1 DEF Logged, InLog
    <2>3. i \in Nat /\ j \in Nat /\ i # j
      BY <1>1, <2>2 DEF IInv, TypeOK
    <2>4. ~(i < j) /\ ~(j < i)
      BY <2>1, <2>2 DEF Numbers, LogOrder
    <2>. QED
      BY <2>3, <2>4
  <1>. QED
    BY <1>1 DEF Distinct, IInv, TypeOK

Files == {m \in Msg : IsFile(m) /\ InLog(m)}

LEMMA LogStep ==
  ASSUME MaxBufs <= 1, MaxCalls <= 2, IInv, Queued, Warm, Numbers, Logged, [Next]_vars
  PROVE  [Log!Next]_Log!logVars
  <1>0. Distinct(row) /\ log \in Seq(Msg)
    BY RowsDistinct DEF IInv, TypeOK
  <1>1. /\ Replay(row) \in Seq(Msg)
        /\ \A m \in Msg : Log!In(m, Replay(row)) <=> m \in With(row)
        /\ \A m, o \in Msg : Log!Before(m, o, Replay(row))
                               <=> m \in With(row) /\ o \in With(row) /\ row[m] < row[o]
    BY <1>0, ReplayHas
  <1>2. ASSUME UNCHANGED <<log, row>> PROVE log' = log /\ Replay(row)' = Replay(row)
    BY <1>2 DEF Replay, Rank
  <1>3. CASE Leaves
    <2>1. Files' = Files
      BY <1>3 DEF Leaves, Files, IsFile, InLog
    <2>2. log' = log /\ Replay(row)' = Replay(row)
      BY <1>2, <1>3 DEF Leaves
    <2>. QED
      BY <2>1, <2>2 DEF Log!logVars, Files, InLog
  <1>4. ASSUME NEW c \in Msg, Takes(c) PROVE Log!Take(c)
    <2>1. Files' \in {Files, Files \cup {c}}
      <3>1. \A m \in Msg : InLog(m)' <=> InLog(m) \/ m = c
        BY <1>0, <1>4 DEF Takes, InLog
      <3>2. \A m \in Msg : InLog(m) => (IsFile(m)' <=> IsFile(m))
        BY <1>4 DEF Takes, IsFile
      <3>. QED
        BY <1>4, <3>1, <3>2 DEF Takes, Files
    <2>2. Replay(row)' = Replay(row) /\ log' = Append(log, c) /\ ~InLog(c)
      BY <1>4 DEF Takes, Replay, Rank
    <2>. QED
      BY <2>1, <2>2 DEF Log!Take, Log!In, Files, InLog
  <1>5. ASSUME NEW m \in Msg, Stores(m) PROVE Log!Store(m)
    <2>1. row[m] = NoRow /\ Placed(m) /\ Place(m) = msgSeq[m] /\ InLog(m)
      BY <1>5 DEF Stores, Pending, Placed, Place, IInv, Unwritten, Early, Logged
    <2>2. \A o \in With(row) : row[o] < msgSeq[m]
      BY <1>5 DEF Stores, With, Numbers, Above, Stored
    <2>3. Replay(row)' = Append(Replay(row), m)
      <3>1. Replay([row EXCEPT ![m] = msgSeq[m]]) = Append(Replay(row), m)
        BY <1>0, <1>5, <2>1, <2>2, ReplayAppends DEF Stores
      <3>. QED
        BY <1>5, <3>1 DEF Stores
    <2>4. ASSUME NEW i \in DOMAIN Replay(row) PROVE Log!Before(Replay(row)[i], m, log)
      <3>. PICK o : o = Replay(row)[i]
        OBVIOUS
      <3>1. o \in With(row)
        BY <1>0, ReplayRanks
      <3>2. o \in Msg /\ Placed(o) /\ Place(o) = row[o]
        BY <3>1 DEF With, Placed, Place, Stored, Pending, IInv, Unwritten, Early
      <3>3. Place(o) < Place(m)
        BY <2>1, <2>2, <3>1, <3>2
      <3>. QED
        BY <2>1, <3>2, <3>3, TakenFirst
    <2>5. log' = log /\ Files' = Files
      BY <1>5 DEF Stores, Files, IsFile, InLog
    <2>6. Log!In(m, log) /\ ~Log!In(m, Replay(row))
      BY <1>1, <2>1 DEF InLog, Log!In, With
    <2>. QED
      BY <2>3, <2>4, <2>5, <2>6 DEF Log!Store, Files, InLog
  <1>6. CASE Removes
    <2>. PICK new : new = row'
      OBVIOUS
    <2>1. \A m \in Msg : new[m] = IF IsFile(m) THEN NoRow ELSE row[m]
      BY <1>6 DEF Removes
    <2>2. Distinct(new)
      BY <1>0, <1>6, <2>1 DEF Removes, Distinct
    <2>3. /\ Replay(new) \in Seq(Msg)
          /\ \A m \in Msg : Log!In(m, Replay(new)) <=> m \in With(new)
          /\ \A m, o \in Msg : Log!Before(m, o, Replay(new))
                                 <=> m \in With(new) /\ o \in With(new) /\ new[m] < new[o]
      BY <2>2, ReplayHas
    <2>4. \A m \in Msg : Log!In(m, Replay(new)) <=> Log!In(m, Replay(row)) /\ m \notin Files
      <3>1. \A m \in With(row) : InLog(m)
        BY DEF With, Logged, Placed, Stored
      <3>. QED
        BY <1>1, <2>1, <2>3, <3>1 DEF With, Files
    <2>5. \A m, o \in Msg : Log!Before(m, o, Replay(new)) => Log!Before(m, o, Replay(row))
      BY <1>1, <2>1, <2>3 DEF With
    <2>6. log' = log /\ Files' = Files /\ Replay(row)' = Replay(new)
      BY <1>6 DEF Removes, Files, IsFile, InLog
    <2>. QED
      BY <2>3, <2>4, <2>5, <2>6 DEF Log!RemoveFiles, Log!Next, Files, InLog
  <1>. QED
    BY <1>3, <1>4, <1>5, <1>6, LogSteps DEF Log!Next

\* A warm pair implements the log, for any number of messages, removals,
\* evictions and crashes: what a replay gives grows at its end only, in the order
\* in which add_message took the messages, and loses nothing but files.
THEOREM BufferIsLog ==
  ASSUME MaxBufs <= 1, MaxCalls <= 2
  PROVE  Spec => ImplementsLog
  <1>1. Init => Log!Init /\ Logged
    <2>. SUFFICES ASSUME Init PROVE Log!Init /\ Logged
      OBVIOUS
    <2>1. log = <<>> /\ \A m \in Msg : ~Placed(m) /\ row[m] = NoRow
      BY DEF Init, Placed, Pending, Stored, Co
    <2>2. Replay(row) = <<>>
      <3>1. Distinct(row) /\ With(row) = {}
        BY <2>1 DEF Init, Distinct, With
      <3>2. Len(Replay(row)) = 0 /\ Replay(row) \in Seq(Msg)
        BY <3>1, ReplayRanks, FS_EmptySet
      <3>. QED
        BY <3>2
    <2>. QED
      BY <2>1, <2>2 DEF Log!Init, Logged
  <1>2. (IInv /\ Queued /\ Warm /\ Numbers) /\ Logged /\ [Next]_vars => Logged'
    BY LoggedStep
  <1>3. IInv /\ Queued /\ Warm /\ Numbers /\ Logged /\ [Next]_vars => [Log!Next]_Log!logVars
    BY LogStep
  <1>. QED
    BY <1>1, <1>2, <1>3, AlwaysNumbered, PTL DEF Spec, ImplementsLog, Log!Spec
=============================================================================
