-------------------------- MODULE MCServices_proofs --------------------------
(***************************************************************************)
(* The properties of the run "services", for every value of the constants: *)
(* any sets of users, calls, tables and prompts, any bounds.                *)
(*                                                                         *)
(* The first three parts prove the properties of the skills, the           *)
(* containers and the bridges of a session.  The others have theorems in    *)
(* modules of their own.  The last part carries all of them over: the part  *)
(* that moves is chosen at the start, and is then a behaviour of its own    *)
(* specification, while a property says nothing of the parts at rest.       *)
(***************************************************************************)
EXTENDS MCServices, Sequences, FiniteSetTheorems, TLAPS

-----------------------------------------------------------------------------
(* Skills.  A handler writes to the file system first and to the database   *)
(* an await later, so a directory without a row is explained by the request *)
(* that is to register it, and that will remove it if that fails.           *)

\* A call that is at rest is nothing; what comes to register, comes by an upload, a
\* promotion or a scan; what comes to read the names, is about a user
CallsSound ==
    \A c \in Call :
        /\ Skills!At(c, "idle") => call[c] = Skills!Idle
        /\ Skills!At(c, "register") => \/ call[c].op \in {"upload", "scan"}
                                       \/ call[c].op = "promote" /\ call[c].place = Shared
        /\ Skills!At(c, "names") \/ Skills!At(c, "sync") => call[c].place \in User

\* A directory without a row of its source is being registered by a request, which
\* removes it when it fails
Registering ==
    \A p \in Skills!Place : dir[p] \in Skills!Real =>
        \/ row[Skills!Source(p)] # "none"
        \/ \E c \in Call : Skills!At(c, "register") /\ call[c].place = p /\ call[c].op # "scan"

Calls == [op : Skills!Ops, place : Skills!Place, step : Skills!Steps, seen : Skills!Status]

SkillsInv == Skills!TypeOK /\ CallsSound /\ Registering

\* At first nothing is there and every call is at rest
LEMMA SkillsInit == Skills!Init => SkillsInv
  <1> SUFFICES ASSUME Skills!Init PROVE SkillsInv
    OBVIOUS
  <1>1. Skills!Idle \in Calls
    BY DEF Skills!Idle, Calls, Skills!Ops, Skills!Place, Skills!Steps, Skills!Status
  <1>2. Skills!TypeOK
    BY <1>1 DEF Skills!Init, Skills!TypeOK, Calls, Skills!Entry, Skills!Sources,
       Skills!Status, Skills!Place
  <1> QED  BY <1>2 DEF Skills!Init, SkillsInv, CallsSound, Registering, Skills!At,
              Skills!Idle, Skills!Real

\* Call c alone moves, and is then o, about p, at s
Moves(c, o, p, s) ==
    /\ call' \in [Call -> Calls]
    /\ call'[c].op = o /\ call'[c].place = p /\ call'[c].step = s
    /\ \A d \in Call \ {c} : call'[d] = call[d]

\* What the operators that move a call do to it, as records are concerned
LEMMA CallMoves ==
  ASSUME Skills!TypeOK, NEW c \in Call
  PROVE  /\ \A o \in Skills!Ops, p \in Skills!Place, s \in Skills!Steps :
              Skills!Begin(c, o, p, s) => Moves(c, o, p, s)
         /\ \A s \in Skills!Steps : Skills!Goto(c, s) => Moves(c, call[c].op, call[c].place, s)
         /\ \A s \in Skills!Steps, a \in Skills!Status :
              Skills!Got(c, s, a) => Moves(c, call[c].op, call[c].place, s)
         /\ Skills!End(c) => /\ call' \in [Call -> Calls] /\ call'[c] = Skills!Idle
                             /\ \A d \in Call \ {c} : call'[d] = call[d]
         /\ call[c] \in Calls /\ call[c].place \in Skills!Place
         /\ call \in [Call -> Calls]
  <1>1. call[c] \in Calls /\ call \in [Call -> Calls] /\ call[c].place \in Skills!Place
    BY DEF Skills!TypeOK, Calls
  <1>2. Skills!Idle \in Calls
    BY DEF Skills!Idle, Calls, Skills!Ops, Skills!Place, Skills!Steps, Skills!Status
  <1>3. ASSUME NEW o \in Skills!Ops, NEW p \in Skills!Place, NEW s \in Skills!Steps,
               Skills!Begin(c, o, p, s)
        PROVE  Moves(c, o, p, s)
    <2> DEFINE new == [Skills!Idle EXCEPT !.op = o, !.place = p, !.step = s]
    <2>1. new \in Calls /\ new.op = o /\ new.place = p /\ new.step = s
      BY <1>2 DEF Calls
    <2> HIDE DEF new
    <2>2. call' = [call EXCEPT ![c] = new]
      BY <1>3 DEF Skills!Begin, new
    <2> QED  BY <1>1, <2>1, <2>2 DEF Moves
  <1>4. ASSUME NEW s \in Skills!Steps, Skills!Goto(c, s)
        PROVE  Moves(c, call[c].op, call[c].place, s)
    <2> DEFINE new == [call[c] EXCEPT !.step = s]
    <2>1. new \in Calls /\ new.op = call[c].op /\ new.place = call[c].place /\ new.step = s
      BY <1>1 DEF Calls
    <2> HIDE DEF new
    <2>2. call' = [call EXCEPT ![c] = new]
      BY <1>4 DEF Skills!Goto, new
    <2> QED  BY <1>1, <2>1, <2>2 DEF Moves
  <1>5. ASSUME NEW s \in Skills!Steps, NEW a \in Skills!Status, Skills!Got(c, s, a)
        PROVE  Moves(c, call[c].op, call[c].place, s)
    <2> DEFINE new == [call[c] EXCEPT !.step = s, !.seen = a]
    <2>1. new \in Calls /\ new.op = call[c].op /\ new.place = call[c].place /\ new.step = s
      BY <1>1 DEF Calls
    <2>3. [call EXCEPT ![c].step = s, ![c].seen = a] = [call EXCEPT ![c] = new]
      BY <1>1
    <2> HIDE DEF new
    <2>2. call' = [call EXCEPT ![c] = new]
      BY <1>5, <2>3 DEF Skills!Got
    <2> QED  BY <1>1, <2>1, <2>2 DEF Moves
  <1>6. Skills!End(c) => /\ call' \in [Call -> Calls] /\ call'[c] = Skills!Idle
                 /\ \A d \in Call \ {c} : call'[d] = call[d]
    BY <1>1, <1>2 DEF Skills!End
  <1> QED  BY <1>1, <1>3, <1>4, <1>5, <1>6

\* A call that moves to a step it may be at leaves the calls as they should be
LEMMA MovedSound ==
  ASSUME CallsSound, NEW c \in Call, NEW o, NEW p, NEW s, Moves(c, o, p, s),
         s # "idle",
         s = "register" => o \in {"upload", "scan"} \/ (o = "promote" /\ p = Shared),
         s \in {"names", "sync"} => p \in User
  PROVE  CallsSound'
  <1> SUFFICES ASSUME NEW d \in Call
               PROVE  /\ Skills!At(d, "idle")' => call'[d] = Skills!Idle
                      /\ Skills!At(d, "register")' => \/ call'[d].op \in {"upload", "scan"}
                                                      \/ call'[d].op = "promote" /\ call'[d].place = Shared
                      /\ Skills!At(d, "names")' \/ Skills!At(d, "sync")' => call'[d].place \in User
    BY DEF CallsSound
  <1>1. CASE d = c
    BY <1>1 DEF Moves, Skills!At
  <1>2. CASE d # c
    BY <1>2 DEF Moves, Skills!At, CallsSound
  <1> QED  BY <1>1, <1>2

\* So does a call that ends
LEMMA EndedSound ==
  ASSUME Skills!TypeOK, CallsSound, NEW c \in Call, Skills!End(c)
  PROVE  CallsSound'
  <1>1. call'[c] = Skills!Idle /\ \A d \in Call \ {c} : call'[d] = call[d]
    BY CallMoves
  <1>2. Skills!Idle.step = "idle"
    BY DEF Skills!Idle
  <1> QED  BY <1>1, <1>2 DEF CallsSound, Skills!At

\* A call moves that has registered nothing, and rows stay
LEMMA StillRegistering ==
  ASSUME Registering, NEW c \in Call, \A d \in Call \ {c} : call'[d] = call[d],
         ~(Skills!At(c, "register") /\ call[c].op # "scan"),
         \A s \in Skills!Sources : row[s] # "none" => row'[s] # "none",
         \A p \in Skills!Place : dir'[p] \in Skills!Real =>
             \/ dir[p] \in Skills!Real
             \/ call'[c].step = "register" /\ call'[c].place = p /\ call'[c].op # "scan"
  PROVE  Registering'
  <1> SUFFICES ASSUME NEW p \in Skills!Place, dir'[p] \in Skills!Real
               PROVE  \/ row'[Skills!Source(p)] # "none"
                      \/ \E d \in Call : Skills!At(d, "register")' /\ call'[d].place = p
                                         /\ call'[d].op # "scan"
    BY DEF Registering, Skills!Source
  <1>1. Skills!Source(p) \in Skills!Sources
    BY DEF Skills!Source, Skills!Sources
  <1>2. CASE dir[p] \in Skills!Real
    <2>1. CASE row[Skills!Source(p)] # "none"
      BY <1>1, <2>1
    <2>2. CASE row[Skills!Source(p)] = "none"
      <3>1. PICK d \in Call : Skills!At(d, "register") /\ call[d].place = p /\ call[d].op # "scan"
        BY <1>2, <2>2 DEF Registering
      <3>2. d # c /\ call'[d] = call[d]
        BY <3>1
      <3> QED  BY <3>1, <3>2 DEF Skills!At
    <2> QED  BY <2>1, <2>2
  <1>3. CASE dir[p] \notin Skills!Real
    BY <1>3 DEF Skills!At
  <1> QED  BY <1>2, <1>3

\* The directory is written to and the upload registers it, or the archive is bad
LEMMA ExtractIs ==
  ASSUME Skills!TypeOK, CallsSound, NEW c \in Call, NEW p \in Skills!Place, Skills!Extract(c, p)
  PROVE  /\ call' \in [Call -> Calls] /\ CallsSound'
         /\ \A d \in Call \ {c} : call'[d] = call[d]
         /\ \/ dir' = [dir EXCEPT ![p] = "none"] /\ call'[c] = Skills!Idle
            \/ \E e \in Skills!Real : /\ dir' = [dir EXCEPT ![p] = e]
                                      /\ call'[c].op = "upload" /\ call'[c].place = p
                                      /\ call'[c].step = "register"
  <1>1. CASE Skills!Put(p, "none") /\ Skills!End(c)
    BY <1>1, CallMoves, EndedSound DEF Skills!Put
  <1>2. CASE \E e \in Skills!Real : Skills!Put(p, e) /\ Skills!Begin(c, "upload", p, "register")
    <2>1. PICK e \in Skills!Real : Skills!Put(p, e) /\ Skills!Begin(c, "upload", p, "register")
      BY <1>2
    <2>2. Moves(c, "upload", p, "register")
      BY <2>1, CallMoves DEF Skills!Ops, Skills!Steps
    <2>3. CallsSound'
      BY <2>2, MovedSound
    <2> QED  BY <2>1, <2>2, <2>3 DEF Moves, Skills!Put
  <1> QED  BY <1>1, <1>2 DEF Skills!Extract

\* No entry but a user's may be a link, and a call leaves the user's own alone unless it
\* uploads or deletes it
Mine(c, u) == Skills!Mover(c).op \in {"upload", "delete"} /\ Skills!Mover(c).place = u

\* What is proved of a step in which call c moves
Fine(c) ==
    /\ call' \in [Call -> Calls] /\ CallsSound'
    /\ \A d \in Call \ {c} : call'[d] = call[d]
    /\ dir' \in [Skills!Place -> Skills!Entry] /\ dir'[Shared] # "link"
    /\ row' \in [Skills!Sources -> Skills!Status] /\ fresh' \subseteq User
    /\ Registering'
    /\ \A u \in User :
          dir[u] \in Skills!Real /\ call'[c] # call[c] /\ ~Mine(c, u) => dir'[u] = dir[u]

\* A step that touches no directory
LEMMA Quiet ==
  ASSUME SkillsInv, NEW c \in Call, UNCHANGED dir,
         call' \in [Call -> Calls], CallsSound', \A d \in Call \ {c} : call'[d] = call[d],
         ~(Skills!At(c, "register") /\ call[c].op # "scan"),
         row' \in [Skills!Sources -> Skills!Status],
         \A s \in Skills!Sources : row[s] # "none" => row'[s] # "none",
         fresh' \subseteq User
  PROVE  Fine(c)
  BY StillRegistering DEF Fine, SkillsInv, Skills!TypeOK

\* The move of call c to o, p, s, from a step that registers nothing, touches nothing
LEMMA QuietMove ==
  ASSUME SkillsInv, NEW c \in Call, NEW o, NEW p, NEW s, Moves(c, o, p, s),
         UNCHANGED <<dir, row, fresh>>, ~Skills!At(c, "register"),
         s # "idle",
         s = "register" => o \in {"upload", "scan"} \/ (o = "promote" /\ p = Shared),
         s \in {"names", "sync"} => p \in User
  PROVE  Fine(c)
  <1>1. CallsSound'
    BY MovedSound DEF SkillsInv
  <1> QED  BY <1>1, Quiet DEF Moves, SkillsInv, Skills!TypeOK

LEMMA QuietEnd ==
  ASSUME SkillsInv, NEW c \in Call, Skills!End(c), UNCHANGED <<dir, row, fresh>>,
         ~Skills!At(c, "register")
  PROVE  Fine(c)
  <1>1. CallsSound' /\ call' \in [Call -> Calls] /\ \A d \in Call \ {c} : call'[d] = call[d]
    BY EndedSound, CallMoves DEF SkillsInv
  <1> QED  BY <1>1, Quiet DEF SkillsInv, Skills!TypeOK

\* What the moves of a call have in common
LEMMA CallKnown ==
  ASSUME SkillsInv, NEW c \in Call
  PROVE  /\ Skills!Begins(c) => call[c] = Skills!Idle /\ call[c].step = "idle" /\ ~Skills!At(c, "register")
         /\ dir \in [Skills!Place -> Skills!Entry] /\ dir[Shared] # "link"
         /\ row \in [Skills!Sources -> Skills!Status] /\ fresh \subseteq User
         /\ User \subseteq Skills!Place /\ Shared \in Skills!Place /\ Shared \notin User
         /\ call[c].place \in Skills!Place
  BY ServicesAssumption, CallMoves DEF SkillsInv, Skills!TypeOK, CallsSound, Skills!Begins,
     Skills!At, Skills!Place

\* A step that writes to the directory of p, which it may leave to an upload
LEMMA ExtractFine ==
  ASSUME SkillsInv, NEW c \in Call, NEW p \in Skills!Place, Skills!Extract(c, p),
         UNCHANGED <<row, fresh>>,
         ~Skills!At(c, "register"),
         Skills!Begins(c) \/ (call[c].op = "upload" /\ call[c].place = p /\ call[c] # Skills!Idle)
  PROVE  Fine(c)
  <1>1. /\ call' \in [Call -> Calls] /\ CallsSound'
        /\ \A d \in Call \ {c} : call'[d] = call[d]
        /\ \/ dir' = [dir EXCEPT ![p] = "none"] /\ call'[c] = Skills!Idle
           \/ \E e \in Skills!Real : /\ dir' = [dir EXCEPT ![p] = e]
                                     /\ call'[c].op = "upload" /\ call'[c].place = p
                                     /\ call'[c].step = "register"
    BY ExtractIs DEF SkillsInv
  <1>2. \E e \in Skills!Real \cup {"none"} : dir' = [dir EXCEPT ![p] = e]
    BY <1>1
  <1>3. dir' \in [Skills!Place -> Skills!Entry] /\ dir'[Shared] # "link"
    BY <1>2, CallKnown DEF Skills!Entry, Skills!Real
  <1>4. \A q \in Skills!Place : dir'[q] \in Skills!Real =>
             \/ dir[q] \in Skills!Real
             \/ call'[c].step = "register" /\ call'[c].place = q /\ call'[c].op # "scan"
    BY <1>1, CallKnown DEF Skills!Real
  <1>5. Registering'
    BY <1>1, <1>4, StillRegistering DEF SkillsInv
  <1>6. ASSUME NEW u \in User, call'[c] # call[c], ~Mine(c, u)
        PROVE  dir'[u] = dir[u]
    <2>1. CASE u # p
      BY <1>2, <2>1, CallKnown
    <2>2. CASE u = p
      BY <1>1, <1>6, <2>2, CallKnown DEF Mine, Skills!Mover
    <2> QED  BY <2>1, <2>2
  <1> QED  BY <1>1, <1>3, <1>5, <1>6, CallKnown DEF Fine

\* The steps, one by one: uploads
LEMMA UploadFine ==
  ASSUME SkillsInv, NEW c \in Call, NEW p \in Skills!Place, Skills!Upload(c, p)
  PROVE  Fine(c)
  <1>1. CASE dir[p] = "full"
    <2>1. Moves(c, "upload", p, "lookup")
      BY <1>1, CallMoves DEF Skills!Upload, SkillsInv, Skills!Ops, Skills!Steps
    <2> QED  BY <1>1, <2>1, QuietMove, CallKnown DEF Skills!Upload
  <1>2. CASE dir[p] # "full"
    BY <1>2, ExtractFine, CallKnown DEF Skills!Upload
  <1> QED  BY <1>1, <1>2

LEMMA LookupFine ==
  ASSUME SkillsInv, NEW c \in Call, Skills!Lookup(c)
  PROVE  Fine(c)
  <1>1. \E a \in Skills!Status : Skills!Got(c, "decide", a)
    BY CallKnown DEF Skills!Lookup, Skills!Status
  <1>2. Moves(c, call[c].op, call[c].place, "decide")
    BY <1>1, CallMoves DEF SkillsInv, Skills!Steps
  <1> QED  BY <1>2, QuietMove DEF Skills!Lookup, Skills!At

LEMMA ResolveFine ==
  ASSUME SkillsInv, NEW c \in Call, Skills!ResolveConflict(c)
  PROVE  Fine(c)
  <1>1. CASE call[c].seen # "active" /\ dir[call[c].place] \in Skills!Real
    <2>1. call[c] # Skills!Idle
      BY DEF Skills!ResolveConflict, Skills!Idle
    <2> QED  BY <1>1, <2>1, ExtractFine, CallKnown DEF Skills!ResolveConflict, Skills!At
  <1>2. CASE ~(call[c].seen # "active" /\ dir[call[c].place] \in Skills!Real)
    BY <1>2, QuietEnd DEF Skills!ResolveConflict, Skills!At
  <1> QED  BY <1>1, <1>2

LEMMA RegisterFine ==
  ASSUME SkillsInv, NEW c \in Call, Skills!Register(c)
  PROVE  Fine(c)
  <1> DEFINE p == call[c].place
  <1>1. CallsSound' /\ call' \in [Call -> Calls] /\ call'[c] = Skills!Idle
        /\ \A d \in Call \ {c} : call'[d] = call[d]
    BY EndedSound, CallMoves DEF SkillsInv, Skills!Register
  <1>2. Skills!Source(p) \in Skills!Sources /\ "active" \in Skills!Status
    BY DEF Skills!Source, Skills!Sources, Skills!Status
  <1>3. row' = [row EXCEPT ![Skills!Source(p)] = "active"] /\ UNCHANGED dir
    BY DEF Skills!Register
  <1>4. /\ row' \in [Skills!Sources -> Skills!Status]
        /\ \A s \in Skills!Sources : row[s] # "none" => row'[s] # "none"
    BY <1>2, <1>3, CallKnown
  <1>5. Registering'
    <2> SUFFICES ASSUME NEW q \in Skills!Place, dir'[q] \in Skills!Real
                 PROVE  \/ row'[Skills!Source(q)] # "none"
                        \/ \E d \in Call : Skills!At(d, "register")' /\ call'[d].place = q
                                           /\ call'[d].op # "scan"
      BY DEF Registering, Skills!Source
    <2>1. Skills!Source(q) \in Skills!Sources
      BY DEF Skills!Source, Skills!Sources
    <2>2. CASE q = p
      <3>1. row'[Skills!Source(q)] = "active"
        BY <1>2, <1>3, <2>2, CallKnown
      <3> QED  BY <3>1
    <2>3. CASE q # p /\ row[Skills!Source(q)] # "none"
      BY <1>4, <2>1, <2>3
    <2>4. CASE q # p /\ row[Skills!Source(q)] = "none"
      <3>1. PICK d \in Call : Skills!At(d, "register") /\ call[d].place = q /\ call[d].op # "scan"
        BY <1>3, <2>4 DEF SkillsInv, Registering
      <3>2. call'[d] = call[d]
        BY <1>1, <2>4, <3>1
      <3> QED  BY <3>1, <3>2 DEF Skills!At
    <2> QED  BY <2>2, <2>3, <2>4
  <1>6. fresh' \subseteq User
    BY CallKnown DEF Skills!Register
  <1> QED  BY <1>1, <1>3, <1>4, <1>5, <1>6, CallKnown DEF Fine

LEMMA RegisterFailsFine ==
  ASSUME SkillsInv, NEW c \in Call, Skills!RegisterFails(c)
  PROVE  Fine(c)
  <1> DEFINE p == call[c].place
  <1>1. CallsSound' /\ call' \in [Call -> Calls] /\ call'[c] = Skills!Idle
        /\ \A d \in Call \ {c} : call'[d] = call[d]
    BY EndedSound, CallMoves DEF SkillsInv, Skills!RegisterFails
  <1>2. UNCHANGED <<row, fresh>> /\ Skills!At(c, "register")
    BY DEF Skills!RegisterFails
  <1>3. call[c] # Skills!Idle
    BY <1>2 DEF Skills!At, Skills!Idle
  <1>4. CASE call[c].op # "scan" /\ dir[p] \in Skills!Real
    <2>1. dir' = [dir EXCEPT ![p] = "none"]
      BY <1>4 DEF Skills!RegisterFails, Skills!Put
    <2>2. dir' \in [Skills!Place -> Skills!Entry] /\ dir'[Shared] # "link"
      BY <2>1, CallKnown DEF Skills!Entry
    <2>3. \A q \in Skills!Place : dir'[q] \in Skills!Real => q # p /\ dir'[q] = dir[q]
      BY <2>1, CallKnown DEF Skills!Real
    <2>4. Registering'
      <3> SUFFICES ASSUME NEW q \in Skills!Place, dir'[q] \in Skills!Real,
                          row'[Skills!Source(q)] = "none"
                   PROVE  \E d \in Call : Skills!At(d, "register")' /\ call'[d].place = q
                                         /\ call'[d].op # "scan"
        BY DEF Registering, Skills!Source
      <3>1. PICK d \in Call : Skills!At(d, "register") /\ call[d].place = q /\ call[d].op # "scan"
        BY <1>2, <2>3 DEF SkillsInv, Registering
      <3>2. call'[d] = call[d]
        BY <1>1, <2>3, <3>1
      <3> QED  BY <3>1, <3>2 DEF Skills!At
    <2>5. ASSUME NEW u \in User, ~Mine(c, u)
          PROVE  dir'[u] = dir[u]
      <3>1. CASE u # p
        BY <2>1, <3>1, CallKnown
      <3>2. CASE u = p
        <4>1. p # Shared
          BY <3>2, CallKnown
        <4>2. call[c].op = "upload"
          BY <1>2, <1>4, <4>1 DEF SkillsInv, CallsSound
        <4> QED  BY <1>3, <2>5, <3>2, <4>2 DEF Mine, Skills!Mover
      <3> QED  BY <3>1, <3>2
    <2> QED  BY <1>1, <1>2, <2>2, <2>4, <2>5, CallKnown DEF Fine
  <1>5. CASE ~(call[c].op # "scan" /\ dir[p] \in Skills!Real)
    <2>1. UNCHANGED dir
      BY <1>5 DEF Skills!RegisterFails
    <2>2. Registering'
      <3> SUFFICES ASSUME NEW q \in Skills!Place, dir'[q] \in Skills!Real,
                          row'[Skills!Source(q)] = "none"
                   PROVE  \E d \in Call : Skills!At(d, "register")' /\ call'[d].place = q
                                         /\ call'[d].op # "scan"
        BY DEF Registering, Skills!Source
      <3>1. PICK d \in Call : Skills!At(d, "register") /\ call[d].place = q /\ call[d].op # "scan"
        BY <1>2, <2>1 DEF SkillsInv, Registering
      <3>2. d # c
        BY <1>5, <2>1, <3>1
      <3> QED  BY <1>1, <3>1, <3>2 DEF Skills!At
    <2> QED  BY <1>1, <1>2, <2>1, <2>2, CallKnown DEF Fine
  <1> QED  BY <1>4, <1>5

LEMMA PromoteFine ==
  ASSUME SkillsInv, NEW c \in Call, NEW u \in User, Skills!Promote(c, u)
  PROVE  Fine(c)
  <1>1. Moves(c, "promote", Shared, "register")
    BY CallMoves, CallKnown DEF Skills!Promote, SkillsInv, Skills!Ops, Skills!Steps
  <1>2. CallsSound'
    BY <1>1, MovedSound DEF SkillsInv
  <1>3. dir' = [dir EXCEPT ![Shared] = "full"] /\ UNCHANGED <<row, fresh>> /\ Skills!Begins(c)
    BY DEF Skills!Promote, Skills!Put
  <1>4. dir' \in [Skills!Place -> Skills!Entry] /\ dir'[Shared] # "link"
    BY <1>3, CallKnown DEF Skills!Entry, Skills!Real
  <1>5. \A q \in Skills!Place : dir'[q] \in Skills!Real =>
             \/ dir[q] \in Skills!Real
             \/ call'[c].step = "register" /\ call'[c].place = q /\ call'[c].op # "scan"
    BY <1>1, <1>3, CallKnown DEF Moves
  <1>6. Registering'
    BY <1>1, <1>3, <1>5, StillRegistering, CallKnown DEF SkillsInv, Moves
  <1>7. \A v \in User : dir'[v] = dir[v]
    BY <1>3, CallKnown
  <1> QED  BY <1>1, <1>2, <1>3, <1>4, <1>6, <1>7, CallKnown DEF Fine, Moves

\* A step that leaves directories as they are or takes them away
LEMMA Taking ==
  ASSUME SkillsInv, NEW c \in Call,
         call' \in [Call -> Calls], CallsSound', \A d \in Call \ {c} : call'[d] = call[d],
         ~Skills!At(c, "register"), UNCHANGED row, fresh' \subseteq User,
         dir' \in [Skills!Place -> Skills!Entry], dir'[Shared] # "link",
         \A p \in Skills!Place : dir'[p] \in Skills!Real => dir[p] \in Skills!Real,
         \A u \in User : dir[u] \in Skills!Real /\ call'[c] # call[c] /\ ~Mine(c, u)
                            => dir'[u] = dir[u]
  PROVE  Fine(c)
  <1>1. Registering'
    BY StillRegistering DEF SkillsInv
  <1> QED  BY <1>1, CallKnown DEF Fine

\* Deletions
LEMMA DeleteSharedFine ==
  ASSUME SkillsInv, NEW c \in Call, Skills!DeleteShared(c)
  PROVE  Fine(c)
  <1>1. Moves(c, "delete", Shared, "deprecate")
    BY CallMoves, CallKnown DEF Skills!DeleteShared, SkillsInv, Skills!Ops, Skills!Steps
  <1>2. CallsSound'
    BY <1>1, MovedSound DEF SkillsInv
  <1>3. Skills!Begins(c) /\ UNCHANGED row
    BY DEF Skills!DeleteShared
  <1>4. CASE dir[Shared] = "none"
    BY <1>4, <1>1, QuietMove, CallKnown DEF Skills!DeleteShared
  <1>5. CASE dir[Shared] # "none"
    <2>1. /\ dir' = [p \in Skills!Place |-> IF p = Shared \/ dir[p] = "link" THEN "none" ELSE dir[p]]
          /\ fresh' = {}
      BY <1>5 DEF Skills!DeleteShared
    <2>2. /\ dir' \in [Skills!Place -> Skills!Entry] /\ dir'[Shared] # "link"
          /\ \A p \in Skills!Place : dir'[p] \in Skills!Real => dir[p] \in Skills!Real
      BY <2>1, CallKnown DEF Skills!Entry, Skills!Real
    <2>3. \A u \in User : dir[u] \in Skills!Real => dir'[u] = dir[u]
      BY <2>1, CallKnown DEF Skills!Real
    <2> QED  BY <1>1, <1>2, <1>3, <2>1, <2>2, <2>3, Taking, CallKnown DEF Moves
  <1> QED  BY <1>4, <1>5

LEMMA DeletePersonalFine ==
  ASSUME SkillsInv, NEW c \in Call, NEW u \in User, Skills!DeletePersonal(c, u)
  PROVE  Fine(c)
  <1>1. CASE dir[u] \in Skills!Real
    <2>1. Moves(c, "delete", u, "names")
      BY <1>1, CallMoves, CallKnown DEF Skills!DeletePersonal, SkillsInv, Skills!Ops,
         Skills!Steps
    <2>2. CallsSound'
      BY <2>1, MovedSound DEF SkillsInv
    <2>3. Skills!Begins(c) /\ UNCHANGED <<row, fresh>> /\ dir' = [dir EXCEPT ![u] = "none"]
      BY <1>1 DEF Skills!DeletePersonal, Skills!Put
    <2>4. /\ dir' \in [Skills!Place -> Skills!Entry] /\ dir'[Shared] # "link"
          /\ \A p \in Skills!Place : dir'[p] \in Skills!Real => dir[p] \in Skills!Real
      BY <2>3, CallKnown DEF Skills!Entry, Skills!Real
    <2>5. \A v \in User : ~Mine(c, v) => dir'[v] = dir[v]
      BY <2>1, <2>3, CallKnown DEF Mine, Skills!Mover, Moves
    <2> QED  BY <2>1, <2>2, <2>3, <2>4, <2>5, Taking, CallKnown DEF Moves
  <1>2. CASE dir[u] \notin Skills!Real
    <2>1. Moves(c, "delete", u, "deprecate")
      BY <1>2, CallMoves, CallKnown DEF Skills!DeletePersonal, SkillsInv, Skills!Ops,
         Skills!Steps
    <2> QED  BY <1>2, <2>1, QuietMove, CallKnown DEF Skills!DeletePersonal
  <1> QED  BY <1>1, <1>2

LEMMA DeprecateFine ==
  ASSUME SkillsInv, NEW c \in Call, Skills!Deprecate(c)
  PROVE  Fine(c)
  <1>1. Moves(c, call[c].op, call[c].place, "unshare")
    BY CallMoves DEF Skills!Deprecate, SkillsInv, Skills!Steps
  <1>2. CallsSound'
    BY <1>1, MovedSound DEF SkillsInv
  <1>3. /\ row' \in [Skills!Sources -> Skills!Status]
        /\ \A s \in Skills!Sources : row[s] # "none" => row'[s] # "none"
    BY CallKnown DEF Skills!Deprecate, Skills!Status
  <1> QED  BY <1>1, <1>2, <1>3, Quiet, CallKnown DEF Skills!Deprecate, Skills!At, Moves

LEMMA UnshareFine ==
  ASSUME SkillsInv, NEW c \in Call, Skills!Unshare(c)
  PROVE  Fine(c)
  <1>1. CallsSound' /\ call' \in [Call -> Calls] /\ \A d \in Call \ {c} : call'[d] = call[d]
    BY EndedSound, CallMoves DEF SkillsInv, Skills!Unshare
  <1>2. dir' = [dir EXCEPT ![Shared] = "none"] /\ UNCHANGED <<row, fresh>> /\ ~Skills!At(c, "register")
    BY DEF Skills!Unshare, Skills!Put, Skills!At
  <1>3. /\ dir' \in [Skills!Place -> Skills!Entry] /\ dir'[Shared] # "link"
        /\ \A p \in Skills!Place : dir'[p] \in Skills!Real => dir[p] \in Skills!Real
        /\ \A u \in User : dir'[u] = dir[u]
    BY <1>2, CallKnown DEF Skills!Entry, Skills!Real
  <1> QED  BY <1>1, <1>2, <1>3, Taking, CallKnown

\* What administrators do to the rows
LEMMA AdministerFine ==
  ASSUME SkillsInv, NEW c \in Call, NEW o \in {"retire", "meta"}, Skills!Administer(c, o)
  PROVE  Fine(c)
  <1>1. Moves(c, o, Shared, "lookup")
    BY CallMoves, CallKnown DEF Skills!Administer, SkillsInv, Skills!Ops, Skills!Steps
  <1> QED  BY <1>1, QuietMove, CallKnown DEF Skills!Administer

LEMMA AdministeredFine ==
  ASSUME SkillsInv, NEW c \in Call, Skills!Administered(c)
  PROVE  Fine(c)
  <1>1. CASE call[c].seen = "none"
    BY <1>1, QuietEnd DEF Skills!Administered, Skills!At
  <1>2. CASE call[c].seen # "none"
    <2>1. \E s \in {"status", "deprecate"} : Moves(c, call[c].op, call[c].place, s)
      BY <1>2, CallMoves DEF Skills!Administered, SkillsInv, Skills!Steps
    <2> QED  BY <1>2, <2>1, QuietMove DEF Skills!Administered, Skills!At
  <1> QED  BY <1>1, <1>2

LEMMA StatusFine ==
  ASSUME SkillsInv, NEW c \in Call, NEW s \in Skills!Status \ {"none"}, Skills!SetStatus(c, s)
  PROVE  Fine(c)
  <1>1. CallsSound' /\ call' \in [Call -> Calls] /\ \A d \in Call \ {c} : call'[d] = call[d]
    BY EndedSound, CallMoves DEF SkillsInv, Skills!SetStatus
  <1>2. /\ row' \in [Skills!Sources -> Skills!Status]
        /\ \A r \in Skills!Sources : row[r] # "none" => row'[r] # "none"
    BY CallKnown DEF Skills!SetStatus, Skills!Status
  <1> QED  BY <1>1, <1>2, Quiet, CallKnown DEF Skills!SetStatus, Skills!At

\* The sync at the start of a run, and the scan
LEMMA SessionFine ==
  ASSUME SkillsInv, NEW c \in Call, NEW u \in User, Skills!StartSession(c, u)
  PROVE  Fine(c)
  <1>1. Moves(c, "session", u, "names")
    BY CallMoves, CallKnown DEF Skills!StartSession, SkillsInv, Skills!Ops, Skills!Steps
  <1> QED  BY <1>1, QuietMove, CallKnown DEF Skills!StartSession

LEMMA NamesFine ==
  ASSUME SkillsInv, NEW c \in Call, Skills!ReadNames(c)
  PROVE  Fine(c)
  <1>1. \E a \in Skills!Status : Skills!Got(c, "sync", a)
    BY DEF Skills!ReadNames, Skills!Status
  <1>2. Moves(c, call[c].op, call[c].place, "sync")
    BY <1>1, CallMoves DEF SkillsInv, Skills!Steps
  <1>3. call[c].place \in User
    BY DEF SkillsInv, CallsSound, Skills!ReadNames
  <1> QED  BY <1>2, <1>3, QuietMove DEF Skills!ReadNames, Skills!At

LEMMA SyncFine ==
  ASSUME SkillsInv, NEW c \in Call, Skills!Sync(c)
  PROVE  Fine(c)
  <1> DEFINE u == call[c].place
  <1>1. u \in User /\ UNCHANGED row /\ ~Skills!At(c, "register")
    BY DEF SkillsInv, CallsSound, Skills!Sync, Skills!At
  <1>2. dir' = [dir EXCEPT ![u] = Skills!Synced(u, call[c].seen)] /\ fresh' \subseteq User
    BY <1>1, CallKnown DEF Skills!Sync, Skills!Put
  <1>3. CallsSound' /\ call' \in [Call -> Calls] /\ \A d \in Call \ {c} : call'[d] = call[d]
    <2>1. CASE call[c].op = "delete"
      <3>1. Moves(c, call[c].op, call[c].place, "deprecate")
        BY <2>1, CallMoves DEF Skills!Sync, SkillsInv, Skills!Steps
      <3> QED  BY <3>1, MovedSound DEF SkillsInv, Moves
    <2>2. CASE call[c].op # "delete"
      BY <2>2, EndedSound, CallMoves DEF SkillsInv, Skills!Sync
    <2> QED  BY <2>1, <2>2
  <1>4. Skills!Synced(u, call[c].seen) \in Skills!Entry
        /\ (dir[u] \in Skills!Real => Skills!Synced(u, call[c].seen) = dir[u])
        /\ (dir[u] \notin Skills!Real => Skills!Synced(u, call[c].seen) \notin Skills!Real)
    BY <1>1, CallKnown DEF Skills!Synced, Skills!Entry, Skills!Real
  <1>5. /\ dir' \in [Skills!Place -> Skills!Entry] /\ dir'[Shared] # "link"
        /\ \A p \in Skills!Place : dir'[p] \in Skills!Real => dir[p] \in Skills!Real
        /\ \A v \in User : dir[v] \in Skills!Real => dir'[v] = dir[v]
    BY <1>1, <1>2, <1>4, CallKnown
  <1> QED  BY <1>1, <1>2, <1>3, <1>5, Taking

LEMMA ScanFine ==
  ASSUME SkillsInv, NEW c \in Call, NEW p \in Skills!Place, Skills!Scan(c, p)
  PROVE  Fine(c)
  <1>1. Moves(c, "scan", p, "lookup")
    BY CallMoves, CallKnown DEF Skills!Scan, SkillsInv, Skills!Ops, Skills!Steps
  <1> QED  BY <1>1, QuietMove, CallKnown DEF Skills!Scan

LEMMA ScannedFine ==
  ASSUME SkillsInv, NEW c \in Call, Skills!Scanned(c)
  PROVE  Fine(c)
  <1>1. CASE call[c].seen = "none"
    <2>1. Moves(c, call[c].op, call[c].place, "register")
      BY <1>1, CallMoves DEF Skills!Scanned, SkillsInv, Skills!Steps
    <2> QED  BY <1>1, <2>1, QuietMove DEF Skills!Scanned, Skills!At
  <1>2. CASE call[c].seen # "none"
    BY <1>2, QuietEnd DEF Skills!Scanned, Skills!At
  <1> QED  BY <1>1, <1>2

\* Of every step of the skills some call is the mover
LEMMA NextFine ==
  ASSUME SkillsInv, Skills!Next
  PROVE  \E c \in Call : Fine(c)
  <1> PICK c \in Call :
          \/ \E p \in Skills!Place : Skills!Upload(c, p) \/ Skills!Scan(c, p)
          \/ \E u \in User : Skills!DeletePersonal(c, u) \/ Skills!StartSession(c, u) \/ Skills!Promote(c, u)
          \/ Skills!DeleteShared(c)
          \/ \E o \in {"retire", "meta"} : Skills!Administer(c, o)
          \/ Skills!Lookup(c) \/ Skills!ResolveConflict(c) \/ Skills!Administered(c) \/ Skills!Scanned(c)
          \/ Skills!Register(c) \/ Skills!RegisterFails(c)
          \/ Skills!Deprecate(c) \/ Skills!Unshare(c)
          \/ \E s \in Skills!Status \ {"none"} : Skills!SetStatus(c, s)
          \/ Skills!ReadNames(c) \/ Skills!Sync(c)
    BY DEF Skills!Next
  <1> QED  BY UploadFine, ScanFine, DeletePersonalFine, SessionFine, PromoteFine,
              DeleteSharedFine, AdministerFine, LookupFine, ResolveFine, AdministeredFine,
              ScannedFine, RegisterFine, RegisterFailsFine, DeprecateFine, UnshareFine,
              StatusFine, NamesFine, SyncFine

\* The invariant is inductive
LEMMA SkillsStep == SkillsInv /\ [Skills!Next]_Skills!vars => SkillsInv'
  <1> SUFFICES ASSUME SkillsInv, [Skills!Next]_Skills!vars PROVE SkillsInv'
    OBVIOUS
  <1>1. CASE Skills!Next
    BY <1>1, NextFine DEF Fine, SkillsInv, Skills!TypeOK, Calls
  <1>2. CASE UNCHANGED Skills!vars
    BY <1>2 DEF Skills!vars, SkillsInv, Skills!TypeOK, CallsSound, Skills!At, Registering,
       Skills!Source
  <1> QED  BY <1>1, <1>2

\* The mover is the only call that changes, and it leaves alone what is not its own
LEMMA SkillsKept == SkillsInv /\ [Skills!Next]_Skills!vars => [Skills!KeepsPersonal]_Skills!vars
  <1> SUFFICES ASSUME SkillsInv, Skills!Next PROVE Skills!KeepsPersonal
    OBVIOUS
  <1>1. PICK c \in Call : Fine(c)
    BY NextFine
  <1> SUFFICES ASSUME NEW u \in User, NEW d \in Call, dir[u] \in Skills!Real, call'[d] # call[d],
                      ~(Skills!Mover(d).op \in {"upload", "delete"} /\ Skills!Mover(d).place = u)
               PROVE  dir'[u] = dir[u]
    BY DEF Skills!KeepsPersonal
  <1>2. d = c
    BY <1>1 DEF Fine
  <1> QED  BY <1>1, <1>2 DEF Fine, Mine

\* A directory that is being registered, is so by a call
LEMMA SkillsNoOrphan == SkillsInv => Skills!NoOrphan
  BY DEF SkillsInv, Registering, Skills!NoOrphan

-----------------------------------------------------------------------------
(* Containers.  The entries of _last_activity that the idle monitor goes by. *)

\* At first no user has a container or an entry
LEMMA PoolInit == Pool!Init => Pool!TypeOK
  BY DEF Pool!Init, Pool!TypeOK, Pool!Status

\* Each container is in one of the states of Docker, and entries are of users
LEMMA PoolTypes == Pool!TypeOK /\ [Pool!Next]_Pool!vars => Pool!TypeOK'
<1> SUFFICES ASSUME Pool!TypeOK, [Pool!Next]_Pool!vars PROVE Pool!TypeOK'
  OBVIOUS
<1> USE DEF Pool!TypeOK, Pool!Status
<1>1. ASSUME NEW u \in User, Pool!Touch(u) PROVE Pool!TypeOK'
  BY <1>1 DEF Pool!Touch, Pool!Touches, Pool!Stamped
<1>2. ASSUME NEW u \in User, Pool!Ensure(u) PROVE Pool!TypeOK'
  <2>1. stamped' \subseteq User /\ lately' \subseteq User /\ missed' \subseteq User
    BY <1>2 DEF Pool!Ensure, Pool!Touches, Pool!Stamped
  <2>2. status' \in [User -> Pool!Status]
    BY <1>2 DEF Pool!Ensure, Pool!Becomes
  <2> QED
    BY <2>1, <2>2
<1>3. ASSUME NEW u \in User, Pool!Pause(u) PROVE Pool!TypeOK'
  BY <1>3 DEF Pool!Pause, Pool!Becomes
<1>4. ASSUME NEW u \in User, Pool!Destroy(u) PROVE Pool!TypeOK'
  BY <1>4 DEF Pool!Destroy, Pool!Becomes
<1>5. ASSUME NEW u \in User, Pool!TimePasses(u) PROVE Pool!TypeOK'
  BY <1>5 DEF Pool!TimePasses
<1>6. CASE Pool!MonitorChecks
  <2>1. status' \in [User -> Pool!Status] /\ lately' \subseteq User /\ missed' \subseteq User
    BY <1>6 DEF Pool!MonitorChecks
  <2>2. stamped' \subseteq User
    BY <1>6 DEF Pool!MonitorChecks
  <2> QED
    BY <2>1, <2>2
<1>7. CASE Pool!MonitorMisses
  BY <1>7 DEF Pool!MonitorMisses
<1>8. CASE Pool!Restart
  <2>1. status' \in [User -> Pool!Status]
    BY <1>8 DEF Pool!Restart
  <2> QED
    BY <1>8, <2>1 DEF Pool!Restart
<1>9. CASE UNCHANGED Pool!vars
  BY <1>9 DEF Pool!vars
<1> QED
  BY <1>1, <1>2, <1>3, <1>4, <1>5, <1>6, <1>7, <1>8, <1>9 DEF Pool!Next

\* Each user's container is in one of Docker's states, and the entries are of users.
LEMMA PoolTypeCorrect == Pool!Spec => []Pool!TypeOK
  BY PoolInit, PoolTypes, PTL DEF Pool!Spec

\* A container that still runs after a step has lost no entry in it, or misses it
LEMMA PoolStamped ==
  Pool!TypeOK /\ Pool!ActiveIsStamped /\ [Pool!Next]_Pool!vars => Pool!ActiveIsStamped'
<1> SUFFICES ASSUME Pool!TypeOK, Pool!ActiveIsStamped, [Pool!Next]_Pool!vars,
                    NEW v \in User, status'[v] = "running", v \in lately'
             PROVE  v \in stamped' \/ v \in missed'
  BY DEF Pool!ActiveIsStamped, Pool!running
<1> USE DEF Pool!TypeOK
<1>1. status[v] = "running" /\ v \in lately => v \in stamped \/ v \in missed
  BY DEF Pool!ActiveIsStamped, Pool!running
<1>2. ASSUME NEW u \in User, Pool!Touch(u) PROVE v \in stamped' \/ v \in missed'
  BY <1>1, <1>2 DEF Pool!Touch, Pool!Touches, Pool!Stamped
<1>3. ASSUME NEW u \in User, Pool!Ensure(u) PROVE v \in stamped' \/ v \in missed'
  <2>1. CASE v = u
    BY <1>3, <2>1 DEF Pool!Ensure, Pool!Touches, Pool!Stamped
  <2>2. CASE v # u
    <3>1. status'[v] = status[v]
      BY <1>3, <2>2 DEF Pool!Ensure, Pool!Becomes
    <3> QED
      BY <1>1, <1>3, <2>2, <3>1 DEF Pool!Ensure, Pool!Touches, Pool!Stamped
  <2> QED
    BY <2>1, <2>2
<1>4. ASSUME NEW u \in User, Pool!Pause(u) PROVE v \in stamped' \/ v \in missed'
  BY <1>1, <1>4 DEF Pool!Pause, Pool!Becomes
<1>5. ASSUME NEW u \in User, Pool!Destroy(u) PROVE v \in stamped' \/ v \in missed'
  BY <1>1, <1>5 DEF Pool!Destroy, Pool!Becomes
<1>6. ASSUME NEW u \in User, Pool!TimePasses(u) PROVE v \in stamped' \/ v \in missed'
  BY <1>1, <1>6 DEF Pool!TimePasses
\* The pruning spares every container that still runs after it
<1>7. CASE Pool!MonitorChecks
  <2>1. status[v] = "running"
    BY <1>7 DEF Pool!MonitorChecks
  <2>2. stamped' = stamped \cap Pool!running \/ stamped' = stamped
    BY <1>7 DEF Pool!MonitorChecks
  <2> QED
    BY <1>1, <1>7, <2>1, <2>2 DEF Pool!MonitorChecks, Pool!running
<1>8. CASE Pool!MonitorMisses
  BY <1>1, <1>8 DEF Pool!MonitorMisses
<1>9. CASE Pool!Restart
  BY <1>9 DEF Pool!Restart
<1>10. CASE UNCHANGED Pool!vars
  BY <1>1, <1>10 DEF Pool!vars
<1> QED
  BY <1>2, <1>3, <1>4, <1>5, <1>6, <1>7, <1>8, <1>9, <1>10 DEF Pool!Next

\* The entry of a user who was active lately is there while the container runs,
\* unless a listing has failed since: neither the pruning of the monitor nor a
\* pause, a destruction or a start takes it away.
LEMMA PoolKnows == Pool!Spec => []Pool!ActiveIsStamped
<1>1. Pool!Init => Pool!ActiveIsStamped
  BY DEF Pool!Init, Pool!ActiveIsStamped
<1> QED
  BY <1>1, PoolTypeCorrect, PoolStamped, PTL DEF Pool!Spec

\* Only the monitor stops containers, and only those it finds idle
LEMMA PoolStops ==
  Pool!TypeOK /\ Pool!ActiveIsStamped /\ [Pool!Next]_Pool!vars => Pool!StopsIdle
<1> SUFFICES ASSUME Pool!TypeOK, Pool!ActiveIsStamped, [Pool!Next]_Pool!vars,
                    NEW v \in User, status[v] = "running", status'[v] = "exited",
                    v \in lately
             PROVE  v \in missed
  BY DEF Pool!StopsIdle
<1> USE DEF Pool!TypeOK
<1>1. ASSUME NEW u \in User, Pool!Touch(u) \/ Pool!TimePasses(u) PROVE FALSE
  BY <1>1 DEF Pool!Touch, Pool!TimePasses
<1>2. ASSUME NEW u \in User, Pool!Ensure(u) PROVE FALSE
  BY <1>2 DEF Pool!Ensure, Pool!Becomes
<1>3. ASSUME NEW u \in User, Pool!Pause(u) \/ Pool!Destroy(u) PROVE FALSE
  BY <1>3 DEF Pool!Pause, Pool!Destroy, Pool!Becomes
\* Only what is idle is stopped, and who was active lately has an entry
<1>4. CASE Pool!MonitorChecks
  <2>1. v \in Pool!Idle
    BY <1>4 DEF Pool!MonitorChecks
  <2> QED
    BY <2>1 DEF Pool!Idle, Pool!ActiveIsStamped, Pool!running
<1>5. CASE Pool!MonitorMisses
  BY <1>5 DEF Pool!MonitorMisses
<1>6. CASE Pool!Restart
  BY <1>6 DEF Pool!Restart
<1>7. CASE UNCHANGED Pool!vars
  BY <1>7 DEF Pool!vars
<1> QED
  BY <1>1, <1>2, <1>3, <1>4, <1>5, <1>6, <1>7 DEF Pool!Next

\* The idle monitor never stops the container of a user who was active within
\* the time it allows, unless a listing has failed since that activity.
LEMMA PoolStopsIdle == Pool!Spec => [][Pool!StopsIdle]_Pool!vars
<1>1. Pool!Spec => [](Pool!TypeOK /\ Pool!ActiveIsStamped)
  BY PoolTypeCorrect, PoolKnows, PTL
<1>2. Pool!TypeOK /\ Pool!ActiveIsStamped /\ [Pool!Next]_Pool!vars => [Pool!StopsIdle]_Pool!vars
  BY PoolStops
<1> QED
  BY <1>1, <1>2, PTL DEF Pool!Spec

-----------------------------------------------------------------------------
(* Bridges.  What ends a run is a word the agent server said last, or the   *)
(* loss of the connection it works for: of the two a run may use, one is    *)
(* never in use, and no queue holds anything of another run or attempt.      *)

\* Nothing in q is one of S
Free(S, q) == \A i \in 1 .. Len(q) : q[i] \notin S

Ending == {"done", "error"}

\* The links of a run that has not begun, and of one that has sent nothing
Unused(r) == \A t \in Session!Try : /\ ~link[<<r, t>>].up /\ link[<<r, t>>].work = "none"
                                    /\ link[<<r, t>>].out = <<>>
Unsent(r) == /\ \A t \in Session!Try : link[<<r, t>>].work = "none" /\ link[<<r, t>>].out = <<>>
             /\ \A t \in Session!Try : task.at # "sending" \/ t # task.try => ~link[<<r, t>>].up
             /\ task.at = "sending" => bridge[r].ws = task.try

\* A run that streams: the agent server is done when a word of the end is under way,
\* the connection down when the bridge says so, and no other connection is in use
Streams(r) ==
    LET c == <<r, bridge[r].ws>>
    IN  /\ bridge[r].ws \in Session!Try
        /\ link[c].work # "none" => Free(Ending, bridge[r].queue) /\ Free(Ending, link[c].out)
        /\ link[c].up => bridge[r].receive # "over" /\ Free({"lost"}, bridge[r].queue)
        /\ Free({"lost"}, link[c].out)
        /\ \A t \in Session!Try : t # bridge[r].ws => ~link[<<r, t>>].up /\ link[<<r, t>>].work = "none"

\* A receive task has a connection to read
Served == \A r \in Session!Run : bridge[r].receive # "none" => bridge[r].ws \in Session!Try

\* Runs after the present one have not begun, it has no outcome while it is under way
InOrder ==
    /\ task.at # "idle" => task.run # Session!None /\ outcome[task.run] = "none"
    /\ \A r \in Session!Run : r > task.run => outcome[r] = "none" /\ Unused(r)

SessionInv ==
    /\ Session!TypeOK
    /\ Session!NeverReused
    /\ Served
    /\ InOrder
    /\ task.at \in {"starting", "connecting", "sending"} => Unsent(task.run)
    /\ task.at = "streaming" => Streams(task.run)
    /\ Session!EndedIsOver

Ats      == {"idle", "starting", "connecting", "sending", "streaming"}
Links    == [up : BOOLEAN, clean : BOOLEAN, work : {"none", "busy", "spoke"}, out : Seq(Session!Kind)]
Bridges  == [connected : BOOLEAN, ws : Session!Try \cup {Session!None}, receive : {"none", "on", "over"},
             queue : Seq(Session!Kind), error : BOOLEAN, port : 0 .. MaxStarts]
Tasks    == [at : Ats, run : Session!Run \cup {Session!None}, try : Session!Try]

\* What one word more, or less, does to what is not among words
LEMMA AppendFree ==
  ASSUME NEW S, NEW q \in Seq(Session!Kind), NEW k \in Session!Kind, Free(S, q), k \notin S
  PROVE  Free(S, Append(q, k))
  BY DEF Free

LEMMA TailFree ==
  ASSUME NEW S, NEW q \in Seq(Session!Kind), q # <<>>
  PROVE  /\ Tail(q) \in Seq(Session!Kind) /\ Head(q) \in Session!Kind
         /\ Free(S, q) => Free(S, Tail(q)) /\ Head(q) \notin S
  <1>1. Len(q) \in Nat /\ Len(q) > 0
    OBVIOUS
  <1> QED  BY <1>1 DEF Free

LEMMA NoneFree == \A S : Free(S, <<>>)
  BY DEF Free

\* The types, with the records named
LEMMA SessionTypes ==
  Session!TypeOK <=> /\ box \in [up : BOOLEAN, port : 0 .. MaxStarts]
                     /\ task \in Tasks
                     /\ reg \in Session!Run \cup {Session!None}
                     /\ bridge \in [Session!Run -> Bridges]
                     /\ link \in [Session!Run \X Session!Try -> Links]
                     /\ outcome \in [Session!Run -> Session!Outcome]
  BY DEF Session!TypeOK, Tasks, Ats, Bridges, Links

LEMMA SessionTypesNext ==
  ASSUME box' \in [up : BOOLEAN, port : 0 .. MaxStarts], task' \in Tasks,
         reg' \in Session!Run \cup {Session!None}, bridge' \in [Session!Run -> Bridges],
         link' \in [Session!Run \X Session!Try -> Links], outcome' \in [Session!Run -> Session!Outcome]
  PROVE  Session!TypeOK'
  BY DEF Session!TypeOK, Tasks, Ats, Bridges, Links

\* How a connection changes
LEMMA LinkChanged ==
  ASSUME NEW l \in Links
  PROVE  /\ LET n == [l EXCEPT !.up = FALSE, !.work = "none"]
            IN  n \in Links /\ n.up = FALSE /\ n.work = "none" /\ n.out = l.out
         /\ \A x \in BOOLEAN :
              LET n == [l EXCEPT !.up = FALSE, !.clean = x]
              IN  n \in Links /\ n.up = FALSE /\ n.work = l.work /\ n.out = l.out
         /\ LET n == [l EXCEPT !.up = FALSE, !.out = <<>>]
            IN  n \in Links /\ n.up = FALSE /\ n.work = l.work /\ n.out = <<>>
         /\ \A w \in {"none", "spoke"}, q \in Seq(Session!Kind) :
              LET n == [l EXCEPT !.work = w, !.out = q]
              IN  n \in Links /\ n.up = l.up /\ n.work = w /\ n.out = q
  <1> USE DEF Links
  <1>1. LET n == [l EXCEPT !.up = FALSE, !.work = "none"]
        IN  n \in Links /\ n.up = FALSE /\ n.work = "none" /\ n.out = l.out
    OBVIOUS
  <1>2. ASSUME NEW x \in BOOLEAN
        PROVE  LET n == [l EXCEPT !.up = FALSE, !.clean = x]
               IN  n \in Links /\ n.up = FALSE /\ n.work = l.work /\ n.out = l.out
    OBVIOUS
  <1>3. LET n == [l EXCEPT !.up = FALSE, !.out = <<>>]
        IN  n \in Links /\ n.up = FALSE /\ n.work = l.work /\ n.out = <<>>
    <2>1. <<>> \in Seq(Session!Kind)
      OBVIOUS
    <2>2. ASSUME NEW q \in Seq(Session!Kind)
          PROVE  LET n == [l EXCEPT !.up = FALSE, !.out = q]
                 IN  n \in Links /\ n.up = FALSE /\ n.work = l.work /\ n.out = q
      OBVIOUS
    <2> QED  BY <2>1, <2>2
  <1>4. ASSUME NEW w \in {"none", "spoke"}, NEW q \in Seq(Session!Kind)
        PROVE  LET n == [l EXCEPT !.work = w, !.out = q]
               IN  n \in Links /\ n.up = l.up /\ n.work = w /\ n.out = q
    OBVIOUS
  <1> HIDE DEF Links
  <1> QED  BY <1>1, <1>2, <1>3, <1>4, Zenon

\* At first no run is under way and no bridge registered
LEMMA SessionInit == Session!Init => SessionInv
  <1> SUFFICES ASSUME Session!Init PROVE SessionInv
    OBVIOUS
  <1>1. Session!NoBridge \in Bridges /\ Session!NoLink \in Links
    BY ServicesAssumption DEF Session!NoBridge, Bridges, Session!NoLink, Links,
       Session!None, Session!Try
  <1>2. Session!TypeOK
    BY <1>1, SessionTypes, ServicesAssumption DEF Session!Init, Tasks, Ats, Session!Outcome,
       Session!Try, Session!None
  <1>3. \A r \in Session!Run, t \in Session!Try : link[<<r, t>>] = Session!NoLink
    BY DEF Session!Init
  <1>4. Session!NoLink.up = FALSE /\ Session!NoLink.work = "none" /\ Session!NoLink.out = <<>>
    BY DEF Session!NoLink
  <1>5. \A r \in Session!Run : Unused(r)
    BY <1>3, <1>4 DEF Unused
  <1>6. Served
    BY DEF Session!Init, Served, Session!NoBridge
  <1> QED  BY <1>2, <1>5, <1>6 DEF Session!Init, SessionInv, InOrder, Session!NeverReused,
              Session!EndedIsOver

\* The state without the connection types, as the steps change it
LEMMA LinksKnown ==
  ASSUME Session!TypeOK
  PROVE  /\ \A r \in Session!Run, t \in Session!Try : <<r, t>> \in Session!Run \X Session!Try /\ link[<<r, t>>] \in Links
         /\ \A r \in Session!Run : bridge[r] \in Bridges
         /\ task \in Tasks /\ task.run \in Nat /\ Session!Run \subseteq Nat
         /\ \A c \in Session!Run \X Session!Try : \E r \in Session!Run, t \in Session!Try : c = <<r, t>>
  BY SessionTypes, ServicesAssumption DEF Tasks, Session!Run, Session!None

\* How the receive task and the run change a bridge
LEMMA BridgeChanged ==
  ASSUME NEW b \in Bridges
  PROVE  /\ \A p \in 0 .. MaxStarts :
              LET n == [b EXCEPT !.port = p]
              IN  n \in Bridges /\ n.ws = b.ws /\ n.queue = b.queue /\ n.receive = b.receive
         /\ \A w \in Session!Try :
              LET n == [b EXCEPT !.connected = TRUE, !.ws = w]
              IN  n \in Bridges /\ n.ws = w
         /\ LET n == Session!Reset(b)
            IN  n \in Bridges /\ n.ws = b.ws /\ n.queue = <<>> /\ n.receive = "on"
         /\ \A q \in Seq(Session!Kind) : Session!Gone([b EXCEPT !.queue = q]) \in Bridges
         /\ Session!Gone(b) \in Bridges
         /\ \A q \in Seq(Session!Kind), e \in BOOLEAN :
              LET n == [b EXCEPT !.queue = q, !.error = e]
              IN  n \in Bridges /\ n.ws = b.ws /\ n.queue = q /\ n.receive = b.receive
         /\ \A q \in Seq(Session!Kind) :
              LET n == [b EXCEPT !.queue = q]
              IN  n \in Bridges /\ n.ws = b.ws /\ n.queue = q /\ n.receive = b.receive
         /\ \A e \in BOOLEAN :
              LET n == [b EXCEPT !.error = e]
              IN  n \in Bridges /\ n.ws = b.ws /\ n.queue = b.queue /\ n.receive = b.receive
         /\ \A q \in Seq(Session!Kind), x \in BOOLEAN :
              LET n == [b EXCEPT !.receive = "over", !.connected = x, !.queue = q]
              IN  n \in Bridges /\ n.ws = b.ws /\ n.queue = q /\ n.receive = "over"
  <1> USE DEF Bridges, Session!None
  <1>1. \A p \in 0 .. MaxStarts :
              LET n == [b EXCEPT !.port = p]
              IN  n \in Bridges /\ n.ws = b.ws /\ n.queue = b.queue /\ n.receive = b.receive
    OBVIOUS
  <1>2. \A w \in Session!Try :
              LET n == [b EXCEPT !.connected = TRUE, !.ws = w]
              IN  n \in Bridges /\ n.ws = w
    OBVIOUS
  <1>3. LET n == Session!Reset(b)
        IN  n \in Bridges /\ n.ws = b.ws /\ n.queue = <<>> /\ n.receive = "on"
    <2>1. <<>> \in Seq(Session!Kind)
      OBVIOUS
    <2>2. ASSUME NEW q \in Seq(Session!Kind)
          PROVE  LET n == [b EXCEPT !.queue = q, !.error = FALSE, !.receive = "on"]
                 IN  n \in Bridges /\ n.ws = b.ws /\ n.queue = q /\ n.receive = "on"
      OBVIOUS
    <2> QED  BY <2>1, <2>2 DEF Session!Reset
  <1>4. ASSUME NEW q \in Seq(Session!Kind) PROVE Session!Gone([b EXCEPT !.queue = q]) \in Bridges
    <2> DEFINE n == [b EXCEPT !.queue = q]
    <2>1. n \in Bridges
      OBVIOUS
    <2> HIDE DEF n
    <2>2. Session!Gone(n) \in Bridges
      BY <2>1 DEF Session!Gone
    <2> QED  BY <2>2 DEF n
  <1>5. Session!Gone(b) \in Bridges
    BY DEF Session!Gone
  <1>6. ASSUME NEW q \in Seq(Session!Kind)
        PROVE  /\ \A e \in BOOLEAN :
                    LET n == [b EXCEPT !.queue = q, !.error = e]
                    IN  n \in Bridges /\ n.ws = b.ws /\ n.queue = q /\ n.receive = b.receive
               /\ LET n == [b EXCEPT !.queue = q]
                  IN  n \in Bridges /\ n.ws = b.ws /\ n.queue = q /\ n.receive = b.receive
               /\ \A x \in BOOLEAN :
                    LET n == [b EXCEPT !.receive = "over", !.connected = x, !.queue = q]
                    IN  n \in Bridges /\ n.ws = b.ws /\ n.queue = q /\ n.receive = "over"
    OBVIOUS
  <1>7. \A e \in BOOLEAN :
              LET n == [b EXCEPT !.error = e]
              IN  n \in Bridges /\ n.ws = b.ws /\ n.queue = b.queue /\ n.receive = b.receive
    OBVIOUS
  <1> HIDE DEF Bridges, Session!None
  <1> QED  BY <1>1, <1>2, <1>3, <1>4, <1>5, <1>6, <1>7, Zenon

\* The container is up at a port that is bounded
LEMMA EnsuredTypes ==
  ASSUME Session!TypeOK, Session!Ensured \/ UNCHANGED box
  PROVE  box' \in [up : BOOLEAN, port : 0 .. MaxStarts]
  <1>1. box.port \in 0 .. MaxStarts /\ box \in [up : BOOLEAN, port : 0 .. MaxStarts]
    BY SessionTypes
  <1>2. CASE box.port < MaxStarts /\ box' = [up |-> TRUE, port |-> box.port + 1]
    <2>1. box.port + 1 \in 0 .. MaxStarts
      BY <1>1, <1>2, ServicesAssumption
    <2> QED  BY <1>2, <2>1
  <1>3. CASE UNCHANGED box
    BY <1>1, <1>3
  <1> QED  BY <1>2, <1>3 DEF Session!Ensured

\* Every step keeps to the types
LEMMA SessionTypesStep == SessionInv /\ [Session!Next]_Session!vars => Session!TypeOK'
  <1> SUFFICES ASSUME SessionInv, [Session!Next]_Session!vars PROVE Session!TypeOK'
    OBVIOUS
  <1>0. Session!TypeOK
    BY DEF SessionInv
  <1>1. CASE UNCHANGED Session!vars
    BY <1>0, <1>1 DEF Session!vars, Session!TypeOK
  <1>2. CASE Session!Ensure
    <2>1. box' \in [up : BOOLEAN, port : 0 .. MaxStarts]
      BY <1>0, <1>2, EnsuredTypes DEF Session!Ensure
    <2> QED  BY <1>0, <1>2, <2>1, SessionTypes, SessionTypesNext DEF Session!Ensure,
                Session!sessionVars
  <1>3. CASE Session!Stop
    <2>1. ASSUME NEW c \in Session!Run \X Session!Try
          PROVE  [link[c] EXCEPT !.up = FALSE, !.work = "none"] \in Links
      BY <1>0, SessionTypes, LinkChanged
    <2> QED  BY <1>0, <1>3, <2>1, SessionTypes, SessionTypesNext DEF Session!Stop
  <1>4. CASE Session!Start
    <2>1. task.run + 1 \in Session!Run
      BY <1>0, <1>4, SessionTypes, ServicesAssumption DEF Session!Start, Tasks, Session!Run,
         Session!None
    <2>2. task' \in Tasks /\ outcome' \in [Session!Run -> Session!Outcome]
      BY <1>0, <1>4, <2>1, SessionTypes DEF Session!Start, Tasks, Ats, Session!Try,
         Session!Outcome
    <2>3. box' \in [up : BOOLEAN, port : 0 .. MaxStarts]
      <3>1. Session!Ensured \/ UNCHANGED box
        BY <1>4 DEF Session!Start
      <3> QED  BY <1>0, <3>1, EnsuredTypes
    <2> QED  BY <1>0, <1>4, <2>2, <2>3, SessionTypes, SessionTypesNext DEF Session!Start
  <1> DEFINE r == task.run
  <1>5. task.at # "idle" => r \in Session!Run
    BY <1>0, SessionTypes DEF SessionInv, InOrder, Tasks
  <1>6. \A s \in Ats : Session!Goto(s) => task' \in Tasks
    BY <1>0, SessionTypes DEF Session!Goto, Tasks
  <1>7. r \in Session!Run => \A o \in Session!Outcome : Session!Ends(r, o) =>
                         task' \in Tasks /\ outcome' \in [Session!Run -> Session!Outcome]
    BY <1>0, SessionTypes DEF Session!Ends, Tasks, Ats
  <1> HIDE DEF r
  <1>8. ASSUME NEW q \in Session!Run \cup {Session!None}, NEW b \in Bridges,
               bridge' = [bridge EXCEPT ![q] = b]
        PROVE  bridge' \in [Session!Run -> Bridges]
    BY <1>0, <1>8, SessionTypes
  <1>9. CASE Session!Setup
    <2>1. ASSUME NEW q \in Session!Run, bridge' = [bridge EXCEPT ![q].port = box.port]
          PROVE  bridge' \in [Session!Run -> Bridges]
      <3>1. box.port \in 0 .. MaxStarts /\ bridge[q] \in Bridges
        BY <1>0, SessionTypes
      <3> QED  BY <1>8, <2>1, <3>1, BridgeChanged
    <2>2. bridge' \in [Session!Run -> Bridges]
      BY <1>0, <1>5, <1>9, <2>1, SessionTypes DEF Session!Setup, r
    <2>3. task' \in Tasks /\ outcome' \in [Session!Run -> Session!Outcome]
      BY <1>0, <1>5, <1>6, <1>7, <1>9, SessionTypes DEF Session!Setup, r, Session!Outcome,
         Ats
    <2> QED  BY <1>0, <1>9, <2>2, <2>3, SessionTypes, SessionTypesNext DEF Session!Setup
  <1>10. CASE Session!Connect
    <2>1. r \in Session!Run /\ task.try \in Session!Try
      BY <1>0, <1>5, <1>10, SessionTypes DEF Session!Connect, Tasks
    <2>2. task' \in Tasks /\ outcome' \in [Session!Run -> Session!Outcome]
      BY <1>0, <1>6, <1>7, <1>10, <2>1, SessionTypes DEF Session!Connect, r,
         Session!Outcome, Ats
    <2>3. bridge' \in [Session!Run -> Bridges]
      <3>1. CASE bridge' = [bridge EXCEPT ![r].connected = TRUE, ![r].ws = task.try]
        <4>1. bridge[r] \in Bridges
          BY <1>0, <2>1, SessionTypes
        <4>2. bridge' = [bridge EXCEPT ![r] = [@ EXCEPT !.connected = TRUE, !.ws = task.try]]
          BY <3>1
        <4> QED  BY <1>8, <2>1, <4>1, <4>2, BridgeChanged
      <3> QED  BY <1>0, <1>10, <3>1, SessionTypes DEF Session!Connect, r
    <2>4. link' \in [Session!Run \X Session!Try -> Links]
      <3>1. CASE link' = [link EXCEPT ![<<r, task.try>>].up = TRUE]
        BY <1>0, <2>1, <3>1, SessionTypes DEF Links
      <3> QED  BY <1>0, <1>10, <3>1, SessionTypes DEF Session!Connect, r
    <2> QED  BY <1>0, <1>10, <2>2, <2>3, <2>4, SessionTypes, SessionTypesNext DEF
                Session!Connect
  <1>11. CASE Session!Send
    <2>1. r \in Session!Run /\ bridge[r].ws = task.try /\ task.try \in Session!Try
      BY <1>0, <1>5, <1>11, SessionTypes DEF Session!Send, SessionInv, Unsent, Tasks, r
    <2>2. task' \in Tasks
      BY <1>6, <1>11 DEF Session!Send, Ats
    <2>3. bridge' \in [Session!Run -> Bridges]
      <3>1. bridge[r] \in Bridges
        BY <1>0, <2>1, SessionTypes
      <3> QED  BY <1>8, <1>11, <2>1, <3>1, BridgeChanged DEF Session!Send, r
    <2>4. link' \in [Session!Run \X Session!Try -> Links]
      BY <1>0, <1>11, <2>1, SessionTypes, ZenonT(30) DEF Session!Send, Links, r
    <2> QED  BY <1>0, <1>11, <2>2, <2>3, <2>4, SessionTypes, SessionTypesNext DEF
                Session!Send
  <1>12. CASE Session!SendFails
    <2>1. r \in Session!Run
      BY <1>5, <1>12 DEF Session!SendFails
    <2>2. task' \in Tasks /\ outcome' \in [Session!Run -> Session!Outcome]
      <3>1. CASE task' = [task EXCEPT !.at = "connecting", !.try = 2] /\ UNCHANGED outcome
        <4>1. task' = [at |-> "connecting", run |-> task.run, try |-> 2]
          BY <1>0, <3>1, SessionTypes DEF Tasks
        <4> QED  BY <1>0, <3>1, <4>1, SessionTypes DEF Tasks, Ats, Session!Try
      <3>2. CASE Session!Ends(r, "failed")
        BY <1>7, <2>1, <3>2 DEF Session!Outcome
      <3> QED  BY <1>12, <3>1, <3>2 DEF Session!SendFails, r
    <2>3. bridge' \in [Session!Run -> Bridges]
      <3>1. bridge[r] \in Bridges
        BY <1>0, <2>1, SessionTypes
      <3>2. <<>> \in Seq(Session!Kind) /\ <<"lost">> \in Seq(Session!Kind)
        BY DEF Session!Kind
      <3>3. PICK q \in {<<>>, <<"lost">>} :
              bridge' = [bridge EXCEPT ![r] = Session!Gone([@ EXCEPT !.queue = q])]
        BY <1>12 DEF Session!SendFails, r
      <3>4. q \in Seq(Session!Kind)
        BY <3>2
      <3>5. Session!Gone([bridge[r] EXCEPT !.queue = q]) \in Bridges
        BY <3>1, <3>4, BridgeChanged
      <3> QED  BY <1>8, <2>1, <3>3, <3>5
    <2> QED  BY <1>0, <1>12, <2>2, <2>3, SessionTypes, SessionTypesNext DEF
                Session!SendFails
  <1>13. CASE Session!Handle
    <2>1. r \in Session!Run
      BY <1>5, <1>13 DEF Session!Handle
    <2>2. bridge[r] \in Bridges /\ bridge[r].queue \in Seq(Session!Kind) /\ bridge[r].queue # <<>>
      BY <1>0, <1>13, <2>1, SessionTypes DEF Session!Handle, Bridges, r
    <2>3. Tail(bridge[r].queue) \in Seq(Session!Kind)
      BY <2>2, TailFree
    <2>4. task' \in Tasks /\ outcome' \in [Session!Run -> Session!Outcome] /\ reg' \in Session!Run \cup {Session!None}
      BY <1>0, <1>7, <1>13, <2>1, SessionTypes DEF Session!Handle, Session!EndRun,
         Session!Outcome, r
    <2>5. bridge' \in [Session!Run -> Bridges]
      <3> DEFINE e == Head(bridge[r].queue) \in {"error", "lost"}
      <3>1. bridge' = [bridge EXCEPT ![r] = [@ EXCEPT !.queue = Tail(bridge[r].queue),
                                                      !.error = e]]
        BY <1>13 DEF Session!Handle, r
      <3>2. e \in BOOLEAN
        OBVIOUS
      <3> HIDE DEF e
      <3> QED  BY <1>8, <2>1, <2>2, <2>3, <3>1, <3>2, BridgeChanged
    <2> QED  BY <1>0, <1>13, <2>4, <2>5, SessionTypes, SessionTypesNext DEF Session!Handle
  <1>14. CASE Session!NoMore
    <2>1. r \in Session!Run
      BY <1>5, <1>14 DEF Session!NoMore
    <2>2. bridge[r] \in Bridges
      BY <1>0, <2>1, SessionTypes
    <2>3. task' \in Tasks /\ outcome' \in [Session!Run -> Session!Outcome] /\ reg' \in Session!Run \cup {Session!None}
      BY <1>0, <1>7, <1>14, <2>1, SessionTypes DEF Session!NoMore, Session!EndRun,
         Session!Outcome, r
    <2>4. bridge' \in [Session!Run -> Bridges]
      BY <1>8, <1>14, <2>1, <2>2, BridgeChanged DEF Session!NoMore, r
    <2> QED  BY <1>0, <1>14, <2>3, <2>4, SessionTypes, SessionTypesNext DEF Session!NoMore
  <1>15. CASE Session!Cancel
    <2>1. task' \in Tasks /\ outcome' \in [Session!Run -> Session!Outcome]
      BY <1>5, <1>7, <1>15 DEF Session!Cancel, Session!Outcome, r
    <2> QED  BY <1>0, <1>15, <2>1, SessionTypes, SessionTypesNext DEF Session!Cancel
  <1>16. CASE Session!Cleanup
    <2>1. reg \in Session!Run /\ bridge[reg] \in Bridges
      BY <1>0, <1>16, SessionTypes DEF Session!Cleanup
    <2>2. bridge' \in [Session!Run -> Bridges]
      BY <1>8, <1>16, <2>1, BridgeChanged DEF Session!Cleanup
    <2>3. link' \in [Session!Run \X Session!Try -> Links]
      <3>1. CASE bridge[reg].ws = Session!None
        BY <1>0, <1>16, <3>1, SessionTypes DEF Session!Cleanup
      <3>2. CASE bridge[reg].ws # Session!None
        <4> DEFINE c == <<reg, bridge[reg].ws>>
        <4>1. c \in Session!Run \X Session!Try /\ link[c] \in Links
          BY <1>0, <2>1, <3>2, SessionTypes DEF Bridges
        <4>2. link' = [link EXCEPT ![c] = [@ EXCEPT !.up = FALSE, !.out = <<>>]]
          BY <1>16, <3>2 DEF Session!Cleanup
        <4>3. [link[c] EXCEPT !.up = FALSE, !.out = <<>>] \in Links
          BY <4>1, LinkChanged
        <4> HIDE DEF c
        <4> QED  BY <1>0, <4>1, <4>2, <4>3, SessionTypes
      <3> QED  BY <3>1, <3>2
    <2> QED  BY <1>0, <1>16, <2>2, <2>3, SessionTypes, SessionTypesNext DEF Session!Cleanup
  <1>17. ASSUME NEW q \in Session!Run, Session!Receive(q) PROVE Session!TypeOK'
    <2> DEFINE c == <<q, bridge[q].ws>>
    <2>1. c \in Session!Run \X Session!Try /\ link[c] \in Links /\ link[c].out \in Seq(Session!Kind)
      BY <1>0, <1>17, SessionTypes DEF Session!Receive, SessionInv, Served, Links
    <2>2. bridge[q] \in Bridges /\ bridge[q].queue \in Seq(Session!Kind)
      BY <1>0, SessionTypes DEF Bridges
    <2>3. Head(link[c].out) \in Session!Kind /\ Tail(link[c].out) \in Seq(Session!Kind)
      BY <1>17, <2>1, TailFree DEF Session!Receive
    <2>4. bridge' \in [Session!Run -> Bridges]
      <3>1. Append(bridge[q].queue, Head(link[c].out)) \in Seq(Session!Kind)
        BY <2>2, <2>3
      <3> QED  BY <1>8, <1>17, <2>2, <3>1, BridgeChanged DEF Session!Receive
    <2>5. link' \in [Session!Run \X Session!Try -> Links]
      <3>1. [link[c] EXCEPT !.out = Tail(link[c].out)] \in Links
        BY <2>1, <2>3 DEF Links
      <3>2. link' = [link EXCEPT ![c] = [@ EXCEPT !.out = Tail(link[c].out)]]
        BY <1>17 DEF Session!Receive
      <3> HIDE DEF c
      <3> QED  BY <1>0, <2>1, <3>1, <3>2, SessionTypes
    <2> QED  BY <1>0, <1>17, <2>4, <2>5, SessionTypes, SessionTypesNext DEF Session!Receive
  <1>18. ASSUME NEW q \in Session!Run, Session!ReceiveEnds(q) PROVE Session!TypeOK'
    <2> DEFINE c == <<q, bridge[q].ws>>
               x == bridge[q].connected /\ link[c].clean
               w == IF link[c].clean \/ bridge[q].error THEN bridge[q].queue
                    ELSE Append(bridge[q].queue, "lost")
    <2>1. bridge[q] \in Bridges /\ bridge[q].queue \in Seq(Session!Kind) /\ "lost" \in Session!Kind
      BY <1>0, SessionTypes DEF Bridges, Session!Kind
    <2>2. w \in Seq(Session!Kind) /\ x \in BOOLEAN
      BY <2>1
    <2>3. bridge' = [bridge EXCEPT ![q] = [@ EXCEPT !.receive = "over", !.connected = x,
                                                    !.queue = w]]
      BY <1>18 DEF Session!ReceiveEnds
    <2> HIDE DEF x, w
    <2>4. bridge' \in [Session!Run -> Bridges]
      BY <1>8, <2>1, <2>2, <2>3, BridgeChanged
    <2> QED  BY <1>0, <1>18, <2>4, SessionTypes, SessionTypesNext DEF Session!ReceiveEnds
  <1>19. ASSUME NEW c \in Session!Run \X Session!Try, Session!LinkDrops(c) PROVE Session!TypeOK'
    <2>1. link' \in [Session!Run \X Session!Try -> Links]
      <3>1. PICK clean \in BOOLEAN : link' = [link EXCEPT ![c].up = FALSE, ![c].clean = clean]
        BY <1>19 DEF Session!LinkDrops
      <3>2. [link[c] EXCEPT !.up = FALSE, !.clean = clean] \in Links
        BY <1>0, SessionTypes, LinkChanged
      <3>3. link' = [link EXCEPT ![c] = [@ EXCEPT !.up = FALSE, !.clean = clean]]
        BY <3>1
      <3> QED  BY <1>0, <3>2, <3>3, SessionTypes
    <2> QED  BY <1>0, <1>19, <2>1, SessionTypes, SessionTypesNext DEF Session!LinkDrops
  <1>20. ASSUME NEW c \in Session!Run \X Session!Try, Session!AgentWorks(c) PROVE Session!TypeOK'
    <2>1. link' \in [Session!Run \X Session!Try -> Links]
      <3>1. PICK k \in {"output", "done", "error"}, w \in {"none", "spoke"} : Session!Speaks(c, k, w)
        BY <1>20 DEF Session!AgentWorks
      <3> DEFINE o == IF link[c].up THEN Append(link[c].out, k) ELSE link[c].out
      <3>2. link[c] \in Links /\ link[c].out \in Seq(Session!Kind) /\ k \in Session!Kind
        BY <1>0, SessionTypes DEF Links, Session!Kind
      <3>3. o \in Seq(Session!Kind)
        BY <3>2
      <3>4. [link[c] EXCEPT !.work = w, !.out = o] \in Links
        BY <3>2, <3>3 DEF Links
      <3>5. link' = [link EXCEPT ![c] = [@ EXCEPT !.work = w, !.out = o]]
        BY <3>1 DEF Session!Speaks
      <3> HIDE DEF o
      <3> QED  BY <1>0, <3>4, <3>5, SessionTypes
    <2> QED  BY <1>0, <1>20, <2>1, SessionTypes, SessionTypesNext DEF Session!AgentWorks
  <1> QED
    BY <1>1, <1>2, <1>3, <1>4, <1>9, <1>10, <1>11, <1>12, <1>13, <1>14, <1>15, <1>16,
       <1>17, <1>18, <1>19, <1>20 DEF Session!Next

\* A step in which connections only go down, work ends and words are said
LEMMA LinksOnly ==
  ASSUME SessionInv, Session!TypeOK', UNCHANGED <<task, reg, bridge, outcome>>,
         \A c \in Session!Run \X Session!Try :
            /\ link'[c].up => link[c].up
            /\ link'[c].work # "none" => link[c].work # "none"
            /\ \/ link'[c].out = link[c].out
               \/ /\ link[c].work # "none"
                  /\ \E k \in {"output", "done", "error"} :
                        /\ link'[c].out = Append(link[c].out, k)
                        /\ k \in Ending => link'[c].work = "none"
  PROVE  SessionInv'
  <1>1. Session!TypeOK
    BY DEF SessionInv
  <1>2. \A r \in Session!Run : Unused(r) => Unused(r)'
    BY <1>1, LinksKnown DEF Unused
  <1>3. InOrder'
    BY <1>2 DEF SessionInv, InOrder
  <1>4. \A r \in Session!Run : Unsent(r) => Unsent(r)'
    BY <1>1, LinksKnown DEF Unsent
  <1>5. ASSUME NEW r \in Session!Run, Streams(r) PROVE Streams(r)'
    <2> DEFINE c == <<r, bridge[r].ws>>
    <2>1. c \in Session!Run \X Session!Try /\ link[c].out \in Seq(Session!Kind)
      BY <1>1, <1>5, SessionTypes DEF Streams, Links
    <2>2. Free({"lost"}, link'[c].out)
      <3>1. ASSUME NEW k \in {"output", "done", "error"}, link'[c].out = Append(link[c].out, k)
            PROVE  Free({"lost"}, link'[c].out)
        BY <1>5, <2>1, <3>1, AppendFree DEF Streams, Session!Kind
      <3> QED  BY <1>5, <2>1, <3>1 DEF Streams
    <2>3. ASSUME link'[c].work # "none"
          PROVE  Free(Ending, bridge[r].queue) /\ Free(Ending, link'[c].out)
      <3>1. Free(Ending, bridge[r].queue) /\ Free(Ending, link[c].out)
        BY <1>5, <2>1, <2>3 DEF Streams
      <3>2. ASSUME NEW k \in {"output", "done", "error"}, k \notin Ending,
                   link'[c].out = Append(link[c].out, k)
            PROVE  Free(Ending, link'[c].out)
        BY <2>1, <3>1, <3>2, AppendFree DEF Session!Kind
      <3> QED  BY <2>1, <2>3, <3>1, <3>2
    <2>4. \A t \in Session!Try : t # bridge[r].ws => ~link'[<<r, t>>].up /\ link'[<<r, t>>].work = "none"
      BY <1>1, <1>5, LinksKnown DEF Streams
    <2>5. link'[c].up => bridge[r].receive # "over" /\ Free({"lost"}, bridge[r].queue)
      BY <1>5, <2>1 DEF Streams
    <2> QED  BY <1>5, <2>2, <2>3, <2>4, <2>5 DEF Streams
  <1>6. Session!EndedIsOver'
    BY <1>1, LinksKnown DEF SessionInv, Session!EndedIsOver, Session!Held, Session!Working
  <1>7. task.at # "idle" => task.run \in Session!Run
    BY <1>1, SessionTypes DEF SessionInv, InOrder, Tasks
  <1> QED  BY <1>3, <1>4, <1>5, <1>6, <1>7 DEF SessionInv, Session!NeverReused, Served

\* Of that kind are the end of the container, a connection that drops, and the work
\* of the agent server
LEMMA StopKeeps == SessionInv /\ Session!Stop /\ Session!TypeOK' => SessionInv'
  <1> SUFFICES ASSUME SessionInv, Session!Stop, Session!TypeOK' PROVE SessionInv'
    OBVIOUS
  <1>1. ASSUME NEW c \in Session!Run \X Session!Try
        PROVE  link'[c].up = FALSE /\ link'[c].work = "none" /\ link'[c].out = link[c].out
    <2> DEFINE n == [link[c] EXCEPT !.up = FALSE, !.work = "none"]
    <2>1. n.up = FALSE /\ n.work = "none" /\ n.out = link[c].out
      BY SessionTypes, LinkChanged DEF SessionInv
    <2> HIDE DEF n
    <2>2. link'[c] = n
      BY DEF Session!Stop, n
    <2> QED  BY <2>1, <2>2
  <1> QED  BY <1>1, LinksOnly DEF Session!Stop

LEMMA DropKeeps ==
  ASSUME SessionInv, Session!TypeOK', NEW d \in Session!Run \X Session!Try, Session!LinkDrops(d)
  PROVE  SessionInv'
  <1>1. PICK x \in BOOLEAN : link' = [link EXCEPT ![d] = [@ EXCEPT !.up = FALSE, !.clean = x]]
    BY DEF Session!LinkDrops
  <1>2. link \in [Session!Run \X Session!Try -> Links] /\ link[d] \in Links
    BY SessionTypes DEF SessionInv
  <1>3. link'[d].up = FALSE /\ link'[d].work = link[d].work /\ link'[d].out = link[d].out
    <2> DEFINE n == [link[d] EXCEPT !.up = FALSE, !.clean = x]
    <2>1. n.up = FALSE /\ n.work = link[d].work /\ n.out = link[d].out
      BY <1>2 DEF Links
    <2>2. link'[d] = n
      BY <1>1, <1>2
    <2> HIDE DEF n
    <2> QED  BY <2>1, <2>2
  <1>4. \A c \in Session!Run \X Session!Try : c # d => link'[c] = link[c]
    BY <1>1, <1>2
  <1> QED  BY <1>3, <1>4, LinksOnly DEF Session!LinkDrops

LEMMA WorkKeeps ==
  ASSUME SessionInv, Session!TypeOK', NEW d \in Session!Run \X Session!Try, Session!AgentWorks(d)
  PROVE  SessionInv'
  <1>1. PICK k \in {"output", "done", "error"}, w \in {"none", "spoke"} :
           Session!Speaks(d, k, w) /\ link[d].work # "none" /\ (k \in Ending => w = "none")
    BY DEF Session!AgentWorks, Ending
  <1> DEFINE o == IF link[d].up THEN Append(link[d].out, k) ELSE link[d].out
  <1>2. link \in [Session!Run \X Session!Try -> Links] /\ link[d] \in Links
    BY SessionTypes DEF SessionInv
  <1>3. o \in Seq(Session!Kind)
    BY <1>2 DEF Links, Session!Kind
  <1>4. link' = [link EXCEPT ![d] = [@ EXCEPT !.work = w, !.out = o]]
    BY <1>1 DEF Session!Speaks
  <1>5. o = link[d].out \/ o = Append(link[d].out, k)
    OBVIOUS
  <1> HIDE DEF o
  <1>6. link'[d].up = link[d].up /\ link'[d].work = w /\ link'[d].out = o
    <2> DEFINE n == [link[d] EXCEPT !.work = w, !.out = o]
    <2>1. n.up = link[d].up /\ n.work = w /\ n.out = o
      BY <1>2 DEF Links
    <2>2. link'[d] = n
      BY <1>2, <1>4
    <2> HIDE DEF n
    <2> QED  BY <2>1, <2>2
  <1>7. \A c \in Session!Run \X Session!Try : c # d => link'[c] = link[c]
    BY <1>2, <1>4
  <1>8. \A c \in Session!Run \X Session!Try :
            /\ link'[c].up => link[c].up
            /\ link'[c].work # "none" => link[c].work # "none"
            /\ \/ link'[c].out = link[c].out
               \/ /\ link[c].work # "none"
                  /\ \E e \in {"output", "done", "error"} :
                        /\ link'[c].out = Append(link[c].out, e)
                        /\ e \in Ending => link'[c].work = "none"
    BY <1>1, <1>5, <1>6, <1>7
  <1> QED  BY <1>8, LinksOnly DEF Session!AgentWorks

\* A step of the receive task of q, which leaves all but its bridge alone and takes at
\* most a word from its connection
LEMMA BridgeOnly ==
  ASSUME SessionInv, Session!TypeOK', NEW q \in Session!Run, UNCHANGED <<task, reg, outcome>>,
         bridge[q].receive = "on", bridge'[q].ws = bridge[q].ws,
         \A r \in Session!Run \ {q} : bridge'[r] = bridge[r],
         \A c \in Session!Run \X Session!Try :
             /\ link'[c].up = link[c].up /\ link'[c].work = link[c].work
             /\ link[c].out = <<>> \/ c # <<q, bridge[q].ws>> => link'[c].out = link[c].out,
         task.at = "streaming" /\ task.run = q => Streams(q)'
  PROVE  SessionInv'
  <1>1. Session!TypeOK /\ (task.at # "idle" => task.run \in Session!Run)
    BY SessionTypes DEF SessionInv, InOrder, Tasks
  <1>2. \A r \in Session!Run : Unused(r) => Unused(r)'
    BY <1>1, LinksKnown DEF Unused
  <1>3. InOrder'
    BY <1>2 DEF SessionInv, InOrder
  <1>4. \A r \in Session!Run : Unsent(r) => Unsent(r)'
    BY <1>1, LinksKnown DEF Unsent
  <1>5. ASSUME NEW r \in Session!Run, r # q, Streams(r) PROVE Streams(r)'
    <2> DEFINE c == <<r, bridge[r].ws>>
    <2>1. c \in Session!Run \X Session!Try /\ c # <<q, bridge[q].ws>>
      BY <1>5 DEF Streams
    <2>2. link'[c].out = link[c].out /\ link'[c].up = link[c].up /\ link'[c].work = link[c].work
      BY <2>1
    <2>3. \A t \in Session!Try : link'[<<r, t>>].up = link[<<r, t>>].up
                         /\ link'[<<r, t>>].work = link[<<r, t>>].work
      BY <1>1, LinksKnown
    <2> QED  BY <1>5, <2>2, <2>3 DEF Streams
  <1>6. Session!EndedIsOver'
    BY <1>1, LinksKnown DEF SessionInv, Session!EndedIsOver, Session!Held, Session!Working
  <1>7. Served'
    BY <1>1 DEF SessionInv, Served
  <1> QED  BY <1>1, <1>3, <1>4, <1>5, <1>6, <1>7 DEF SessionInv, Session!NeverReused

\* A word is received, or there will be no more
LEMMA ReceiveKeeps ==
  ASSUME SessionInv, Session!TypeOK', NEW q \in Session!Run, Session!Receive(q)
  PROVE  SessionInv'
  <1> DEFINE c == <<q, bridge[q].ws>>
             k == Head(link[c].out)
  <1>1. /\ Session!TypeOK /\ bridge[q].ws \in Session!Try /\ c \in Session!Run \X Session!Try
        /\ link \in [Session!Run \X Session!Try -> Links] /\ link[c] \in Links /\ link[c].out \in Seq(Session!Kind)
        /\ bridge \in [Session!Run -> Bridges] /\ bridge[q] \in Bridges
        /\ bridge[q].queue \in Seq(Session!Kind) /\ link[c].out # <<>>
    BY SessionTypes DEF SessionInv, Served, Session!Receive, Links, Bridges
  <1>2. k \in Session!Kind /\ Tail(link[c].out) \in Seq(Session!Kind)
    BY <1>1, TailFree
  <1>3. bridge' = [bridge EXCEPT ![q] = [@ EXCEPT !.queue = Append(bridge[q].queue, k)]]
    BY DEF Session!Receive
  <1>4. Append(bridge[q].queue, k) \in Seq(Session!Kind)
    BY <1>1, <1>2
  <1>5. /\ bridge'[q].ws = bridge[q].ws /\ bridge'[q].receive = bridge[q].receive
        /\ bridge'[q].queue = Append(bridge[q].queue, k)
        /\ \A r \in Session!Run \ {q} : bridge'[r] = bridge[r]
    <2> DEFINE n == [bridge[q] EXCEPT !.queue = Append(bridge[q].queue, k)]
    <2>1. n.ws = bridge[q].ws /\ n.receive = bridge[q].receive
          /\ n.queue = Append(bridge[q].queue, k)
      BY <1>1 DEF Bridges
    <2>2. bridge'[q] = n /\ \A r \in Session!Run \ {q} : bridge'[r] = bridge[r]
      BY <1>1, <1>3
    <2> HIDE DEF n
    <2> QED  BY <2>1, <2>2
  <1>6. link' = [link EXCEPT ![c] = [@ EXCEPT !.out = Tail(link[c].out)]]
    BY DEF Session!Receive
  <1>7. /\ link'[c].up = link[c].up /\ link'[c].work = link[c].work
        /\ link'[c].out = Tail(link[c].out)
    BY <1>1, <1>6 DEF Links
  <1>8. \A d \in Session!Run \X Session!Try : d # c => link'[d] = link[d]
    BY <1>1, <1>6
  <1>9. ASSUME Streams(q) PROVE Streams(q)'
    <2>1. link[c].work # "none" => Free(Ending, bridge'[q].queue) /\ Free(Ending, link'[c].out)
      <3> SUFFICES ASSUME link[c].work # "none"
                   PROVE  Free(Ending, bridge'[q].queue) /\ Free(Ending, link'[c].out)
        OBVIOUS
      <3>1. Free(Ending, bridge[q].queue) /\ Free(Ending, link[c].out)
        BY <1>9 DEF Streams
      <3>2. k \notin Ending /\ Free(Ending, Tail(link[c].out))
        BY <1>1, <3>1, TailFree
      <3> QED  BY <1>1, <1>2, <1>5, <1>7, <3>1, <3>2, AppendFree
    <2>2. k # "lost" /\ Free({"lost"}, link'[c].out)
      <3>1. Free({"lost"}, link[c].out)
        BY <1>9 DEF Streams
      <3>2. k \notin {"lost"} /\ Free({"lost"}, Tail(link[c].out))
        BY <1>1, <3>1, TailFree
      <3> QED  BY <1>7, <3>2
    <2>3. link[c].up => bridge'[q].receive # "over" /\ Free({"lost"}, bridge'[q].queue)
      <3> SUFFICES ASSUME link[c].up
                   PROVE  bridge'[q].receive # "over" /\ Free({"lost"}, bridge'[q].queue)
        OBVIOUS
      <3>1. bridge[q].receive # "over" /\ Free({"lost"}, bridge[q].queue)
        BY <1>9 DEF Streams
      <3> QED  BY <1>1, <1>2, <1>5, <2>2, <3>1, AppendFree
    <2>4. \A t \in Session!Try : t # bridge[q].ws => ~link'[<<q, t>>].up /\ link'[<<q, t>>].work = "none"
      BY <1>1, <1>8, <1>9, LinksKnown DEF Streams
    <2> QED  BY <1>1, <1>5, <1>7, <2>1, <2>2, <2>3, <2>4 DEF Streams
  <1>10. \A d \in Session!Run \X Session!Try :
            /\ link'[d].up = link[d].up /\ link'[d].work = link[d].work
            /\ link[d].out = <<>> \/ d # c => link'[d].out = link[d].out
    BY <1>1, <1>7, <1>8
  <1>11. UNCHANGED <<task, reg, outcome>> /\ bridge[q].receive = "on"
    BY DEF Session!Receive
  <1>12. task.at = "streaming" /\ task.run = q => Streams(q)'
    BY <1>9 DEF SessionInv
  <1> QED  BY <1>5, <1>10, <1>11, <1>12, BridgeOnly

LEMMA ReceiveEndsKeeps ==
  ASSUME SessionInv, Session!TypeOK', NEW q \in Session!Run, Session!ReceiveEnds(q)
  PROVE  SessionInv'
  <1> DEFINE c == <<q, bridge[q].ws>>
             x == bridge[q].connected /\ link[c].clean
             w == IF link[c].clean \/ bridge[q].error THEN bridge[q].queue
                  ELSE Append(bridge[q].queue, "lost")
  <1>1. /\ Session!TypeOK /\ bridge[q].ws \in Session!Try /\ c \in Session!Run \X Session!Try
        /\ bridge \in [Session!Run -> Bridges] /\ bridge[q] \in Bridges
        /\ bridge[q].queue \in Seq(Session!Kind) /\ "lost" \in Session!Kind
    BY SessionTypes DEF SessionInv, Served, Session!ReceiveEnds, Bridges, Session!Kind
  <1>2. w \in Seq(Session!Kind) /\ x \in BOOLEAN
        /\ (w = bridge[q].queue \/ w = Append(bridge[q].queue, "lost"))
    BY <1>1
  <1>3. bridge' = [bridge EXCEPT ![q] = [@ EXCEPT !.receive = "over", !.connected = x,
                                                  !.queue = w]]
    BY DEF Session!ReceiveEnds
  <1> HIDE DEF x, w
  <1>4. /\ bridge'[q].ws = bridge[q].ws /\ bridge'[q].queue = w
        /\ \A r \in Session!Run \ {q} : bridge'[r] = bridge[r]
    <2> DEFINE n == [bridge[q] EXCEPT !.receive = "over", !.connected = x, !.queue = w]
    <2>1. n.ws = bridge[q].ws /\ n.queue = w
      BY <1>1 DEF Bridges
    <2>2. bridge'[q] = n /\ \A r \in Session!Run \ {q} : bridge'[r] = bridge[r]
      BY <1>1, <1>3
    <2> HIDE DEF n
    <2> QED  BY <2>1, <2>2
  <1>5. ~link[c].up /\ UNCHANGED <<task, reg, link, outcome>> /\ bridge[q].receive = "on"
    BY DEF Session!ReceiveEnds
  <1>6. ASSUME Streams(q) PROVE Streams(q)'
    <2>1. Free(Ending, bridge[q].queue) => Free(Ending, w)
      <3>1. "lost" \notin Ending
        BY DEF Ending
      <3> QED  BY <1>1, <1>2, <3>1, AppendFree
    <2> QED  BY <1>4, <1>5, <1>6, <2>1 DEF Streams
  <1>7. task.at = "streaming" /\ task.run = q => Streams(q)'
    BY <1>6 DEF SessionInv
  <1>8. \A d \in Session!Run \X Session!Try :
            /\ link'[d].up = link[d].up /\ link'[d].work = link[d].work
            /\ link[d].out = <<>> \/ d # c => link'[d].out = link[d].out
    BY <1>5
  <1> QED  BY <1>4, <1>5, <1>7, <1>8, BridgeOnly

\* A step of the executor on its run r, which touches no other run's connections
LEMMA RunMoves ==
  ASSUME SessionInv, Session!TypeOK', Session!NeverReused', Served', NEW r \in Session!Run,
         task.at # "idle", task.run = r, task'.run = r,
         \A q \in Session!Run \ {r} :
             outcome'[q] = outcome[q] /\ \A t \in Session!Try : link'[<<q, t>>] = link[<<q, t>>],
         task'.at # "idle" => outcome'[r] = "none",
         task'.at \in {"starting", "connecting", "sending"} => Unsent(r)',
         task'.at = "streaming" => Streams(r)',
         outcome'[r] \in Ending => ~Session!Held(r)' \/ ~Session!Working(r)'
  PROVE  SessionInv'
  <1>1. r # Session!None /\ \A q \in Session!Run : q > r => q # r
    BY ServicesAssumption DEF Session!Run, Session!None
  <1>2. InOrder'
    <2>1. \A q \in Session!Run : q # r => (Unused(q) => Unused(q)')
      BY DEF Unused
    <2> QED  BY <1>1, <2>1 DEF SessionInv, InOrder
  <1>3. Session!EndedIsOver'
    <2>1. ASSUME NEW q \in Session!Run, q # r
          PROVE  /\ outcome'[q] = outcome[q]
                 /\ Session!Held(q)' <=> Session!Held(q)
                 /\ Session!Working(q)' <=> Session!Working(q)
      BY <2>1 DEF Session!Held, Session!Working
    <2> QED  BY <2>1 DEF SessionInv, Session!EndedIsOver, Ending
  <1> QED  BY <1>2, <1>3 DEF SessionInv

\* What a step of the executor starts from
LEMMA RunPresent ==
  ASSUME SessionInv, task.at # "idle"
  PROVE  /\ Session!TypeOK /\ task.run \in Session!Run /\ task \in Tasks /\ task.try \in Session!Try
         /\ outcome[task.run] = "none"
         /\ bridge \in [Session!Run -> Bridges] /\ bridge[task.run] \in Bridges
         /\ link \in [Session!Run \X Session!Try -> Links] /\ outcome \in [Session!Run -> Session!Outcome]
         /\ \A t \in Session!Try : <<task.run, t>> \in Session!Run \X Session!Try
  BY SessionTypes DEF SessionInv, InOrder, Tasks

\* The run goes on to s, or is over with outcome o
LEMMA RunGoing ==
  ASSUME task \in Tasks, outcome \in [Session!Run -> Session!Outcome], NEW r \in Session!Run
  PROVE  /\ \A s \in Ats : Session!Goto(s) => /\ task'.at = s /\ task'.run = task.run
                                              /\ task'.try = task.try
         /\ \A o \in Session!Outcome : Session!Ends(r, o) =>
              /\ task'.at = "idle" /\ task'.run = task.run
              /\ outcome'[r] = o /\ \A q \in Session!Run \ {r} : outcome'[q] = outcome[q]
  BY DEF Session!Goto, Session!Ends, Tasks

\* The steps of the executor, one by one
LEMMA EnsureKeeps == SessionInv /\ Session!Ensure /\ Session!TypeOK' => SessionInv'
  BY LinksOnly DEF Session!Ensure, Session!sessionVars

LEMMA StartKeeps == SessionInv /\ Session!Start /\ Session!TypeOK' => SessionInv'
  <1> SUFFICES ASSUME SessionInv, Session!Start, Session!TypeOK' PROVE SessionInv'
    OBVIOUS
  <1>0. task.run \in Nat /\ task.run + 1 \in Session!Run
    BY SessionTypes, ServicesAssumption DEF SessionInv, Session!Start, Tasks, Session!Run,
       Session!None
  <1> PICK r \in Session!Run : r = task.run + 1
    BY <1>0
  <1>1. r # Session!None /\ r > task.run
    BY <1>0 DEF Session!Run, Session!None
  <1>2. UNCHANGED <<reg, bridge, link>> /\ task'.run = r /\ task'.try = 1
    BY DEF Session!Start
  <1>3. \/ task'.at = "starting" /\ UNCHANGED outcome
        \/ task'.at = "idle" /\ outcome' = [outcome EXCEPT ![r] = "failed"]
    BY DEF Session!Start
  <1>4. outcome \in [Session!Run -> Session!Outcome]
    BY SessionTypes DEF SessionInv
  <1>5. outcome[r] = "none" /\ Unused(r)
    BY <1>1 DEF SessionInv, InOrder
  <1>6. \A q \in Session!Run : q > r => q > task.run /\ q # r
    BY <1>0, ServicesAssumption DEF Session!Run
  <1>7. \A q \in Session!Run : Unused(q) => Unused(q)'
    BY <1>2 DEF Unused
  <1>8. InOrder'
    BY <1>1, <1>2, <1>3, <1>4, <1>5, <1>6, <1>7 DEF SessionInv, InOrder
  <1>9. task'.at = "starting" => Unsent(r)'
    BY <1>2, <1>5 DEF Unused, Unsent
  <1>10. Session!EndedIsOver'
    BY <1>2, <1>3, <1>4, <1>5 DEF SessionInv, Session!EndedIsOver, Session!Held,
       Session!Working
  <1>11. Served' /\ Session!NeverReused'
    BY <1>2, <1>3 DEF SessionInv, Served, Session!NeverReused
  <1> QED  BY <1>2, <1>3, <1>8, <1>9, <1>10, <1>11 DEF SessionInv

LEMMA SetupKeeps == SessionInv /\ Session!Setup /\ Session!TypeOK' => SessionInv'
  <1> SUFFICES ASSUME SessionInv, Session!Setup, Session!TypeOK' PROVE SessionInv'
    OBVIOUS
  <1> DEFINE r == task.run
  <1>1. task.at = "starting" /\ UNCHANGED <<box, reg, link>>
    BY DEF Session!Setup
  <1>2. Unsent(r) /\ r \in Session!Run
    BY <1>1, RunPresent DEF SessionInv
  <1>3. ASSUME NEW q \in Session!Run, bridge' = [bridge EXCEPT ![q].port = box.port]
        PROVE  /\ Served'
               /\ \A p \in Session!Run : bridge'[p].ws = bridge[p].ws
    <2>1. bridge[q] \in Bridges /\ bridge \in [Session!Run -> Bridges]
      BY <1>1, RunPresent
    <2>2. \A p \in Session!Run : bridge'[p].ws = bridge[p].ws /\ bridge'[p].receive = bridge[p].receive
      BY <1>3, <2>1 DEF Bridges
    <2> QED  BY <2>2 DEF SessionInv, Served
  <1>4. CASE reg # Session!None
    <2>1. bridge' = [bridge EXCEPT ![reg].port = box.port] /\ Session!Ends(r, "failed") /\ reg \in Session!Run
      BY <1>1, <1>4, RunPresent, SessionTypes DEF Session!Setup
    <2>2. task'.at = "idle" /\ task'.run = r /\ outcome'[r] = "failed"
          /\ \A q \in Session!Run \ {r} : outcome'[q] = outcome[q]
      BY <1>1, <1>2, <2>1, RunPresent, RunGoing DEF Session!Outcome
    <2>3. Served' /\ Session!NeverReused'
      BY <1>3, <2>1, <2>2 DEF Session!NeverReused
    <2> QED  BY <1>1, <1>2, <2>2, <2>3, RunMoves DEF Ending
  <1>5. CASE reg = Session!None
    <2>1. bridge' = [bridge EXCEPT ![r].port = box.port] /\ Session!Goto("connecting")
          /\ UNCHANGED outcome
      BY <1>5 DEF Session!Setup
    <2>2. task'.at = "connecting" /\ task'.run = r
      BY <1>1, <2>1, RunPresent, RunGoing DEF Ats
    <2>3. Served' /\ Session!NeverReused'
      BY <1>1, <1>2, <1>3, <1>5, <2>1 DEF Session!NeverReused
    <2>4. Unsent(r)'
      BY <1>1, <1>2, <2>2 DEF Unsent
    <2>5. outcome'[r] = "none"
      BY <1>1, <2>1, RunPresent
    <2> QED  BY <1>1, <1>2, <2>1, <2>2, <2>3, <2>4, <2>5, RunMoves DEF Ending
  <1> QED  BY <1>4, <1>5

LEMMA ConnectKeeps == SessionInv /\ Session!Connect /\ Session!TypeOK' => SessionInv'
  <1> SUFFICES ASSUME SessionInv, Session!Connect, Session!TypeOK' PROVE SessionInv'
    OBVIOUS
  <1> DEFINE r == task.run
             c == <<r, task.try>>
  <1>1. task.at = "connecting" /\ UNCHANGED <<box, reg>>
    BY DEF Session!Connect
  <1>2. Unsent(r) /\ r \in Session!Run /\ c \in Session!Run \X Session!Try /\ task.try \in Session!Try /\ outcome[r] = "none"
        /\ Session!NeverReused
    BY <1>1, RunPresent DEF SessionInv
  <1>3. CASE /\ bridge' = [bridge EXCEPT ![r].connected = TRUE, ![r].ws = task.try]
             /\ link' = [link EXCEPT ![c].up = TRUE]
             /\ Session!Goto("sending") /\ UNCHANGED outcome
    <2>1. task'.at = "sending" /\ task'.run = r /\ task'.try = task.try
      BY <1>1, <1>3, RunPresent, RunGoing DEF Ats
    <2>2. bridge'[r].ws = task.try /\ \A q \in Session!Run \ {r} : bridge'[q] = bridge[q]
      <3> DEFINE n == [bridge[r] EXCEPT !.connected = TRUE, !.ws = task.try]
      <3>1. n.ws = task.try
        BY <1>1, RunPresent DEF Bridges
      <3>2. bridge' = [bridge EXCEPT ![r] = n]
        BY <1>3
      <3> HIDE DEF n
      <3> QED  BY <1>1, <1>2, <3>1, <3>2, RunPresent
    <2>3. /\ link'[c].work = link[c].work /\ link'[c].out = link[c].out
          /\ \A d \in Session!Run \X Session!Try : d # c => link'[d] = link[d]
      BY <1>1, <1>2, <1>3, RunPresent DEF Links
    <2>4. Served' /\ Session!NeverReused'
      BY <1>1, <1>2, <2>1, <2>2 DEF SessionInv, Served, Session!NeverReused
    <2>5. \A t \in Session!Try : link'[<<r, t>>].work = "none" /\ link'[<<r, t>>].out = <<>>
      BY <1>1, <1>2, <2>3, RunPresent DEF Unsent
    <2>6. \A t \in Session!Try : t # task.try => ~link'[<<r, t>>].up
      BY <1>1, <1>2, <2>3, RunPresent DEF Unsent
    <2>7. Unsent(r)'
      BY <2>1, <2>2, <2>5, <2>6 DEF Unsent
    <2>8. \A q \in Session!Run \ {r}, t \in Session!Try : link'[<<q, t>>] = link[<<q, t>>]
      BY <2>3
    <2> QED  BY <1>1, <1>2, <1>3, <2>1, <2>4, <2>7, <2>8, RunMoves DEF Ending
  <1>4. CASE Session!Ends(r, "failed") /\ UNCHANGED <<bridge, link>>
    <2>1. task'.at = "idle" /\ task'.run = r /\ outcome'[r] = "failed"
          /\ \A q \in Session!Run \ {r} : outcome'[q] = outcome[q]
      BY <1>1, <1>2, <1>4, RunPresent, RunGoing DEF Session!Outcome
    <2>2. Served' /\ Session!NeverReused'
      BY <1>4, <2>1 DEF SessionInv, Served, Session!NeverReused
    <2> QED  BY <1>1, <1>2, <1>4, <2>1, <2>2, RunMoves DEF Ending
  <1> QED  BY <1>3, <1>4 DEF Session!Connect

LEMMA SendKeeps == SessionInv /\ Session!Send /\ Session!TypeOK' => SessionInv'
  <1> SUFFICES ASSUME SessionInv, Session!Send, Session!TypeOK' PROVE SessionInv'
    OBVIOUS
  <1> DEFINE r == task.run
             c == <<r, bridge[r].ws>>
             n == Session!Reset(bridge[r])
  <1>1. task.at = "sending" /\ UNCHANGED <<box, reg, outcome>> /\ Session!Goto("streaming")
    BY DEF Session!Send
  <1>2. Unsent(r) /\ r \in Session!Run /\ bridge[r].ws = task.try /\ task.try \in Session!Try /\ Session!NeverReused
        /\ c \in Session!Run \X Session!Try /\ outcome[r] = "none" /\ bridge[r] \in Bridges
    BY <1>1, RunPresent DEF SessionInv, Unsent
  <1>3. bridge' = [bridge EXCEPT ![r] = n] /\ link' = [link EXCEPT ![c].work = "busy"]
    BY DEF Session!Send
  <1>4. n.ws = bridge[r].ws /\ n.queue = <<>> /\ n.receive = "on"
    BY <1>2 DEF Session!Reset, Bridges
  <1> HIDE DEF n
  <1>5. bridge'[r] = n /\ \A q \in Session!Run \ {r} : bridge'[q] = bridge[q]
    BY <1>1, <1>2, <1>3, RunPresent
  <1>6. /\ link'[c].out = link[c].out /\ link'[c].up = link[c].up
        /\ \A d \in Session!Run \X Session!Try : d # c => link'[d] = link[d]
    BY <1>1, <1>2, <1>3, RunPresent DEF Links
  <1>7. task'.at = "streaming" /\ task'.run = r
    BY <1>1, RunPresent, RunGoing DEF Ats
  <1>8. link'[c].out = <<>>
    BY <1>2, <1>6 DEF Unsent
  <1>9. \A t \in Session!Try : t # task.try => ~link'[<<r, t>>].up /\ link'[<<r, t>>].work = "none"
    BY <1>1, <1>2, <1>6, RunPresent DEF Unsent
  <1>10. Streams(r)'
    <2>1. /\ bridge'[r].ws = task.try /\ bridge'[r].queue = <<>> /\ bridge'[r].receive = "on"
          /\ link'[<<r, task.try>>].out = <<>>
      BY <1>2, <1>4, <1>5, <1>8
    <2>2. Free(Ending, bridge'[r].queue) /\ Free(Ending, link'[<<r, task.try>>].out)
          /\ Free({"lost"}, bridge'[r].queue) /\ Free({"lost"}, link'[<<r, task.try>>].out)
      BY <2>1, NoneFree
    <2> QED  BY <1>2, <1>7, <1>9, <2>1, <2>2 DEF Streams
  <1>11. Served' /\ Session!NeverReused'
    BY <1>1, <1>2, <1>4, <1>5 DEF SessionInv, Served, Session!NeverReused
  <1>12. \A q \in Session!Run \ {r}, t \in Session!Try : link'[<<q, t>>] = link[<<q, t>>]
    BY <1>6
  <1> QED  BY <1>1, <1>2, <1>7, <1>10, <1>11, <1>12, RunMoves DEF Ending

LEMMA SendFailsKeeps == SessionInv /\ Session!SendFails /\ Session!TypeOK' => SessionInv'
  <1> SUFFICES ASSUME SessionInv, Session!SendFails, Session!TypeOK' PROVE SessionInv'
    OBVIOUS
  <1> DEFINE r == task.run
             c == <<r, bridge[r].ws>>
  <1>1. task.at = "sending" /\ UNCHANGED <<box, reg, link>> /\ ~link[c].up
    BY DEF Session!SendFails
  <1>2. Unsent(r) /\ r \in Session!Run /\ bridge[r].ws = task.try /\ task.try \in Session!Try /\ Session!NeverReused
        /\ outcome[r] = "none" /\ bridge[r] \in Bridges /\ task \in Tasks
    BY <1>1, RunPresent DEF SessionInv, Unsent
  <1>3. PICK q \in {<<>>, <<"lost">>} :
           bridge' = [bridge EXCEPT ![r] = Session!Gone([@ EXCEPT !.queue = q])]
    BY DEF Session!SendFails
  <1> DEFINE n == Session!Gone([bridge[r] EXCEPT !.queue = q])
  <1>4. n.receive = "none"
    BY <1>2 DEF Session!Gone, Bridges
  <1> HIDE DEF n
  <1>5. bridge'[r] = n /\ \A p \in Session!Run \ {r} : bridge'[p] = bridge[p]
    BY <1>1, <1>2, <1>3, RunPresent DEF n
  <1>6. Served'
    BY <1>4, <1>5 DEF SessionInv, Served
  <1>7. \A t \in Session!Try : ~link[<<r, t>>].up
    BY <1>1, <1>2 DEF Unsent
  <1>8. CASE task' = [task EXCEPT !.at = "connecting", !.try = 2] /\ UNCHANGED outcome
    <2>1. task'.at = "connecting" /\ task'.run = r
      BY <1>2, <1>8 DEF Tasks
    <2>2. Unsent(r)'
      BY <1>1, <1>2, <1>7, <2>1 DEF Unsent
    <2>3. Session!NeverReused'
      BY <1>1, <1>2, <2>1 DEF Session!NeverReused
    <2> QED  BY <1>1, <1>2, <1>6, <1>8, <2>1, <2>2, <2>3, RunMoves DEF Ending
  <1>9. CASE Session!Ends(r, "failed")
    <2>1. task'.at = "idle" /\ task'.run = r /\ outcome'[r] = "failed"
          /\ \A p \in Session!Run \ {r} : outcome'[p] = outcome[p]
      BY <1>1, <1>2, <1>9, RunPresent, RunGoing DEF Session!Outcome
    <2>2. Session!NeverReused'
      BY <2>1 DEF Session!NeverReused
    <2> QED  BY <1>1, <1>2, <1>6, <2>1, <2>2, RunMoves DEF Ending
  <1> QED  BY <1>8, <1>9 DEF Session!SendFails

\* A run ends by itself only when its connection is down or its CLI has ended
LEMMA EndKeeps ==
  ASSUME SessionInv, Session!TypeOK', task.at = "streaming", Served', UNCHANGED link,
         NEW o \in {"done", "error"}, Session!EndRun(task.run, o),
         ~Session!Held(task.run) \/ ~Session!Working(task.run)
  PROVE  SessionInv'
  <1> DEFINE r == task.run
  <1>1. r \in Session!Run /\ task \in Tasks /\ outcome \in [Session!Run -> Session!Outcome]
    BY RunPresent
  <1>2. task'.at = "idle" /\ task'.run = r
        /\ \A q \in Session!Run \ {r} : outcome'[q] = outcome[q]
    BY <1>1, RunGoing DEF Session!EndRun, Session!Outcome
  <1>3. Session!NeverReused'
    BY <1>2 DEF Session!NeverReused
  <1>4. ~Session!Held(r)' \/ ~Session!Working(r)'
    BY <1>2 DEF Session!Held, Session!Working
  <1> QED  BY <1>1, <1>2, <1>3, <1>4, RunMoves

LEMMA HandleKeeps == SessionInv /\ Session!Handle /\ Session!TypeOK' => SessionInv'
  <1> SUFFICES ASSUME SessionInv, Session!Handle, Session!TypeOK' PROVE SessionInv'
    OBVIOUS
  <1> DEFINE r == task.run
             q == bridge[r].queue
             k == Head(q)
             e == k \in {"error", "lost"}
             n == [bridge[r] EXCEPT !.queue = Tail(q), !.error = e]
  <1>1. task.at = "streaming" /\ UNCHANGED <<box, link>> /\ q # <<>>
    BY DEF Session!Handle
  <1>2. Streams(r) /\ r \in Session!Run /\ Session!NeverReused /\ outcome[r] = "none"
        /\ bridge[r] \in Bridges /\ q \in Seq(Session!Kind) /\ bridge[r].ws \in Session!Try
    BY <1>1, RunPresent DEF SessionInv, Streams, Bridges
  <1>3. k \in Session!Kind /\ \A S : Free(S, q) => Free(S, Tail(q)) /\ k \notin S
    BY <1>1, <1>2, TailFree
  <1>4. bridge' = [bridge EXCEPT ![r] = n]
    BY DEF Session!Handle
  <1>5. n.ws = bridge[r].ws /\ n.receive = bridge[r].receive /\ n.queue = Tail(q)
    BY <1>2 DEF Bridges
  <1> HIDE DEF n, e
  <1>6. bridge'[r] = n /\ \A p \in Session!Run \ {r} : bridge'[p] = bridge[p]
    BY <1>1, <1>2, <1>4, RunPresent
  <1>7. Served'
    BY <1>2, <1>5, <1>6 DEF SessionInv, Served
  <1>8. CASE ~Session!EndsLoop(k)
    <2>1. UNCHANGED <<reg, task, outcome>>
      BY <1>8 DEF Session!Handle
    <2>2. Streams(r)'
      BY <1>1, <1>2, <1>3, <1>5, <1>6, <2>1 DEF Streams
    <2>3. Session!NeverReused'
      BY <1>2, <2>1 DEF Session!NeverReused
    <2> QED  BY <1>1, <1>2, <1>7, <2>1, <2>2, <2>3, RunMoves DEF Ending
  <1>9. CASE Session!EndsLoop(k)
    <2>1. \E o \in {"done", "error"} : Session!EndRun(r, o)
      BY <1>9 DEF Session!Handle
    <2>2. CASE k \in Ending
      <3>1. link[<<r, bridge[r].ws>>].work = "none"
        BY <1>2, <1>3, <2>2 DEF Streams
      <3>2. \A t \in Session!Try : link[<<r, t>>].work = "none"
        BY <1>2, <3>1 DEF Streams
      <3> QED  BY <1>1, <1>7, <2>1, <3>2, EndKeeps DEF Session!Working
    <2>3. CASE k \notin Ending
      <3>1. k = "lost"
        BY <1>3, <1>9, <2>3 DEF Session!Kind, Ending, Session!EndsLoop
      <3>2. ~link[<<r, bridge[r].ws>>].up
        BY <1>2, <1>3, <3>1 DEF Streams
      <3>3. \A t \in Session!Try : ~link[<<r, t>>].up
        BY <1>2, <3>2 DEF Streams
      <3> QED  BY <1>1, <1>7, <2>1, <3>3, EndKeeps DEF Session!Held
    <2> QED  BY <2>2, <2>3
  <1> QED  BY <1>8, <1>9

LEMMA NoMoreKeeps == SessionInv /\ Session!NoMore /\ Session!TypeOK' => SessionInv'
  <1> SUFFICES ASSUME SessionInv, Session!NoMore, Session!TypeOK' PROVE SessionInv'
    OBVIOUS
  <1> DEFINE r == task.run
             n == [bridge[r] EXCEPT !.error = TRUE]
  <1>1. /\ task.at = "streaming" /\ UNCHANGED <<box, link>> /\ bridge[r].receive = "over"
        /\ Session!EndRun(r, "error") /\ bridge' = [bridge EXCEPT ![r] = n]
    BY DEF Session!NoMore
  <1>2. Streams(r) /\ r \in Session!Run /\ bridge[r] \in Bridges
    BY <1>1, RunPresent DEF SessionInv
  <1>3. n.ws = bridge[r].ws /\ n.receive = bridge[r].receive
    BY <1>2 DEF Bridges
  <1> HIDE DEF n
  <1>4. bridge'[r] = n /\ \A p \in Session!Run \ {r} : bridge'[p] = bridge[p]
    BY <1>1, <1>2, RunPresent
  <1>5. Served'
    BY <1>2, <1>3, <1>4 DEF SessionInv, Served
  <1>6. \A t \in Session!Try : ~link[<<r, t>>].up
    BY <1>1, <1>2 DEF Streams
  <1> QED  BY <1>1, <1>5, <1>6, EndKeeps DEF Session!Held

LEMMA CancelKeeps == SessionInv /\ Session!Cancel /\ Session!TypeOK' => SessionInv'
  <1> SUFFICES ASSUME SessionInv, Session!Cancel, Session!TypeOK' PROVE SessionInv'
    OBVIOUS
  <1> DEFINE r == task.run
  <1>1. task.at # "idle" /\ Session!Ends(r, "cancelled") /\ UNCHANGED <<box, reg, bridge, link>>
    BY DEF Session!Cancel
  <1>2. r \in Session!Run
    BY <1>1, RunPresent
  <1>3. task'.at = "idle" /\ task'.run = r /\ outcome'[r] = "cancelled"
        /\ \A q \in Session!Run \ {r} : outcome'[q] = outcome[q]
    BY <1>1, <1>2, RunPresent, RunGoing DEF Session!Outcome
  <1>4. Served' /\ Session!NeverReused'
    BY <1>1, <1>3 DEF SessionInv, Served, Session!NeverReused
  <1> QED  BY <1>1, <1>2, <1>3, <1>4, RunMoves DEF Ending

\* No run is past its start while a bridge is registered, so that none is disturbed
LEMMA CleanupKeeps == SessionInv /\ Session!Cleanup /\ Session!TypeOK' => SessionInv'
  <1> SUFFICES ASSUME SessionInv, Session!Cleanup, Session!TypeOK' PROVE SessionInv'
    OBVIOUS
  <1> DEFINE n == Session!Gone(bridge[reg])
             c == <<reg, bridge[reg].ws>>
  <1>1. /\ UNCHANGED <<box, task, outcome>> /\ reg' = Session!None /\ bridge' = [bridge EXCEPT ![reg] = n]
        /\ task.at \in {"idle", "starting"}
    BY SessionTypes DEF Session!Cleanup, SessionInv, Session!NeverReused, Tasks, Ats
  <1>2. /\ Session!TypeOK /\ reg \in Session!Run /\ bridge \in [Session!Run -> Bridges] /\ bridge[reg] \in Bridges
        /\ link \in [Session!Run \X Session!Try -> Links]
    BY SessionTypes DEF SessionInv, Session!Cleanup
  <1>3. n.receive = "none"
    BY <1>2 DEF Session!Gone, Bridges
  <1> HIDE DEF n
  <1>4. bridge'[reg] = n /\ \A p \in Session!Run \ {reg} : bridge'[p] = bridge[p]
    BY <1>1, <1>2
  <1>5. Served' /\ Session!NeverReused'
    BY <1>1, <1>3, <1>4 DEF SessionInv, Served, Session!NeverReused
  <1>6. \A d \in Session!Run \X Session!Try : /\ link'[d].up => link[d].up
                                              /\ link'[d].work = link[d].work
                                              /\ link'[d].out \in {link[d].out, <<>>}
    <2>1. CASE bridge[reg].ws = Session!None
      BY <2>1 DEF Session!Cleanup
    <2>2. CASE bridge[reg].ws # Session!None
      <3> DEFINE m == [link[c] EXCEPT !.up = FALSE, !.out = <<>>]
      <3>1. c \in Session!Run \X Session!Try /\ link[c] \in Links
        BY <1>2, <2>2 DEF Bridges
      <3>2. ~m.up /\ m.work = link[c].work /\ m.out = <<>>
        BY <3>1 DEF Links
      <3>3. link' = [link EXCEPT ![c] = m]
        BY <2>2 DEF Session!Cleanup
      <3> HIDE DEF m, c
      <3>4. link'[c] = m /\ \A d \in Session!Run \X Session!Try : d # c => link'[d] = link[d]
        BY <1>2, <3>1, <3>3
      <3> QED  BY <3>2, <3>4
    <2> QED  BY <2>1, <2>2
  <1>7. \A r \in Session!Run : Unused(r) => Unused(r)'
    BY <1>2, <1>6, LinksKnown DEF Unused
  <1>8. InOrder'
    BY <1>1, <1>7 DEF SessionInv, InOrder
  <1>9. task.at = "starting" => Unsent(task.run) /\ task.run \in Session!Run
    BY RunPresent DEF SessionInv
  <1>10. \A r \in Session!Run : task.at = "starting" /\ Unsent(r) => Unsent(r)'
    BY <1>1, <1>2, <1>6, LinksKnown DEF Unsent
  <1>11. Session!EndedIsOver'
    BY <1>1, <1>2, <1>6, LinksKnown DEF SessionInv, Session!EndedIsOver, Session!Held,
       Session!Working
  <1> QED  BY <1>1, <1>5, <1>8, <1>9, <1>10, <1>11 DEF SessionInv

\* The invariant is inductive
LEMMA SessionStep == SessionInv /\ [Session!Next]_Session!vars => SessionInv'
  <1> SUFFICES ASSUME SessionInv, [Session!Next]_Session!vars PROVE SessionInv'
    OBVIOUS
  <1>1. Session!TypeOK'
    BY SessionTypesStep
  <1>2. CASE UNCHANGED Session!vars
    BY <1>1, <1>2 DEF Session!vars, SessionInv, Session!NeverReused, Served, InOrder,
       Unused, Unsent,
                      Streams, Session!EndedIsOver, Session!Held, Session!Working
  <1>3. CASE Session!Next
    BY <1>1, <1>3, EnsureKeeps, StopKeeps, StartKeeps, SetupKeeps, ConnectKeeps, SendKeeps,
       SendFailsKeeps, HandleKeeps, NoMoreKeeps, CancelKeeps, CleanupKeeps, ReceiveKeeps,
       ReceiveEndsKeeps, DropKeeps, WorkKeeps DEF Session!Next
  <1> QED  BY <1>2, <1>3

-----------------------------------------------------------------------------
(* Composition.                                                             *)

Is(p) == part = p

\* A part begins as its specification says if it is the one that moves, stays the one
\* that moves, and then takes steps of its own; a part at rest stays at rest
LEMMA SkillsAlone ==
  /\ Init /\ Is("skills") => Skills!Init
  /\ Is("skills") /\ [Next]_allVars => Is("skills")' /\ [Skills!Next]_Skills!vars
  /\ ~Is("skills") /\ [Next]_allVars => ~Is("skills")'
  <1>1. Init /\ part = "skills" => Skills!Init
    BY DEF Init
  <1>2. part = "skills" /\ [Next]_allVars
        => part' = "skills" /\ [Skills!Next]_Skills!vars
    BY DEF Next, allVars, skillsVars, Skills!vars, SkillsMove, AgentMoves, SessionMoves,
           PoolMoves, ConnectionUsed, StartGoesOn, ScanGoesOn, PageMoves, EvictedMoves, Others
  <1>3. part # "skills" /\ [Next]_allVars => part' # "skills"
    BY DEF Next, allVars, SkillsMove, AgentMoves, SessionMoves,
           PoolMoves, ConnectionUsed, StartGoesOn, ScanGoesOn, PageMoves, EvictedMoves, Others
  <1> QED  BY <1>1, <1>2, <1>3 DEF Is

LEMMA AgentAlone ==
  /\ Init /\ Is("agent") => Agent!Init
  /\ Is("agent") /\ [Next]_allVars => Is("agent")' /\ [Agent!Next]_Agent!agentVars
  /\ ~Is("agent") /\ [Next]_allVars => ~Is("agent")'
  <1>1. Init /\ part = "agent" => Agent!Init
    BY DEF Init
  <1>2. part = "agent" /\ [Next]_allVars
        => part' = "agent" /\ [Agent!Next]_Agent!agentVars
    BY DEF Next, allVars, agentVars, Agent!agentVars, SkillsMove, AgentMoves, SessionMoves,
           PoolMoves, ConnectionUsed, StartGoesOn, ScanGoesOn, PageMoves, EvictedMoves, Others
  <1>3. part # "agent" /\ [Next]_allVars => part' # "agent"
    BY DEF Next, allVars, SkillsMove, AgentMoves, SessionMoves,
           PoolMoves, ConnectionUsed, StartGoesOn, ScanGoesOn, PageMoves, EvictedMoves, Others
  <1> QED  BY <1>1, <1>2, <1>3 DEF Is

LEMMA SessionAlone ==
  /\ Init /\ Is("session") => Session!Init
  /\ Is("session") /\ [Next]_allVars => Is("session")' /\ [Session!Next]_Session!vars
  /\ ~Is("session") /\ [Next]_allVars => ~Is("session")'
  <1>1. Init /\ part = "session" => Session!Init
    BY DEF Init
  <1>2. part = "session" /\ [Next]_allVars
        => part' = "session" /\ [Session!Next]_Session!vars
    BY DEF Next, allVars, sessionVars, Session!vars, SkillsMove, AgentMoves, SessionMoves,
           PoolMoves, ConnectionUsed, StartGoesOn, ScanGoesOn, PageMoves, EvictedMoves, Others
  <1>3. part # "session" /\ [Next]_allVars => part' # "session"
    BY DEF Next, allVars, SkillsMove, AgentMoves, SessionMoves,
           PoolMoves, ConnectionUsed, StartGoesOn, ScanGoesOn, PageMoves, EvictedMoves, Others
  <1> QED  BY <1>1, <1>2, <1>3 DEF Is

LEMMA PoolAlone ==
  /\ Init /\ Is("pool") => Pool!Init
  /\ Is("pool") /\ [Next]_allVars => Is("pool")' /\ [Pool!Next]_Pool!vars
  /\ ~Is("pool") /\ [Next]_allVars => ~Is("pool")'
  <1>1. Init /\ part = "pool" => Pool!Init
    BY DEF Init
  <1>2. part = "pool" /\ [Next]_allVars
        => part' = "pool" /\ [Pool!Next]_Pool!vars
    BY DEF Next, allVars, poolVars, Pool!vars, SkillsMove, AgentMoves, SessionMoves,
           PoolMoves, ConnectionUsed, StartGoesOn, ScanGoesOn, PageMoves, EvictedMoves, Others
  <1>3. part # "pool" /\ [Next]_allVars => part' # "pool"
    BY DEF Next, allVars, SkillsMove, AgentMoves, SessionMoves,
           PoolMoves, ConnectionUsed, StartGoesOn, ScanGoesOn, PageMoves, EvictedMoves, Others
  <1> QED  BY <1>1, <1>2, <1>3 DEF Is

LEMMA ConnAlone ==
  /\ Init /\ Is("connection") => Conn!Init
  /\ Is("connection") /\ [Next]_allVars => Is("connection")' /\ [Conn!Next]_Conn!connVars
  /\ ~Is("connection") /\ [Next]_allVars => ~Is("connection")'
  <1>1. Init /\ part = "connection" => Conn!Init
    BY DEF Init
  <1>2. part = "connection" /\ [Next]_allVars
        => part' = "connection" /\ [Conn!Next]_Conn!connVars
    BY DEF Next, allVars, connVars, Conn!connVars, SkillsMove, AgentMoves, SessionMoves,
           PoolMoves, ConnectionUsed, StartGoesOn, ScanGoesOn, PageMoves, EvictedMoves, Others
  <1>3. part # "connection" /\ [Next]_allVars => part' # "connection"
    BY DEF Next, allVars, SkillsMove, AgentMoves, SessionMoves,
           PoolMoves, ConnectionUsed, StartGoesOn, ScanGoesOn, PageMoves, EvictedMoves, Others
  <1> QED  BY <1>1, <1>2, <1>3 DEF Is

LEMMA StartAlone ==
  /\ Init /\ Is("start") => Start!Init
  /\ Is("start") /\ [Next]_allVars => Is("start")' /\ [Start!Next]_Start!migrationVars
  /\ ~Is("start") /\ [Next]_allVars => ~Is("start")'
  <1>1. Init /\ part = "start" => Start!Init
    BY DEF Init
  <1>2. part = "start" /\ [Next]_allVars
        => part' = "start" /\ [Start!Next]_Start!migrationVars
    BY DEF Next, allVars, migrationVars, Start!migrationVars, SkillsMove, AgentMoves, SessionMoves,
           PoolMoves, ConnectionUsed, StartGoesOn, ScanGoesOn, PageMoves, EvictedMoves, Others
  <1>3. part # "start" /\ [Next]_allVars => part' # "start"
    BY DEF Next, allVars, SkillsMove, AgentMoves, SessionMoves,
           PoolMoves, ConnectionUsed, StartGoesOn, ScanGoesOn, PageMoves, EvictedMoves, Others
  <1> QED  BY <1>1, <1>2, <1>3 DEF Is

LEMMA ExtractAlone ==
  /\ Init /\ Is("extraction") => Extract!Init
  /\ Is("extraction") /\ [Next]_allVars => Is("extraction")' /\ [Extract!Next]_Extract!extractionVars
  /\ ~Is("extraction") /\ [Next]_allVars => ~Is("extraction")'
  <1>1. Init /\ part = "extraction" => Extract!Init
    BY DEF Init
  <1>2. part = "extraction" /\ [Next]_allVars
        => part' = "extraction" /\ [Extract!Next]_Extract!extractionVars
    BY DEF Next, allVars, extractionVars, Extract!extractionVars, SkillsMove, AgentMoves, SessionMoves,
           PoolMoves, ConnectionUsed, StartGoesOn, ScanGoesOn, PageMoves, EvictedMoves, Others
  <1>3. part # "extraction" /\ [Next]_allVars => part' # "extraction"
    BY DEF Next, allVars, SkillsMove, AgentMoves, SessionMoves,
           PoolMoves, ConnectionUsed, StartGoesOn, ScanGoesOn, PageMoves, EvictedMoves, Others
  <1> QED  BY <1>1, <1>2, <1>3 DEF Is

LEMMA WholeAlone ==
  /\ Init /\ Is("whole") => Whole!Init
  /\ Is("whole") /\ [Next]_allVars => Is("whole")' /\ [Whole!Next]_Whole!vars
  /\ ~Is("whole") /\ [Next]_allVars => ~Is("whole")'
  <1>1. Init /\ part = "whole" => Whole!Init
    BY DEF Init, Pages
  <1>2. part = "whole" /\ [Next]_allVars
        => part' = "whole" /\ [Whole!Next]_Whole!vars
    BY DEF Next, allVars, pageVars, Whole!vars, SkillsMove, AgentMoves, SessionMoves,
           PoolMoves, ConnectionUsed, StartGoesOn, ScanGoesOn, PageMoves, EvictedMoves, Others
  <1>3. part # "whole" /\ [Next]_allVars => part' # "whole"
    BY DEF Next, allVars, SkillsMove, AgentMoves, SessionMoves,
           PoolMoves, ConnectionUsed, StartGoesOn, ScanGoesOn, PageMoves, EvictedMoves, Others
  <1> QED  BY <1>1, <1>2, <1>3 DEF Is

LEMMA EvictedAlone ==
  /\ Init /\ Is("evicted") => Evicted!Init
  /\ Is("evicted") /\ [Next]_allVars => Is("evicted")' /\ [Evicted!Next]_Evicted!vars
  /\ ~Is("evicted") /\ [Next]_allVars => ~Is("evicted")'
  <1>1. Init /\ part = "evicted" => Evicted!Init
    <2>1. Whole!Init => Evicted!Init
      BY DEF Whole!Init, Evicted!Init, Whole!Infinity, Evicted!Infinity, Whole!NoSeq,
             Evicted!NoSeq, Whole!NotAsked, Evicted!NotAsked
    <2> QED  BY <2>1 DEF Init, Pages
  <1>2. part = "evicted" /\ [Next]_allVars
        => part' = "evicted" /\ [Evicted!Next]_Evicted!vars
    BY DEF Next, allVars, pageVars, Evicted!vars, SkillsMove, AgentMoves, SessionMoves,
           PoolMoves, ConnectionUsed, StartGoesOn, ScanGoesOn, PageMoves, EvictedMoves, Others
  <1>3. part # "evicted" /\ [Next]_allVars => part' # "evicted"
    BY DEF Next, allVars, SkillsMove, AgentMoves, SessionMoves,
           PoolMoves, ConnectionUsed, StartGoesOn, ScanGoesOn, PageMoves, EvictedMoves, Others
  <1> QED  BY <1>1, <1>2, <1>3 DEF Is

\* The instances of the page have constants as they should be
LEMMA WholeAssumed == Whole!ConstantsAssumption
  BY ServicesAssumption DEF Whole!ConstantsAssumption

LEMMA EvictedAssumed == Evicted!ConstantsAssumption
  BY ServicesAssumption DEF Evicted!ConstantsAssumption

-----------------------------------------------------------------------------
(* The properties of the run.                                               *)

\* Whatever uploads, deletions, syncs and scans run against each other and whichever
\* registrations fail, a directory that no request is registering has a row.
THEOREM NoOrphanLeft == Spec => []NoOrphan
  <1>1. ~Is("skills") => NoOrphan
    BY DEF NoOrphan, Is
  <1>2. SkillsInv => NoOrphan
    BY SkillsNoOrphan DEF NoOrphan
  <1> QED  BY SkillsAlone, SkillsInit, SkillsStep, <1>1, <1>2, PTL DEF Spec

\* What a user has put into the workspace goes by an upload or a deletion of that user
\* alone: no step of another call takes it, and no later step of a call of another kind.
THEOREM OwnSkillsStay == Spec => PersonalKept
  <1>1. SkillsInv /\ [Skills!Next]_Skills!vars => [part = "skills" => Skills!KeepsPersonal]_skillsVars
    BY SkillsKept DEF Skills!vars, skillsVars
  <1>2. ~Is("skills") => [part = "skills" => Skills!KeepsPersonal]_skillsVars
    BY DEF Is
  <1> QED  BY SkillsAlone, SkillsInit, SkillsStep, <1>1, <1>2, PTL DEF Spec, PersonalKept

\* What the agent server sends under a run is what the CLI said to the prompt of that
\* run, though the runs of a connection share a runner, its process and its queue.
THEOREM RunsGetTheirOwn == Spec => []OwnEvents
  <1>1. Agent!Spec => []Agent!OwnEvents
    BY Agent!RunsGetTheirOwn
  <1>2. ~Is("agent") => OwnEvents
    BY DEF OwnEvents, Is
  <1>3. Agent!OwnEvents => OwnEvents
    BY DEF OwnEvents
  <1> QED  BY AgentAlone, <1>1, <1>2, <1>3, PTL DEF Spec, Agent!Spec

\* A pump that waits has an event in the queue to wait for or a thread that will put
\* one, unless that thread was in its finally when it was given the prompt.
THEOREM PumpIsFed == Spec => []PumpFed
  <1>1. Agent!Spec => []Agent!PumpFed
    BY Agent!PumpIsFed
  <1>2. ~Is("agent") => PumpFed
    BY DEF PumpFed, Is
  <1>3. Agent!PumpFed => PumpFed
    BY DEF PumpFed
  <1> QED  BY AgentAlone, <1>1, <1>2, <1>3, PTL DEF Spec, Agent!Spec

\* Once a connection is over, every thread of it that is still alive has been told to
\* end: no CLI is left to work or to wait for a prompt.
THEOREM NoneLeftBehind == Spec => []NoCliLeftBehind
  <1>1. Agent!Spec => []Agent!NoCliLeftBehind
    BY Agent!NoneLeftBehind
  <1>2. ~Is("agent") => NoCliLeftBehind
    BY DEF NoCliLeftBehind, Is
  <1>3. Agent!NoCliLeftBehind => NoCliLeftBehind
    BY DEF NoCliLeftBehind
  <1> QED  BY AgentAlone, <1>1, <1>2, <1>3, PTL DEF Spec, Agent!Spec

\* While a bridge is registered for a session, no run of it gets as far as to connect.
THEOREM OneRunPerBridge == Spec => []NeverReused
  <1>1. ~Is("session") => NeverReused
    BY DEF NeverReused, Is
  <1>2. SessionInv => NeverReused
    BY DEF NeverReused, SessionInv
  <1> QED  BY SessionAlone, SessionInit, SessionStep, <1>1, <1>2, PTL DEF Spec

\* A run that has ended by itself over a connection that is still up has left no CLI at
\* work.
THEOREM NoCliAfterTheEnd == Spec => []EndedIsOver
  <1>1. ~Is("session") => EndedIsOver
    BY DEF EndedIsOver, Is
  <1>2. SessionInv => EndedIsOver
    BY DEF EndedIsOver, SessionInv
  <1> QED  BY SessionAlone, SessionInit, SessionStep, <1>1, <1>2, PTL DEF Spec

\* The entry of a user who was active lately is there while the container runs, unless a
\* listing has failed since.
THEOREM ActiveKnown == Spec => []ActiveIsStamped
  <1>1. ~Is("pool") => ActiveIsStamped
    BY DEF ActiveIsStamped, Is
  <1>2. Pool!ActiveIsStamped => ActiveIsStamped
    BY DEF ActiveIsStamped
  <1> QED  BY PoolAlone, PoolKnows, <1>1, <1>2, PTL DEF Spec, Pool!Spec

\* The idle monitor never stops the container of a user who was active within the time
\* it allows, unless a listing has failed since that activity.
THEOREM OnlyIdleStopped == Spec => StopsIdleOnly
  <1>1. Pool!TypeOK /\ Pool!ActiveIsStamped /\ [Pool!Next]_Pool!vars
            => [part = "pool" => Pool!StopsIdle]_poolVars
    BY PoolStops DEF Pool!vars, poolVars
  <1>2. ~Is("pool") => [part = "pool" => Pool!StopsIdle]_poolVars
    BY DEF Is
  <1>3. Pool!Init => Pool!TypeOK /\ Pool!ActiveIsStamped
    BY PoolInit DEF Pool!Init, Pool!ActiveIsStamped
  <1> QED  BY PoolAlone, PoolTypes, PoolStamped, <1>1, <1>2, <1>3, PTL DEF Spec, StopsIdleOnly

\* What an operation has written before it answered is in the file, unless it swallows
\* its failures or leaves the commit to others.
THEOREM AnswersLast == Spec => []AnsweredIsDurable
  <1>1. Conn!Spec => []Conn!AnsweredIsDurable
    BY Conn!AnswersLast
  <1>2. ~Is("connection") => AnsweredIsDurable
    BY DEF AnsweredIsDurable, Is
  <1>3. Conn!AnsweredIsDurable => AnsweredIsDurable
    BY DEF AnsweredIsDurable
  <1> QED  BY ConnAlone, <1>1, <1>2, <1>3, PTL DEF Spec, Conn!Spec

\* Of a call that writes several rows and commits once, all or none are in the file for
\* good, unless another call has committed in the middle of it.
THEOREM HalvesOnlyByOthers == Spec => []SplitOnlyByOthers
  <1>1. Conn!Spec => []Conn!SplitOnlyByOthers
    BY Conn!HalvesOnlyByOthers
  <1>2. ~Is("connection") => SplitOnlyByOthers
    BY DEF SplitOnlyByOthers, Is
  <1>3. Conn!SplitOnlyByOthers => SplitOnlyByOthers
    BY DEF SplitOnlyByOthers
  <1> QED  BY ConnAlone, <1>1, <1>2, <1>3, PTL DEF Spec, Conn!Spec

\* No crash, failure or restart, in whatever order, loses a row of a table.
THEOREM NoRowLost == Spec => []RowsKept
  <1>1. Start!Spec => []Start!RowsKept
    BY Start!NoRowLost
  <1>2. ~Is("start") => RowsKept
    BY DEF RowsKept, Is
  <1>3. Start!RowsKept => RowsKept
    BY DEF RowsKept
  <1> QED  BY StartAlone, <1>1, <1>2, <1>3, PTL DEF Spec, Start!Spec

\* A server that has come up finds the rows of every table under its name, the tables
\* apart whose rebuild, without a transaction of its own, was cut short.
THEOREM ServesAll == Spec => []RowsServed
  <1>1. Start!Spec => []Start!RowsServed
    BY Start!ServesAll
  <1>2. ~Is("start") => RowsServed
    BY DEF RowsServed, Is
  <1>3. Start!RowsServed => RowsServed
    BY DEF RowsServed
  <1> QED  BY StartAlone, <1>1, <1>2, <1>3, PTL DEF Spec, Start!Spec

\* No server that no failure has hit enforces foreign keys, whatever init and migrate_v8
\* declare.
THEOREM NeverEnforced == Spec => []ForeignKeysOff
  <1>1. Start!Spec => []Start!ForeignKeysOff
    BY Start!NeverEnforced
  <1>2. ~Is("start") => ForeignKeysOff
    BY DEF ForeignKeysOff, Is
  <1>3. Start!ForeignKeysOff => ForeignKeysOff
    BY DEF ForeignKeysOff
  <1> QED  BY StartAlone, <1>1, <1>2, <1>3, PTL DEF Spec, Start!Spec

\* The periodic scan gives no event to the model twice, as long as the time of the last
\* scan could be saved.
THEOREM OnlyOnce == Spec => []AnalysedOnce
  <1>1. Extract!Spec => []Extract!AnalysedOnce
    BY Extract!OnlyOnce
  <1>2. ~Is("extraction") => AnalysedOnce
    BY DEF AnalysedOnce, Is
  <1>3. Extract!AnalysedOnce => AnalysedOnce
    BY DEF AnalysedOnce
  <1> QED  BY ExtractAlone, <1>1, <1>2, <1>3, PTL DEF Spec, Extract!Spec

\* The page shows no message of a session twice, of a session whole in memory or not.
THEOREM OnThePageOnce == Spec => []ShownOnce
  <1>1. Whole!Spec => []Whole!ShownOnce
    BY Whole!ShownOnceAlways, WholeAssumed
  <1>2. Evicted!Spec => []Evicted!ShownOnce
    BY Evicted!ShownOnceAlways, EvictedAssumed
  <1>3. ~Is("whole") /\ ~Is("evicted") => ShownOnce
    BY DEF ShownOnce, Is, Pages
  <1>4. Whole!ShownOnce => ShownOnce
    BY DEF ShownOnce
  <1>5. Evicted!ShownOnce => Whole!ShownOnce
    BY DEF Whole!ShownOnce, Evicted!ShownOnce
  <1> QED
    BY WholeAlone, EvictedAlone, <1>1, <1>2, <1>3, <1>4, <1>5, PTL
       DEF Spec, Whole!Spec, Evicted!Spec

\* The messages that the prompts of a page give rise to, four each, find room in the
\* memory of the session that is whole, with its text and its stream event.
FewPrompts == IsFiniteSet(Prompt) /\ 4 * Cardinality(Prompt) + 2 <= 50

\* So nothing is evicted there, and elsewhere no stream event is.
LEMMA WholeCalm == FewPrompts => Whole!Calm
  <1> SUFFICES ASSUME FewPrompts PROVE Whole!Calm
    OBVIOUS
  <1>1. Whole!IsFiniteSet(Prompt)
    BY DEF FewPrompts, IsFiniteSet, Whole!IsFiniteSet
  <1>2. Whole!Cardinality(Prompt) = Cardinality(Prompt)
    BY DEF Cardinality, Whole!Cardinality
  <1>3. Cardinality(Prompt) \in Nat
    BY FS_CardinalityType DEF FewPrompts
  <1>4. 4 * Whole!Cardinality(Prompt) + 1 + 1 <= 50
    BY <1>2, <1>3 DEF FewPrompts
  <1> QED  BY <1>1, <1>4 DEF Whole!Calm, Whole!Roomy

LEMMA EvictedCalm == Evicted!Calm
  BY DEF Evicted!Calm

\* The page misses no message: it shows it, or has it on its way, or its loop has it to
\* send, through a broken connection or a reload, of a session whole in memory or not.
THEOREM PageMissesNothing ==
  ASSUME FewPrompts
  PROVE  Spec => []NothingSkipped
  <1>1. Whole!Spec => []Whole!NothingSkipped
    BY Whole!NothingSkippedAlways, WholeAssumed, WholeCalm
  <1>2. Evicted!Spec => []Evicted!NothingSkipped
    BY Evicted!NothingSkippedAlways, EvictedAssumed, EvictedCalm
  <1>3. ~Is("whole") /\ ~Is("evicted") => NothingSkipped
    BY DEF NothingSkipped, Is, Pages
  <1>4. Whole!NothingSkipped => NothingSkipped
    BY DEF NothingSkipped
  <1>5. Evicted!NothingSkipped => Whole!NothingSkipped
    BY DEF Whole!NothingSkipped, Evicted!NothingSkipped, Whole!VisibleRows, Evicted!VisibleRows,
           Whole!Visible, Evicted!Visible, Whole!Watching, Evicted!Watching, Whole!Shown,
           Evicted!Shown, Whole!Ids, Evicted!Ids, Whole!RowId, Evicted!RowId, Whole!OnWire,
           Evicted!OnWire, Whole!FrameId, Evicted!FrameId, Whole!ToCome, Evicted!ToCome,
           Whole!GetHistory, Evicted!GetHistory
  <1> QED
    BY WholeAlone, EvictedAlone, <1>1, <1>2, <1>3, <1>4, <1>5, PTL
       DEF Spec, Whole!Spec, Evicted!Spec

\* A subscribe loop that ends leaves nothing unsent to the page that was there.
THEOREM SubscribeLeavesNothing ==
  ASSUME FewPrompts
  PROVE  Spec => LeavesNothing
  <1>1. Whole!Spec => [][Whole!SendsAll]_Whole!vars
    BY Whole!SendsAllAlways, WholeAssumed, WholeCalm
  <1>2. Evicted!Spec => [][Evicted!SendsAll]_Evicted!vars
    BY Evicted!SendsAllAlways, EvictedAssumed, EvictedCalm
  <1>3. ~Is("whole") /\ ~Is("evicted") => [part \notin Pages \/ Whole!SendsAll]_pageVars
    BY DEF Is, Pages
  <1>4. [Whole!SendsAll]_Whole!vars => [part \notin Pages \/ Whole!SendsAll]_pageVars
    BY DEF Whole!vars, pageVars
  <1>5. [Evicted!SendsAll]_Evicted!vars => [Whole!SendsAll]_Whole!vars
    BY DEF Whole!vars, Evicted!vars, Whole!SendsAll, Evicted!SendsAll, Whole!VisibleRows,
           Evicted!VisibleRows, Whole!Visible, Evicted!Visible, Whole!Shown, Evicted!Shown,
           Whole!Ids, Evicted!Ids, Whole!RowId, Evicted!RowId, Whole!OnWire, Evicted!OnWire,
           Whole!FrameId, Evicted!FrameId
  <1> QED
    BY WholeAlone, EvictedAlone, <1>1, <1>2, <1>3, <1>4, <1>5, PTL
       DEF Spec, Whole!Spec, Evicted!Spec, LeavesNothing

\* Every service keeps to its types: the bounds and the records that its code relies on.
THEOREM EveryTypeKept == Spec => []TypesOK
  <1>1. Skills!Spec => []Skills!TypeOK
    BY SkillsInit, SkillsStep, PTL DEF SkillsInv, Skills!Spec
  <1>2. Agent!Spec => []Agent!TypeOK
    BY Agent!KeepsTypes, ServicesAssumption
  <1>3. Session!Spec => []Session!TypeOK
    BY SessionInit, SessionStep, PTL DEF SessionInv, Session!Spec
  <1>4. Pool!Spec => []Pool!TypeOK
    BY PoolTypeCorrect
  <1>5. Conn!Spec => []Conn!TypeOK
    BY Conn!TypeCorrect
  <1>6. Start!Spec => []Start!MigrationTypeOK
    BY Start!KeepsTypes, ServicesAssumption
  <1>7. Extract!Spec => []Extract!ExtractionTypeOK
    BY Extract!KeepsTypes, ServicesAssumption
  <1>8. Whole!Spec => []Whole!TypeOK
    BY Whole!TypeCorrect, WholeAssumed
  <1>9. Evicted!Spec => []Evicted!TypeOK
    BY Evicted!TypeCorrect, EvictedAssumed
  <1>10. Evicted!TypeOK => Whole!TypeOK
    BY DEF Whole!TypeOK, Evicted!TypeOK, Whole!Message, Evicted!Message, Whole!Frame,
           Evicted!Frame, Whole!Request, Evicted!Request, Whole!Index, Evicted!Index,
           Whole!NoSeq, Evicted!NoSeq, Whole!Terminal, Evicted!Terminal, Whole!Stored,
           Evicted!Stored, Whole!Visible, Evicted!Visible, Whole!Kinds, Evicted!Kinds,
           Whole!Watching, Evicted!Watching, Whole!NotAsked, Evicted!NotAsked,
           Whole!Taken, Evicted!Taken
  <1> DEFINE S == Is("skills") => Skills!TypeOK
             A == Is("agent") => Agent!TypeOK
             X == Is("session") => Session!TypeOK
             P == Is("pool") => Pool!TypeOK
             C == Is("connection") => Conn!TypeOK
             M == Is("start") => Start!MigrationTypeOK
             E == Is("extraction") => Extract!ExtractionTypeOK
             W == Is("whole") => Whole!TypeOK
             V == Is("evicted") => Evicted!TypeOK
  <1>11. Spec => []S  BY SkillsAlone, <1>1, PTL DEF Spec, Skills!Spec
  <1>12. Spec => []A  BY AgentAlone, <1>2, PTL DEF Spec, Agent!Spec
  <1>13. Spec => []X  BY SessionAlone, <1>3, PTL DEF Spec, Session!Spec
  <1>14. Spec => []P  BY PoolAlone, <1>4, PTL DEF Spec, Pool!Spec
  <1>15. Spec => []C  BY ConnAlone, <1>5, PTL DEF Spec, Conn!Spec
  <1>16. Spec => []M  BY StartAlone, <1>6, PTL DEF Spec, Start!Spec
  <1>17. Spec => []E  BY ExtractAlone, <1>7, PTL DEF Spec, Extract!Spec
  <1>18. Spec => []W  BY WholeAlone, <1>8, PTL DEF Spec, Whole!Spec
  <1>19. Spec => []V  BY EvictedAlone, <1>9, PTL DEF Spec, Evicted!Spec
  <1>20. S /\ A /\ X /\ P /\ C /\ M /\ E /\ W /\ V => TypesOK
    BY <1>10 DEF Is, TypesOK, Pages
  <1> HIDE DEF S, A, X, P, C, M, E, W, V
  <1> QED
    BY <1>11, <1>12, <1>13, <1>14, <1>15, <1>16, <1>17, <1>18, <1>19, <1>20, PTL
=============================================================================
