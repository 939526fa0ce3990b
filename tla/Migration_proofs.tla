-------------------------- MODULE Migration_proofs --------------------------
(***************************************************************************)
(* No start of the server loses a row, for any rows and any number of      *)
(* failures, crashes and restarts, in whatever order they come.            *)
(***************************************************************************)
EXTENDS Migration, TLAPS

Rebuilding == {"rename", "new", "copy", "drop"}
Kind       == Rebuilding \cup {"unless", "fkOff", "fkOn", "begin", "commit", "create",
                               "schema", "query", "rows"}
Statement  == [do : Kind, table : Table, shape : Shape]

\* In section q, what is done to a table at j, and at j + 1, is a and then b
Leads(q, j, a, b) ==
    q[j].do = a => j < Len(q) /\ q[j + 1].do = b /\ q[j + 1].table = q[j].table
Comes(q, j, a, b) ==
    q[j].do = b => 1 < j /\ q[j - 1].do = a /\ q[j - 1].table = q[j].table

\* A rebuild is a rename, a new table, a copy and a drop, in this order; that of
\* a table that is not bare is within a transaction
Ordered(q) ==
    \A j \in 1 .. Len(q) :
        /\ Leads(q, j, "rename", "new") /\ Comes(q, j, "rename", "new")
        /\ Leads(q, j, "new", "copy")   /\ Comes(q, j, "new", "copy")
        /\ Leads(q, j, "copy", "drop")  /\ Comes(q, j, "copy", "drop")
        /\ q[j].do \in Rebuilding =>
              /\ 1 < j
              /\ \/ q[j].table \in Bare
                 \/ q[j - 1].do = "begin"
                 \/ q[j - 1].do \in Rebuilding /\ q[j - 1].table \notin Bare

WellFormed(q) == q \in Seq(Statement) /\ Len(q) \in 1 .. 13 /\ Ordered(q)

-----------------------------------------------------------------------------
(* The program. *)

\* Program q is a and then b
InOrder(q, a, b) ==
    /\ q \in Seq(Statement) /\ Len(q) = Len(a) + Len(b)
    /\ \A j \in 1 .. Len(a) : q[j] = a[j]
    /\ \A j \in 1 .. Len(b) : q[Len(a) + j] = b[j]

LEMMA InARow == \A a, b \in Seq(Statement) : InOrder(a \o b, a, b)
  BY DEF InOrder

\* The four statements of a rebuild
LEMMA RebuildIs ==
  ASSUME NEW t \in Table, NEW s \in Shape
  PROVE  /\ Rebuild(t, s) \in Seq(Statement)
         /\ Len(Rebuild(t, s)) = 4
         /\ Rebuild(t, s)[1] = OnTable("rename", t)
         /\ Rebuild(t, s)[2] = [do |-> "new", table |-> t, shape |-> s]
         /\ Rebuild(t, s)[3] = OnTable("copy", t)
         /\ Rebuild(t, s)[4] = OnTable("drop", t)
  <1>1. OnTable("rename", t) \in Statement /\ OnTable("copy", t) \in Statement
        /\ OnTable("drop", t) \in Statement
        /\ [do |-> "new", table |-> t, shape |-> s] \in Statement
    BY DEF OnTable, Statement, Kind, Rebuilding, Shape
  <1> QED  BY <1>1 DEF Rebuild

\* Program q is a and d around the rebuilds of t and v
Around(q, a, t, v, s, d) ==
    /\ q \in Seq(Statement) /\ Len(q) = Len(a) + 8 + Len(d)
    /\ \A j \in 1 .. Len(a) : q[j] = a[j]
    /\ \A j \in 1 .. 4 : q[Len(a) + j] = Rebuild(t, s)[j]
    /\ \A j \in 1 .. 4 : q[Len(a) + 4 + j] = Rebuild(v, s)[j]
    /\ \A j \in 1 .. Len(d) : q[Len(a) + 8 + j] = d[j]

LEMMA TwoRebuilds ==
  \A a, d \in Seq(Statement), s \in Shape, t, v \in Table :
      Around(a \o Rebuild(t, s) \o Rebuild(v, s) \o d, a, t, v, s, d)
  <1> SUFFICES ASSUME NEW a \in Seq(Statement), NEW d \in Seq(Statement),
                      NEW s \in Shape, NEW t \in Table, NEW v \in Table
               PROVE  Around(a \o Rebuild(t, s) \o Rebuild(v, s) \o d, a, t, v, s, d)
    OBVIOUS
  <1> DEFINE u == Rebuild(t, s)
             g == Rebuild(v, s)
             x == a \o u
             y == x \o g
             q == y \o d
  <1>1. u \in Seq(Statement) /\ Len(u) = 4 /\ g \in Seq(Statement) /\ Len(g) = 4
    BY RebuildIs
  <1>2. a \o Rebuild(t, s) \o Rebuild(v, s) \o d = q
    OBVIOUS
  <1> HIDE DEF u, g, q
  <1>3. InOrder(x, a, u)
    BY <1>1, InARow
  <1> HIDE DEF x
  <1>4. x \in Seq(Statement)
    BY <1>3 DEF InOrder
  <1>5. InOrder(y, x, g)
    BY <1>1, <1>4, InARow
  <1> HIDE DEF y
  <1>6. y \in Seq(Statement)
    BY <1>5 DEF InOrder
  <1>7. InOrder(q, y, d)
    BY <1>6, InARow DEF q
  <1>8. Len(a) \in Nat
    OBVIOUS
  <1>9. Len(x) = Len(a) + 4 /\ (\A j \in 1 .. Len(a) : x[j] = a[j])
        /\ (\A j \in 1 .. 4 : x[Len(a) + j] = u[j])
    BY <1>1, <1>3 DEF InOrder
  <1>10. Len(y) = Len(a) + 8 /\ (\A j \in 1 .. Len(a) + 4 : y[j] = x[j])
        /\ (\A j \in 1 .. 4 : y[Len(a) + 4 + j] = g[j])
    BY <1>1, <1>8, <1>9, <1>5 DEF InOrder
  <1>11. q \in Seq(Statement) /\ Len(q) = Len(a) + 8 + Len(d)
        /\ (\A j \in 1 .. Len(a) + 8 : q[j] = y[j])
        /\ (\A j \in 1 .. Len(d) : q[Len(a) + 8 + j] = d[j])
    BY <1>10, <1>7 DEF InOrder
  <1>12. ASSUME NEW j \in 1 .. Len(a) PROVE q[j] = a[j]
    <2>1. j \in 1 .. Len(a) + 4 /\ j \in 1 .. Len(a) + 8
      BY <1>8
    <2> QED  BY <2>1, <1>9, <1>10, <1>11
  <1>13. ASSUME NEW j \in 1 .. 4 PROVE q[Len(a) + j] = u[j]
    <2>1. Len(a) + j \in 1 .. Len(a) + 4 /\ Len(a) + j \in 1 .. Len(a) + 8
      BY <1>8
    <2> QED  BY <2>1, <1>9, <1>10, <1>11
  <1>14. ASSUME NEW j \in 1 .. 4 PROVE q[Len(a) + 4 + j] = g[j]
    BY <1>8, <1>10, <1>11
  <1>15. Around(q, a, t, v, s, d)
    BY <1>11, <1>12, <1>13, <1>14 DEF u, g, Around
  <1> QED  BY <1>2, <1>15

\* The statements of migrate_drop_session_fks and migrate_drop_stored_name
LEMMA InTransactionIs ==
  ASSUME NEW s \in Shape, NEW q, q = InTransaction(s)
  PROVE  /\ q \in Seq(Statement) /\ Len(q) = 13
         /\ q[1] = Unless("uploads", s) /\ q[2] = Do("fkOff") /\ q[3] = Do("begin")
         /\ \A j \in 1 .. 4 : q[3 + j] = Rebuild("uploads", s)[j]
         /\ \A j \in 1 .. 4 : q[7 + j] = Rebuild("generated_files", s)[j]
         /\ q[12] = Do("commit") /\ q[13] = Do("fkOn")
  <1> DEFINE a == <<Unless("uploads", s), Do("fkOff"), Do("begin")>>
             d == <<Do("commit"), Do("fkOn")>>
  <1>1. a \in Seq(Statement) /\ Len(a) = 3 /\ a[1] = Unless("uploads", s)
        /\ a[2] = Do("fkOff") /\ a[3] = Do("begin")
    BY DEF Unless, Do, Statement, Kind, Rebuilding, Table, Shape
  <1>2. d \in Seq(Statement) /\ Len(d) = 2 /\ d[1] = Do("commit") /\ d[2] = Do("fkOn")
    BY DEF Do, Statement, Kind, Rebuilding, Table, Shape
  <1>3. q = a \o Rebuild("uploads", s) \o Rebuild("generated_files", s) \o d
        /\ "uploads" \in Table /\ "generated_files" \in Table
    BY DEF InTransaction, Table
  <1> HIDE DEF a, d
  <1>4. Around(q, a, "uploads", "generated_files", s, d)
    BY <1>1, <1>2, <1>3, TwoRebuilds
  <1>5. Len(q) = 13 /\ q[1] = a[1] /\ q[2] = a[2] /\ q[3] = a[3]
        /\ q[12] = d[1] /\ q[13] = d[2]
    BY <1>1, <1>2, <1>4 DEF Around
  <1> QED  BY <1>1, <1>2, <1>4, <1>5 DEF Around

\* The statements of migrate_v8
LEMMA V8Is ==
  ASSUME NEW q, q = migrate_v8
  PROVE  /\ q \in Seq(Statement) /\ Len(q) = 11
         /\ q[1] = Do("fkOff")
         /\ \A j \in 1 .. 4 : q[1 + j] = Rebuild("skill_usage", 0)[j]
         /\ \A j \in 1 .. 4 : q[5 + j] = Rebuild("skill_versions", 0)[j]
         /\ q[10] = Do("fkOn") /\ q[11] = Do("commit")
  <1> DEFINE a == <<Do("fkOff")>>
             d == <<Do("fkOn"), Do("commit")>>
  <1>1. a \in Seq(Statement) /\ Len(a) = 1 /\ a[1] = Do("fkOff")
    BY DEF Do, Statement, Kind, Rebuilding, Table, Shape
  <1>2. d \in Seq(Statement) /\ Len(d) = 2 /\ d[1] = Do("fkOn") /\ d[2] = Do("commit")
    BY DEF Do, Statement, Kind, Rebuilding, Table, Shape
  <1>3. q = a \o Rebuild("skill_usage", 0) \o Rebuild("skill_versions", 0) \o d
        /\ "skill_usage" \in Table /\ "skill_versions" \in Table /\ 0 \in Shape
    BY DEF migrate_v8, Table, Shape
  <1> HIDE DEF a, d
  <1>4. Around(q, a, "skill_usage", "skill_versions", 0, d)
    BY <1>1, <1>2, <1>3, TwoRebuilds
  <1> QED  BY <1>1, <1>2, <1>4 DEF Around

\* The statements of migrate_v2_skills
LEMMA SkillsIs ==
  ASSUME NEW q, q = migrate_v2_skills
  PROVE  /\ q \in Seq(Statement) /\ Len(q) = 5
         /\ q[1] = Unless("skills", 1)
         /\ \A j \in 1 .. 4 : q[1 + j] = Rebuild("skills", 1)[j]
  <1> DEFINE a == <<Unless("skills", 1)>>
             u == Rebuild("skills", 1)
  <1>1. a \in Seq(Statement) /\ Len(a) = 1 /\ a[1] = Unless("skills", 1)
    BY DEF Unless, Statement, Kind, Rebuilding, Table, Shape
  <1>2. u \in Seq(Statement) /\ Len(u) = 4
    BY RebuildIs DEF Table, Shape
  <1>3. q = a \o u
    BY DEF migrate_v2_skills
  <1> HIDE DEF a, u
  <1>4. InOrder(q, a, u)
    BY <1>1, <1>2, <1>3, InARow
  <1> QED  BY <1>1, <1>2, <1>4 DEF InOrder, u

LEMMA InTransactionWellFormed == \A s \in Shape : WellFormed(InTransaction(s))
  <1> SUFFICES ASSUME NEW s \in Shape PROVE WellFormed(InTransaction(s))
    OBVIOUS
  <1> DEFINE q == InTransaction(s)
  <1>1. /\ q \in Seq(Statement) /\ Len(q) = 13
        /\ q[1] = Unless("uploads", s) /\ q[2] = Do("fkOff") /\ q[3] = Do("begin")
        /\ q[4] = Rebuild("uploads", s)[1] /\ q[5] = Rebuild("uploads", s)[2]
        /\ q[6] = Rebuild("uploads", s)[3] /\ q[7] = Rebuild("uploads", s)[4]
        /\ q[8] = Rebuild("generated_files", s)[1] /\ q[9] = Rebuild("generated_files", s)[2]
        /\ q[10] = Rebuild("generated_files", s)[3] /\ q[11] = Rebuild("generated_files", s)[4]
        /\ q[12] = Do("commit") /\ q[13] = Do("fkOn")
    BY InTransactionIs
  <1> HIDE DEF q
  <1>2. q[4] = OnTable("rename", "uploads") /\ q[6] = OnTable("copy", "uploads")
        /\ q[5] = [do |-> "new", table |-> "uploads", shape |-> s]
        /\ q[7] = OnTable("drop", "uploads")
    BY <1>1, RebuildIs DEF Table
  <1>3. q[8] = OnTable("rename", "generated_files") /\ q[10] = OnTable("copy", "generated_files")
        /\ q[9] = [do |-> "new", table |-> "generated_files", shape |-> s]
        /\ q[11] = OnTable("drop", "generated_files")
    BY <1>1, RebuildIs DEF Table
  <1>4. ASSUME NEW j \in 1 .. 13
        PROVE  /\ Leads(q, j, "rename", "new") /\ Comes(q, j, "rename", "new")
               /\ Leads(q, j, "new", "copy")   /\ Comes(q, j, "new", "copy")
               /\ Leads(q, j, "copy", "drop")  /\ Comes(q, j, "copy", "drop")
               /\ q[j].do \in Rebuilding =>
                     /\ 1 < j
                     /\ \/ q[j].table \in Bare
                        \/ q[j - 1].do = "begin"
                        \/ q[j - 1].do \in Rebuilding /\ q[j - 1].table \notin Bare
    BY <1>1, <1>2, <1>3 DEF Leads, Comes, Unless, Do, OnTable, Rebuilding, Bare
  <1>5. WellFormed(q)
    BY <1>1, <1>4 DEF WellFormed, Ordered
  <1> QED  BY <1>5 DEF q

LEMMA V8WellFormed == WellFormed(migrate_v8)
  <1> DEFINE q == migrate_v8
  <1>1. /\ q \in Seq(Statement) /\ Len(q) = 11
        /\ q[1] = Do("fkOff")
        /\ q[2] = Rebuild("skill_usage", 0)[1] /\ q[3] = Rebuild("skill_usage", 0)[2]
        /\ q[4] = Rebuild("skill_usage", 0)[3] /\ q[5] = Rebuild("skill_usage", 0)[4]
        /\ q[6] = Rebuild("skill_versions", 0)[1] /\ q[7] = Rebuild("skill_versions", 0)[2]
        /\ q[8] = Rebuild("skill_versions", 0)[3] /\ q[9] = Rebuild("skill_versions", 0)[4]
        /\ q[10] = Do("fkOn") /\ q[11] = Do("commit")
    BY V8Is
  <1> HIDE DEF q
  <1>2. q[2] = OnTable("rename", "skill_usage") /\ q[4] = OnTable("copy", "skill_usage")
        /\ q[3] = [do |-> "new", table |-> "skill_usage", shape |-> 0]
        /\ q[5] = OnTable("drop", "skill_usage")
    BY <1>1, RebuildIs DEF Table, Shape
  <1>3. q[6] = OnTable("rename", "skill_versions") /\ q[8] = OnTable("copy", "skill_versions")
        /\ q[7] = [do |-> "new", table |-> "skill_versions", shape |-> 0]
        /\ q[9] = OnTable("drop", "skill_versions")
    BY <1>1, RebuildIs DEF Table, Shape
  <1>4. ASSUME NEW j \in 1 .. 11
        PROVE  /\ Leads(q, j, "rename", "new") /\ Comes(q, j, "rename", "new")
               /\ Leads(q, j, "new", "copy")   /\ Comes(q, j, "new", "copy")
               /\ Leads(q, j, "copy", "drop")  /\ Comes(q, j, "copy", "drop")
               /\ q[j].do \in Rebuilding => 1 < j /\ q[j].table \in Bare
    BY <1>1, <1>2, <1>3 DEF Leads, Comes, Do, OnTable, Rebuilding, Bare
  <1>5. WellFormed(q)
    BY <1>1, <1>4 DEF WellFormed, Ordered
  <1> QED  BY <1>5 DEF q

LEMMA SkillsWellFormed == WellFormed(migrate_v2_skills)
  <1> DEFINE q == migrate_v2_skills
  <1>1. /\ q \in Seq(Statement) /\ Len(q) = 5
        /\ q[1] = Unless("skills", 1)
        /\ q[2] = Rebuild("skills", 1)[1] /\ q[3] = Rebuild("skills", 1)[2]
        /\ q[4] = Rebuild("skills", 1)[3] /\ q[5] = Rebuild("skills", 1)[4]
    BY SkillsIs
  <1> HIDE DEF q
  <1>2. q[2] = OnTable("rename", "skills") /\ q[4] = OnTable("copy", "skills")
        /\ q[3] = [do |-> "new", table |-> "skills", shape |-> 1]
        /\ q[5] = OnTable("drop", "skills")
    BY <1>1, RebuildIs DEF Table, Shape
  <1>3. ASSUME NEW j \in 1 .. 5
        PROVE  /\ Leads(q, j, "rename", "new") /\ Comes(q, j, "rename", "new")
               /\ Leads(q, j, "new", "copy")   /\ Comes(q, j, "new", "copy")
               /\ Leads(q, j, "copy", "drop")  /\ Comes(q, j, "copy", "drop")
               /\ q[j].do \in Rebuilding => 1 < j /\ q[j].table \in Bare
    BY <1>1, <1>2 DEF Leads, Comes, Unless, OnTable, Rebuilding, Bare
  <1>4. WellFormed(q)
    BY <1>1, <1>3 DEF WellFormed, Ordered
  <1> QED  BY <1>4 DEF q

\* A section that rebuilds nothing
LEMMA PlainWellFormed ==
  ASSUME NEW q \in Seq(Statement), Len(q) \in 1 .. 13,
         \A j \in 1 .. Len(q) : q[j].do \notin Rebuilding
  PROVE  WellFormed(q)
  BY DEF WellFormed, Ordered, Leads, Comes, Rebuilding

LEMMA OthersWellFormed ==
  /\ WellFormed(create_tables) /\ WellFormed(migrate_collective_intelligence)
  /\ WellFormed(migrate_v3) /\ WellFormed(migrate_v4) /\ WellFormed(migrate_v5)
  /\ WellFormed(migrate_v6) /\ WellFormed(migrate_v7) /\ WellFormed(migrate_v9_to_v11)
  /\ WellFormed(migrate_v2_schema)
  <1> DEFINE Plain == Kind \ Rebuilding
  <1>1. ASSUME NEW k \in Plain PROVE Do(k) \in Statement /\ Do(k).do \notin Rebuilding
    BY DEF Do, Statement, Table, Shape
  <1>2. /\ "commit" \in Plain /\ "create" \in Plain /\ "schema" \in Plain
        /\ "query" \in Plain /\ "rows" \in Plain
    BY DEF Kind, Rebuilding
  <1> HIDE DEF Plain
  <1>3. ASSUME NEW k \in Plain
        PROVE  WellFormed(<<Do(k)>>)
    <2> DEFINE q == <<Do(k)>>
    <2>1. q \in Seq(Statement) /\ Len(q) = 1 /\ \A j \in 1 .. 1 : q[j].do \notin Rebuilding
      BY <1>1
    <2> HIDE DEF q
    <2>2. WellFormed(q)
      BY <2>1, PlainWellFormed
    <2> QED  BY <2>2 DEF q
  <1>4. ASSUME NEW k \in Plain, NEW l \in Plain
        PROVE  WellFormed(<<Do(k), Do(l)>>)
    <2> DEFINE q == <<Do(k), Do(l)>>
    <2>1. q \in Seq(Statement) /\ Len(q) = 2 /\ \A j \in 1 .. 2 : q[j].do \notin Rebuilding
      BY <1>1
    <2> HIDE DEF q
    <2>2. WellFormed(q)
      BY <2>1, PlainWellFormed
    <2> QED  BY <2>2 DEF q
  <1>5. ASSUME NEW k \in Plain, NEW l \in Plain, NEW m \in Plain
        PROVE  WellFormed(<<Do(k), Do(l), Do(m)>>)
    <2> DEFINE q == <<Do(k), Do(l), Do(m)>>
    <2>1. q \in Seq(Statement) /\ Len(q) = 3 /\ \A j \in 1 .. 3 : q[j].do \notin Rebuilding
      BY <1>1
    <2> HIDE DEF q
    <2>2. WellFormed(q)
      BY <2>1, PlainWellFormed
    <2> QED  BY <2>2 DEF q
  <1>6. ASSUME NEW k \in Plain, NEW l \in Plain, NEW m \in Plain, NEW n \in Plain
        PROVE  WellFormed(<<Do(k), Do(l), Do(m), Do(n)>>)
    <2> DEFINE q == <<Do(k), Do(l), Do(m), Do(n)>>
    <2>1. q \in Seq(Statement) /\ Len(q) = 4 /\ \A j \in 1 .. 4 : q[j].do \notin Rebuilding
      BY <1>1
    <2> HIDE DEF q
    <2>2. WellFormed(q)
      BY <2>1, PlainWellFormed
    <2> QED  BY <2>2 DEF q
  <1> QED
    BY <1>2, <1>3, <1>4, <1>5, <1>6
    DEF create_tables, migrate_collective_intelligence, migrate_v3, migrate_v4, migrate_v5,
        migrate_v6, migrate_v7, migrate_v9_to_v11, migrate_v2_schema

LEMMA StartupIs ==
  /\ Len(Startup) = 13
  /\ \A i \in 1 .. 13 : WellFormed(Startup[i])
  <1>1. 1 \in Shape /\ 2 \in Shape
    BY DEF Shape
  <1>2. WellFormed(migrate_drop_session_fks) /\ WellFormed(migrate_drop_stored_name)
    BY <1>1, InTransactionWellFormed DEF migrate_drop_session_fks, migrate_drop_stored_name
  <1> QED  BY <1>2, OthersWellFormed, V8WellFormed, SkillsWellFormed DEF Startup
-----------------------------------------------------------------------------
(* Where the start is, and what its next statement is. *)

Position ==
    \/ at = Down
    \/ at = <<14, 1>>
    \/ \E i \in 1 .. 13 : \E j \in 1 .. Len(Startup[i]) : at = <<i, j>>

\* The statement that comes, or one that does nothing
Coming == IF Starting THEN Current ELSE Do("query")

\* What comes first in a section is no part of a rebuild
LEMMA FirstIsPlain ==
  ASSUME NEW i \in 1 .. 13
  PROVE  1 \in 1 .. Len(Startup[i]) /\ Startup[i][1].do \notin Rebuilding
  <1>1. WellFormed(Startup[i])
    BY StartupIs
  <1>2. \A n \in 1 .. 13 : 1 \in 1 .. n
    OBVIOUS
  <1>3. Len(Startup[i]) \in 1 .. 13 /\ 1 \in 1 .. Len(Startup[i])
    BY <1>1, <1>2 DEF WellFormed
  <1> QED  BY <1>1, <1>3 DEF WellFormed, Ordered

LEMMA Where ==
  ASSUME Position
  PROVE  /\ Coming \in Statement
         /\ at \in (0 .. 14) \X (0 .. 20)
         /\ Starting => /\ at[1] \in 1 .. 13 /\ at[2] \in 1 .. Len(Startup[at[1]])
                        /\ at = <<at[1], at[2]>>
                        /\ Coming = Startup[at[1]][at[2]]
         /\ ~Starting => at = Down \/ at = <<14, 1>>
  <1>1. CASE at = Down
    BY <1>1 DEF Coming, Starting, Down, Do, Statement, Kind, Table, Shape
  <1>2. CASE at = <<14, 1>>
    BY <1>2, StartupIs DEF Coming, Starting, Serving, Do, Statement, Kind, Table, Shape
  <1>3. CASE \E i \in 1 .. 13 : \E j \in 1 .. Len(Startup[i]) : at = <<i, j>>
    <2>0. PICK i \in 1 .. 13 : \E j \in 1 .. Len(Startup[i]) : at = <<i, j>>
      BY <1>3
    <2>1. PICK j \in 1 .. Len(Startup[i]) : at = <<i, j>>
      BY <2>0
    <2>2. Startup[i] \in Seq(Statement) /\ Len(Startup[i]) \in 1 .. 13
      BY StartupIs DEF WellFormed
    <2>3. at[1] = i /\ at[2] = j /\ Starting /\ Startup[i][j] \in Statement
      BY <2>1, <2>2, StartupIs DEF Starting, Serving, Down
    <2>3a. \A n \in 1 .. 13 : \A m \in 1 .. n : m \in 0 .. 20
      OBVIOUS
    <2>3b. i \in 0 .. 14 /\ j \in 0 .. 20
      <3> DEFINE n == Len(Startup[i])
      <3>1. n \in 1 .. 13 /\ j \in 1 .. n
        BY <2>1, <2>2
      <3> HIDE DEF n
      <3> QED  BY <2>3a, <3>1
    <2>4. at \in (0 .. 14) \X (0 .. 20) /\ at = <<at[1], at[2]>>
      BY <2>1, <2>3b
    <2>5. Coming = Startup[i][j]
      BY <2>3 DEF Coming, Current
    <2> QED  BY <2>1, <2>3, <2>4, <2>5
  <1> QED  BY <1>1, <1>2, <1>3 DEF Position

\* The section is left
LEMMA Away ==
  ASSUME Position, Starting, NextSection
  PROVE  Position' /\ Coming'.do \notin Rebuilding
  <1>1. at[1] \in 1 .. 13 /\ at' = <<at[1] + 1, 1>>
    BY Where DEF NextSection
  <1>2. CASE at[1] = 13
    <2>1. at' = <<14, 1>>
      BY <1>1, <1>2
    <2>2. ~Starting'
      BY <2>1, StartupIs DEF Starting, Serving
    <2> QED  BY <2>1, <2>2 DEF Position, Coming, Do, Rebuilding
  <1>3. CASE at[1] \in 1 .. 12
    <2>1. PICK i \in 1 .. 13 : at' = <<i, 1>>
      BY <1>1, <1>3
    <2>2. 1 \in 1 .. Len(Startup[i]) /\ Startup[i][1].do \notin Rebuilding
      BY FirstIsPlain
    <2>3. Coming' = Startup[i][1] \/ Coming' = Do("query")
      BY <2>1 DEF Coming, Current
    <2>4. Position'
      BY <2>1, <2>2 DEF Position
    <2> QED  BY <2>2, <2>3, <2>4 DEF Do, Rebuilding
  <1> QED  BY <1>1, <1>2, <1>3

\* After the statement, the next: a rebuild goes on where it was
Follows ==
    /\ Coming.do = "rename" => Coming'.do = "new"  /\ Coming'.table = Coming.table
    /\ Coming.do = "new"    => Coming'.do = "copy" /\ Coming'.table = Coming.table
    /\ Coming.do = "copy"   => Coming'.do = "drop" /\ Coming'.table = Coming.table
    /\ Coming'.do = "new"   => Coming.do = "rename" /\ Coming'.table = Coming.table
    /\ Coming'.do = "copy"  => Coming.do = "new"  /\ Coming'.table = Coming.table
    /\ Coming'.do = "drop"  => Coming.do = "copy" /\ Coming'.table = Coming.table
    /\ Coming'.do \in Rebuilding /\ Coming'.table \notin Bare =>
          \/ Coming.do = "begin"
          \/ Coming.do \in Rebuilding /\ Coming.table \notin Bare

LEMMA Onward ==
  ASSUME Position, Starting, NextStatement
  PROVE  Position' /\ Follows
  <1> DEFINE q == Startup[at[1]]
             j == at[2]
  <1>1. /\ at[1] \in 1 .. 13 /\ j \in 1 .. Len(q) /\ at = <<at[1], j>>
        /\ Coming = q[j] /\ WellFormed(q)
    BY Where, StartupIs
  <1>2. Len(q) \in 1 .. 13
    BY <1>1 DEF WellFormed
  <1>3. CASE j = Len(q)
    <2>1. NextSection
      BY <1>3 DEF NextSection, NextStatement
    <2>2. Position' /\ Coming'.do \notin Rebuilding
      BY <2>1, Away
    <2>3. Coming.do \notin {"rename", "new", "copy"}
      BY <1>1, <1>3 DEF WellFormed, Ordered, Leads
    <2> QED  BY <2>2, <2>3 DEF Follows, Rebuilding
  <1>4. CASE j # Len(q)
    <2>1. at' = <<at[1], j + 1>> /\ j + 1 \in 1 .. Len(q) /\ j + 1 # 1 /\ j + 1 - 1 = j
      BY <1>1, <1>2, <1>4 DEF NextStatement
    <2>2. Coming' = q[j + 1]
      BY <1>1, <2>1, StartupIs DEF Coming, Current, Starting, Serving, Down
    <2>3. Ordered(q)
      BY <1>1 DEF WellFormed
    <2> DEFINE k == j + 1
    <2> HIDE DEF k
    <2>4. k \in 1 .. Len(q) /\ k - 1 = j
      <3>1. j \in Nat
        BY <1>1
      <3> QED  BY <2>1, <3>1 DEF k
    <2>5. Position'
      BY <1>1, <2>1 DEF Position
    <2> HIDE DEF q
    <2>6. /\ Leads(q, j, "rename", "new") /\ Leads(q, j, "new", "copy")
          /\ Leads(q, j, "copy", "drop")
      BY <1>1, <2>3 DEF Ordered
    <2>7. /\ Comes(q, k, "rename", "new") /\ Comes(q, k, "new", "copy")
          /\ Comes(q, k, "copy", "drop")
          /\ q[k].do \in Rebuilding => \/ q[k].table \in Bare
                                       \/ q[k - 1].do = "begin"
                                       \/ q[k - 1].do \in Rebuilding /\ q[k - 1].table \notin Bare
      BY <2>3, <2>4 DEF Ordered
    <2>8. Coming = q[j] /\ Coming' = q[k]
      BY <1>1, <2>2 DEF k
    <2>9. Follows
      BY <2>4, <2>6, <2>7, <2>8 DEF Leads, Comes, Follows, k
    <2> QED  BY <2>5, <2>9
  <1> QED  BY <1>3, <1>4
-----------------------------------------------------------------------------
(* What a statement does to the tables. *)

Contents == [now : Content, old : Content]

\* The table of statement s, c before it, afterwards
After(s, c) ==
    CASE s.do = "rename" -> [now |-> Absent, old |-> c.now]
      [] s.do = "new"    -> [now |-> Holds(s.shape, {}), old |-> c.old]
      [] s.do = "copy"   -> [now |-> [shape |-> c.now.shape, rows |-> c.now.rows \cup c.old.rows,
                                      there |-> c.now.there], old |-> c.old]
      [] s.do = "drop"   -> [now |-> c.now, old |-> Absent]
      [] OTHER           -> c

Types ==
    /\ at \in (0 .. Len(Startup) + 1) \X (0 .. 20)
    /\ live \in [Table -> Contents] /\ disk \in [Table -> Contents]
    /\ inTx \in BOOLEAN /\ enforced \in BOOLEAN
    /\ written \in [Table -> SUBSET Row]
    /\ torn \subseteq Table
    /\ inTx \/ live = disk

\* What a failure leaves alone in a table: a table that is not there has no rows,
\* and the rows written are in it or in its _old
Sound(c, rows) ==
    /\ c.now.there \/ c.now.rows = {}
    /\ c.old.there \/ c.old.rows = {}
    /\ rows = c.now.rows \cup c.old.rows

LEMMA AfterIs ==
  ASSUME NEW s \in Statement, NEW c \in Contents
  PROVE  After(s, c) \in Contents
  BY DEF After, Contents, Content, Absent, Holds, Statement, Shape

LEMMA AfterIsSound ==
  ASSUME NEW s \in Statement, NEW c \in Contents, NEW rows, Sound(c, rows),
         s.do = "rename" => ~c.old.there,
         s.do = "new"    => ~c.now.there,
         s.do = "copy"   => c.now.there,
         s.do = "drop"   => c.old.rows \subseteq c.now.rows
  PROVE  Sound(After(s, c), rows)
  BY DEF After, Sound, Contents, Content, Absent, Holds

LEMMA Executed ==
  ASSUME Types, Position, Execute
  PROVE  /\ Starting /\ NextStatement /\ ~Refused(Coming)
         /\ \A t \in Table :
               \/ Coming.do # "create"
                     /\ live'[t] = IF t = Coming.table THEN After(Coming, live[t]) ELSE live[t]
               \/ Coming.do = "create" /\ live[t].now.there /\ live'[t] = live[t]
               \/ Coming.do = "create" /\ ~live[t].now.there
                     /\ live'[t] = [now |-> Holds(Latest[t], {}), old |-> live[t].old]
         /\ live' \in [Table -> Contents]
         /\ \/ disk' = disk /\ inTx'
            \/ disk' = live' /\ ~inTx'
            \/ disk' = disk /\ live' = live /\ inTx' = inTx
         /\ Coming.do \in {"rename", "new", "drop"} => inTx' = inTx
         /\ Coming.do \in {"copy", "begin"} => inTx'
         /\ inTx' => inTx \/ Coming.do \in {"copy", "begin", "rows"}
         /\ inTx' \/ live' = disk'
         /\ inTx' \in BOOLEAN /\ enforced' \in BOOLEAN
         /\ UNCHANGED <<written, torn, faults>>
  <1> DEFINE s == Coming
             u == Coming.table
  <1>1. s \in Statement /\ Starting /\ s = Current /\ u \in Table /\ u = s.table
    BY Where DEF Execute, Coming, Statement
  <1>2. Succeeds(s) /\ NextStatement /\ UNCHANGED <<written, torn, faults>> /\ ~Refused(s)
    BY <1>1 DEF Execute, Succeeds
  <1>3. live \in [Table -> Contents] /\ inTx \in BOOLEAN /\ enforced \in BOOLEAN
        /\ (inTx \/ live = disk)
    BY DEF Types
  <1> HIDE DEF s, u
  <1>4. enforced' \in BOOLEAN
    BY <1>2, <1>3 DEF Succeeds
  <1>5. CASE s.do = "create"
    <2>1. Schema(CreateIfMissing)
      BY <1>2, <1>5 DEF Succeeds
    <2>2. \A t \in Table : live'[t] = IF live[t].now.there THEN live[t]
                                      ELSE [now |-> Holds(Latest[t], {}), old |-> live[t].old]
      BY <1>3, <2>1 DEF Schema, CreateIfMissing, Contents
    <2>3. \A t \in Table : Holds(Latest[t], {}) \in Content
      BY DEF Holds, Latest, Content, Shape
    <2>4. live' \in [Table -> Contents]
      BY <1>3, <2>1, <2>3 DEF Schema, CreateIfMissing, Contents
    <2> QED  BY <1>1, <1>2, <1>3, <1>4, <1>5, <2>1, <2>2, <2>4 DEF Schema, s
  <1>6. CASE s.do \in {"rename", "new", "drop"}
    <2>1. Schema([live EXCEPT ![u] = After(s, live[u])])
      <3>1. CASE s.do = "rename"
        BY <1>1, <1>2, <1>3, <3>1 DEF Succeeds, After, u, s
      <3>2. CASE s.do = "new"
        <4>1. Schema([live EXCEPT ![u].now = Holds(s.shape, {})])
          BY <1>1, <1>2, <3>2 DEF Succeeds
        <4>3. [live[u] EXCEPT !.now = Holds(s.shape, {})] = [now |-> Holds(s.shape, {}), old |-> live[u].old]
          BY <1>1, <1>3 DEF Contents
        <4>2. After(s, live[u]) = [now |-> Holds(s.shape, {}), old |-> live[u].old]
          BY <3>2 DEF After
        <4> QED  BY <4>1, <4>2, <4>3
      <3>3. CASE s.do = "drop"
        <4>1. Schema([live EXCEPT ![u].old = Absent])
          BY <1>1, <1>2, <3>3 DEF Succeeds
        <4>3. [live[u] EXCEPT !.old = Absent] = [now |-> live[u].now, old |-> Absent]
          BY <1>1, <1>3 DEF Contents
        <4>2. After(s, live[u]) = [now |-> live[u].now, old |-> Absent]
          BY <3>3 DEF After
        <4> QED  BY <4>1, <4>2, <4>3
      <3> QED  BY <1>6, <3>1, <3>2, <3>3
    <2>2. After(s, live[u]) \in Contents
      BY <1>1, <1>3, AfterIs
    <2> QED  BY <1>1, <1>2, <1>3, <1>4, <1>6, <2>1, <2>2 DEF Schema, s, u
  <1>7. CASE s.do = "copy"
    <2>1. live' = [live EXCEPT ![u] = After(s, live[u])] /\ inTx' = TRUE /\ disk' = disk
      <3>1. /\ live' = [live EXCEPT ![u].now.rows = live[u].now.rows \cup live[u].old.rows]
            /\ inTx' = TRUE /\ disk' = disk
        BY <1>1, <1>2, <1>7 DEF Succeeds
      <3>2. After(s, live[u]) = [now |-> [shape |-> live[u].now.shape,
                                          rows |-> live[u].now.rows \cup live[u].old.rows,
                                          there |-> live[u].now.there], old |-> live[u].old]
        BY <1>7 DEF After
      <3>3. live[u] \in Contents
        BY <1>1, <1>3
      <3> DEFINE x == live[u].now.rows \cup live[u].old.rows
      <3> HIDE DEF x
      <3>4. [live[u] EXCEPT !.now.rows = x] =
               [now |-> [shape |-> live[u].now.shape, rows |-> x, there |-> live[u].now.there],
                old |-> live[u].old]
        BY <3>3 DEF Contents, Content
      <3> QED  BY <3>1, <3>2, <3>4 DEF x
    <2>2. After(s, live[u]) \in Contents
      BY <1>1, <1>3, AfterIs
    <2> QED  BY <1>1, <1>2, <1>3, <1>4, <1>7, <2>1, <2>2 DEF s, u
  <1>8. CASE s.do \notin {"create", "rename", "new", "drop", "copy"}
    <2>1. After(s, live[u]) = live[u]
      BY <1>8 DEF After
    <2>2. live' = live
      BY <1>2, <1>8 DEF Succeeds
    <2>3. CASE s.do \in {"begin", "rows"}
      BY <1>1, <1>2, <1>3, <1>4, <1>8, <2>1, <2>2, <2>3 DEF Succeeds, s, u
    <2>4. CASE s.do = "commit"
      BY <1>1, <1>2, <1>3, <1>4, <1>8, <2>1, <2>2, <2>4 DEF Succeeds, s, u
    <2>5. CASE s.do \notin {"begin", "rows", "commit"}
      BY <1>1, <1>2, <1>3, <1>4, <1>8, <2>1, <2>2, <2>5 DEF Succeeds, s, u
    <2> QED  BY <2>3, <2>4, <2>5
  <1> QED  BY <1>5, <1>6, <1>7, <1>8
-----------------------------------------------------------------------------
(* The inductive invariant.  A table whose rebuild no failure has hit is as *)
(* far rebuilt as the start is in the rebuild; on disk it is whole, or      *)
(* half rebuilt outside a transaction.                                      *)

Doing(kinds, t) == Coming.do \in kinds /\ Coming.table = t

RowsSound == \A t \in Table : Sound(live[t], written[t]) /\ Sound(disk[t], written[t])

Copied ==
    \A t \in Table : /\ Doing({"copy"}, t) => live[t].now.there
                     /\ Doing({"drop"}, t) => live[t].old.rows \subseteq live[t].now.rows

Transacted == Coming.do \in Rebuilding /\ Coming.table \notin Bare => inTx

AsFarAs(t) ==
    /\ live[t].old.there <=> Doing({"new", "copy", "drop"}, t)
    /\ live[t].now.there <=> ~Doing({"new"}, t)
    /\ disk[t].old.there \/ disk[t].now.there
    /\ t \in Bare \/ ~disk[t].old.there

Rebuilt == \A t \in Table \ torn : AsFarAs(t)

MigrationInv == Types /\ Position /\ RowsSound /\ Copied /\ Transacted /\ Rebuilt

LEMMA InitInv == Init => MigrationInv
  <1> SUFFICES ASSUME Init PROVE MigrationInv
    OBVIOUS
  <1>1. PICK files \in Shape, skills \in 0 .. 1, rows \in SUBSET Row :
           live = [t \in Table |->
                      [now |-> Holds(CASE t \in {"uploads", "generated_files"} -> files
                                       [] t = "skills"                         -> skills
                                       [] OTHER                                -> 0, rows),
                       old |-> Absent]]
    BY DEF Init
  <1>2. \A t \in Table : /\ live[t] \in Contents
                         /\ live[t].now.there /\ live[t].now.rows = rows
                         /\ live[t].old = Absent
    <2> SUFFICES ASSUME NEW t \in Table
                 PROVE  live[t] \in Contents /\ live[t].now.there /\ live[t].now.rows = rows
                        /\ live[t].old = Absent
      OBVIOUS
    <2>1. PICK n \in Shape : live[t] = [now |-> Holds(n, rows), old |-> Absent]
      <3>1. 0 \in Shape /\ skills \in Shape
        BY DEF Shape
      <3> QED  BY <1>1, <3>1
    <2>2. Holds(n, rows) \in Content /\ Absent \in Content
      BY DEF Holds, Absent, Content, Shape
    <2> QED  BY <2>1, <2>2 DEF Contents, Holds
  <1>3. live \in [Table -> Contents] /\ disk = live /\ at = Down /\ torn = {}
        /\ inTx = FALSE /\ enforced = FALSE /\ faults = 0
        /\ written = [t \in Table |-> live[t].now.rows]
    BY <1>1, <1>2 DEF Init
  <1>4. written \in [Table -> SUBSET Row]
    BY <1>2, <1>3
  <1>5. Position
    BY <1>3 DEF Position
  <1>6. Coming.do = "query"
    BY <1>3 DEF Coming, Starting, Do
  <1>7. RowsSound
    BY <1>2, <1>3 DEF RowsSound, Sound, Absent
  <1>8. Copied /\ Transacted /\ Rebuilt
    BY <1>2, <1>3, <1>6 DEF Copied, Transacted, Rebuilt, AsFarAs, Doing, Absent, Rebuilding
  <1>9. Types
    <2>1. at \in (0 .. Len(Startup) + 1) \X (0 .. 20)
      BY <1>5, Where, StartupIs
    <2> QED  BY <1>3, <1>4, <2>1 DEF Types
  <1> QED  BY <1>5, <1>7, <1>8, <1>9 DEF MigrationInv

\* A step after which no rebuild goes on, and which leaves the tables alone
LEMMA Leaves ==
  ASSUME MigrationInv, UNCHANGED <<live, disk, written>>, Coming'.do \notin Rebuilding,
         torn \subseteq torn',
         \A t \in Table \ torn' : ~Doing({"new", "copy", "drop"}, t)
  PROVE  RowsSound' /\ Copied' /\ Transacted' /\ Rebuilt'
  <1>1. RowsSound'
    BY DEF MigrationInv, RowsSound, Sound
  <1>2. Copied' /\ Transacted'
    BY DEF Copied, Transacted, Doing, Rebuilding
  <1>3. ASSUME NEW t \in Table, t \notin torn' PROVE AsFarAs(t)'
    <2>1. AsFarAs(t) /\ ~Doing({"new", "copy", "drop"}, t)
      BY <1>3 DEF MigrationInv, Rebuilt
    <2>2. ~Doing({"new", "copy", "drop"}, t)' /\ ~Doing({"new"}, t)' /\ ~Doing({"new"}, t)
      BY <2>1 DEF Doing, Rebuilding
    <2> QED  BY <2>1, <2>2 DEF AsFarAs
  <1> QED  BY <1>1, <1>2, <1>3 DEF Rebuilt

LEMMA StepExecute ==
  ASSUME MigrationInv, Execute
  PROVE  RowsSound' /\ Copied' /\ Transacted' /\ Rebuilt'
  <1> DEFINE s == Coming
  <1>1. Types /\ Position /\ RowsSound /\ Copied /\ Transacted /\ Rebuilt
    BY DEF MigrationInv
  <1>2. /\ NextStatement /\ ~Refused(s) /\ Starting
        /\ \A t \in Table :
              \/ s.do # "create" /\ live'[t] = IF t = s.table THEN After(s, live[t]) ELSE live[t]
              \/ s.do = "create" /\ live[t].now.there /\ live'[t] = live[t]
              \/ s.do = "create" /\ ~live[t].now.there
                    /\ live'[t] = [now |-> Holds(Latest[t], {}), old |-> live[t].old]
        /\ live' \in [Table -> Contents]
        /\ \/ disk' = disk /\ inTx'
           \/ disk' = live' /\ ~inTx'
           \/ disk' = disk /\ live' = live /\ inTx' = inTx
        /\ s.do \in {"rename", "new", "drop"} => inTx' = inTx
        /\ s.do \in {"copy", "begin"} => inTx'
        /\ inTx' \in BOOLEAN
        /\ UNCHANGED <<written, torn, faults>>
    BY <1>1, Executed
  <1>3. s \in Statement /\ s.table \in Table /\ Follows
    BY <1>1, <1>2, Where, Onward DEF Statement
  <1>4. live \in [Table -> Contents]
    BY <1>1 DEF Types
  <1> HIDE DEF s
  <1>5. ASSUME NEW t \in Table PROVE Sound(live'[t], written[t])
    <2>1. Sound(live[t], written[t]) /\ live[t] \in Contents
      BY <1>1, <1>4 DEF RowsSound
    <2>2. CASE s.do # "create" /\ t = s.table
      <3>1. live'[t] = After(s, live[t])
        BY <1>2, <2>2
      <3>2. /\ s.do = "rename" => ~live[t].old.there
            /\ s.do = "new" => ~live[t].now.there
        BY <1>2, <2>2 DEF Refused
      <3>3. /\ s.do = "copy" => live[t].now.there
            /\ s.do = "drop" => live[t].old.rows \subseteq live[t].now.rows
        BY <1>1, <2>2 DEF Copied, Doing, s
      <3> QED  BY <1>3, <2>1, <3>1, <3>2, <3>3, AfterIsSound
    <2>3. CASE s.do # "create" /\ t # s.table
      BY <1>2, <2>1, <2>3
    <2>4. CASE s.do = "create"
      BY <1>2, <2>1, <2>4 DEF Sound, Holds, Contents, Content
    <2> QED  BY <2>2, <2>3, <2>4
  <1>6. RowsSound'
    BY <1>1, <1>2, <1>5 DEF RowsSound
  <1>7. Copied'
    <2> SUFFICES ASSUME NEW t \in Table
                 PROVE  /\ Doing({"copy"}, t)' => live'[t].now.there
                        /\ Doing({"drop"}, t)' => live'[t].old.rows \subseteq live'[t].now.rows
      BY DEF Copied
    <2>1. ASSUME Doing({"copy"}, t)' PROVE live'[t].now.there
      <3>1. s.do = "new" /\ s.table = t
        BY <1>3, <2>1 DEF Doing, Follows, s
      <3> QED  BY <1>2, <3>1 DEF After, Holds
    <2>2. ASSUME Doing({"drop"}, t)' PROVE live'[t].old.rows \subseteq live'[t].now.rows
      <3>1. s.do = "copy" /\ s.table = t
        BY <1>3, <2>2 DEF Doing, Follows, s
      <3> QED  BY <1>2, <3>1 DEF After
    <2> QED  BY <2>1, <2>2
  <1>8. Transacted'
    BY <1>1, <1>2, <1>3 DEF Transacted, Follows, Rebuilding, s
  <1>9. ASSUME NEW t \in Table, t \notin torn PROVE AsFarAs(t)'
    <2>1. AsFarAs(t)
      BY <1>1, <1>9 DEF Rebuilt
    <2>2. /\ live'[t].old.there <=> Doing({"new", "copy", "drop"}, t)'
          /\ live'[t].now.there <=> ~Doing({"new"}, t)'
      <3>1. CASE s.do = "rename" /\ s.table = t
        <4>1. Doing({"new"}, t)' /\ Doing({"new", "copy", "drop"}, t)'
          BY <1>3, <3>1 DEF Follows, Doing, s
        <4>2. live[t].now.there
          BY <2>1, <3>1 DEF AsFarAs, Doing, s
        <4>3. live'[t] = [now |-> Absent, old |-> live[t].now]
          BY <1>2, <3>1 DEF After
        <4> QED  BY <4>1, <4>2, <4>3 DEF Absent
      <3>2. CASE s.do = "new" /\ s.table = t
        <4>1. ~Doing({"new"}, t)' /\ Doing({"new", "copy", "drop"}, t)'
          BY <1>3, <3>2 DEF Follows, Doing, s
        <4>2. live[t].old.there
          BY <2>1, <3>2 DEF AsFarAs, Doing, s
        <4>3. live'[t] = [now |-> Holds(s.shape, {}), old |-> live[t].old]
          BY <1>2, <3>2 DEF After
        <4> QED  BY <4>1, <4>2, <4>3 DEF Holds
      <3>3. CASE s.do = "copy" /\ s.table = t
        <4>1. ~Doing({"new"}, t)' /\ Doing({"new", "copy", "drop"}, t)'
          BY <1>3, <3>3 DEF Follows, Doing, s
        <4>2. live[t].old.there /\ live[t].now.there
          BY <2>1, <3>3 DEF AsFarAs, Doing, s
        <4>3. live'[t].now.there = live[t].now.there /\ live'[t].old = live[t].old
          BY <1>2, <3>3 DEF After
        <4> QED  BY <4>1, <4>2, <4>3
      <3>4. CASE s.do = "drop" /\ s.table = t
        <4>1. ~Doing({"new"}, t)' /\ ~Doing({"new", "copy", "drop"}, t)'
          BY <1>3, <3>4 DEF Follows, Doing, s
        <4>2. live[t].now.there
          BY <2>1, <3>4 DEF AsFarAs, Doing, s
        <4>3. live'[t].now = live[t].now /\ live'[t].old = Absent
          BY <1>2, <3>4 DEF After
        <4> QED  BY <4>1, <4>2, <4>3 DEF Absent
      <3>5. CASE ~(s.do \in Rebuilding /\ s.table = t)
        <4>1. ~Doing({"new"}, t)' /\ ~Doing({"new", "copy", "drop"}, t)'
          BY <1>3, <3>5 DEF Follows, Doing, s, Rebuilding
        <4>2. live[t].now.there /\ ~live[t].old.there
          BY <2>1, <3>5 DEF AsFarAs, Doing, s, Rebuilding
        <4>3. s.table = t => After(s, live[t]) = live[t]
          BY <3>5 DEF After, Rebuilding
        <4>4. live'[t] = live[t]
          BY <1>2, <4>2, <4>3
        <4> QED  BY <4>1, <4>2, <4>4
      <3> QED  BY <3>1, <3>2, <3>3, <3>4, <3>5 DEF Rebuilding
    <2>3. /\ disk'[t].old.there \/ disk'[t].now.there
          /\ t \in Bare \/ ~disk'[t].old.there
      <3>1. CASE disk' = disk
        BY <2>1, <3>1 DEF AsFarAs
      <3>2. CASE disk' = live' /\ ~inTx'
        <4>1. live'[t].old.there \/ live'[t].now.there
          BY <2>2 DEF Doing
        <4>2. ASSUME live'[t].old.there PROVE t \in Bare
          <5>1. Coming'.do \in Rebuilding /\ Coming'.table = t
            BY <2>2, <4>2 DEF Doing, Rebuilding
          <5> QED  BY <1>8, <3>2, <5>1 DEF Transacted
        <4> QED  BY <3>2, <4>1, <4>2
      <3> QED  BY <1>2, <3>1, <3>2
    <2> QED  BY <2>2, <2>3 DEF AsFarAs
  <1>10. Rebuilt'
    BY <1>2, <1>9 DEF Rebuilt
  <1> QED  BY <1>6, <1>7, <1>8, <1>10

LEMMA StepTypes ==
  ASSUME MigrationInv, [Next]_migrationVars
  PROVE  Types' /\ Position'
  <1>1. Types /\ Position
    BY DEF MigrationInv
  <1>2. ASSUME Position' PROVE at' \in (0 .. Len(Startup) + 1) \X (0 .. 20)
    <2>1. ASSUME NEW i \in 1 .. 13, NEW j \in 1 .. Len(Startup[i])
          PROVE  <<i, j>> \in (0 .. 14) \X (0 .. 20)
      <3>1. \A n \in 1 .. 13 : \A m \in 1 .. n : m \in 0 .. 20
        OBVIOUS
      <3>2. Len(Startup[i]) \in 1 .. 13
        BY StartupIs DEF WellFormed
      <3>3. j \in 0 .. 20
        BY <3>1, <3>2
      <3>4. i \in 0 .. 14
        OBVIOUS
      <3> QED  BY <3>3, <3>4
    <2>2. <<14, 1>> \in (0 .. 14) \X (0 .. 20) /\ Down \in (0 .. 14) \X (0 .. 20)
      BY DEF Down
    <2> QED  BY <1>2, <2>1, <2>2, StartupIs DEF Position
  <1>3. CASE Start
    <2>1. Position'
      BY <1>3, FirstIsPlain DEF Start, Position
    <2> QED  BY <1>1, <1>2, <1>3, <2>1 DEF Types, Start
  <1>4. CASE Execute
    <2>1. Position'
      BY <1>1, <1>4, Executed, Onward
    <2> QED  BY <1>1, <1>2, <1>4, <2>1, Executed DEF Types
  <1>5. CASE AlreadyMigrated \/ Refuse \/ Fail
    <2>1. Starting /\ NextSection /\ UNCHANGED <<live, disk, inTx, enforced, written>>
          /\ torn' \in {torn, Table}
      BY <1>5 DEF AlreadyMigrated, Refuse, Fail
    <2>2. Position'
      BY <1>1, <2>1, Away
    <2> QED  BY <1>1, <1>2, <2>1, <2>2 DEF Types
  <1>6. CASE Crash
    <2>1. Position'
      BY <1>6 DEF Crash, Position
    <2> QED  BY <1>1, <1>2, <1>6, <2>1 DEF Types, Crash, Bare, Table
  <1>7. ASSUME NEW t \in Table, NEW r \in Row, Store(t, r) PROVE Types' /\ Position'
    <2>1. Position'
      BY <1>1, <1>7 DEF Store, Position
    <2>2. live[t] \in Contents
      BY <1>1 DEF Types
    <2> DEFINE x == live[t].now.rows \cup {r}
    <2>3. x \in SUBSET Row
      BY <2>2 DEF Contents, Content
    <2>4. live' = [live EXCEPT ![t].now.rows = x]
      BY <1>7 DEF Store
    <2> HIDE DEF x
    <2>5. [live[t] EXCEPT !.now.rows = x] \in Contents
      BY <2>2, <2>3 DEF Contents, Content
    <2>6. live' \in [Table -> Contents]
      BY <1>1, <2>4, <2>5 DEF Types
    <2>7. written' \in [Table -> SUBSET Row]
      BY <1>1, <1>7 DEF Store, Types
    <2> QED  BY <1>1, <1>2, <1>7, <2>1, <2>6, <2>7 DEF Types, Store
  <1>8. CASE UNCHANGED migrationVars
    BY <1>1, <1>8 DEF migrationVars, Types, Position
  <1> QED  BY <1>3, <1>4, <1>5, <1>6, <1>7, <1>8 DEF Next

LEMMA StepInv ==
  ASSUME MigrationInv, [Next]_migrationVars
  PROVE  MigrationInv'
  <1> USE DEF MigrationInv
  <1>1. Types' /\ Position'
    BY StepTypes
  <1>2. CASE Start
    <2>1. Coming'.do \notin Rebuilding
      <3>1. at' = <<1, 1>>
        BY <1>2 DEF Start
      <3>2. Coming' = Startup[1][1] \/ Coming' = Do("query")
        BY <3>1 DEF Coming, Current
      <3>3. Startup[1][1].do \notin Rebuilding
        BY FirstIsPlain
      <3>4. Do("query").do \notin Rebuilding
        BY DEF Do, Rebuilding
      <3> QED  BY <3>2, <3>3, <3>4
    <2>2. Coming.do = "query"
      BY <1>2 DEF Start, Coming, Starting, Do
    <2> QED  BY <1>1, <1>2, <2>1, <2>2, Leaves DEF Start, Doing
  <1>3. CASE Execute
    BY <1>1, <1>3, StepExecute
  <1>4. CASE AlreadyMigrated
    <2>1. Coming.do = "unless" /\ Starting /\ NextSection
      BY <1>4 DEF AlreadyMigrated, Coming
    <2>2. Coming'.do \notin Rebuilding
      BY <2>1, Away
    <2> QED  BY <1>1, <1>4, <2>1, <2>2, Leaves DEF AlreadyMigrated, Doing
  <1>5. CASE Refuse
    <2>1. Refused(Coming) /\ Starting /\ NextSection
      BY <1>5 DEF Refuse, Coming
    <2>2. Coming'.do \notin Rebuilding
      BY <2>1, Away
    <2>3. ASSUME NEW t \in Table, t \notin torn PROVE ~Doing({"new", "copy", "drop"}, t)
      <3>1. AsFarAs(t)
        BY <2>3 DEF Rebuilt
      <3> QED  BY <2>1, <3>1 DEF AsFarAs, Doing, Refused
    <2> QED  BY <1>1, <1>5, <2>2, <2>3, Leaves DEF Refuse
  <1>6. CASE Fail
    <2>1. Coming'.do \notin Rebuilding
      BY <1>6, Away DEF Fail
    <2> QED  BY <1>1, <1>6, <2>1, Leaves DEF Fail, Types
  <1>7. ASSUME NEW t \in Table, NEW r \in Row, Store(t, r) PROVE MigrationInv'
    <2>1. Coming' = Coming /\ Coming.do = "query"
      BY <1>7 DEF Store, Coming, Current, Starting, Serving, Do
    <2>2. live[t] \in Contents /\ live \in [Table -> Contents] /\ written \in [Table -> SUBSET Row]
      BY DEF Types
    <2> DEFINE x == live[t].now.rows \cup {r}
    <2> HIDE DEF x
    <2>3. live' = [live EXCEPT ![t].now.rows = x] /\ disk' = live' /\ torn' = torn
          /\ written' = [written EXCEPT ![t] = written[t] \cup {r}]
      BY <1>7 DEF Store, x
    <2>4. [live[t] EXCEPT !.now.rows = x] =
             [now |-> [shape |-> live[t].now.shape, rows |-> x, there |-> live[t].now.there],
              old |-> live[t].old]
      BY <2>2 DEF Contents, Content
    <2>5. live'[t] = [now |-> [shape |-> live[t].now.shape, rows |-> x,
                               there |-> live[t].now.there], old |-> live[t].old]
          /\ written'[t] = written[t] \cup {r}
          /\ \A u \in Table \ {t} : live'[u] = live[u] /\ written'[u] = written[u]
      BY <2>2, <2>3, <2>4
    <2>6. live[t].now.there
      BY <1>7 DEF Store
    <2>7. RowsSound'
      <3>1. Sound(live'[t], written'[t])
        BY <2>5, <2>6 DEF RowsSound, Sound, x
      <3>2. \A u \in Table \ {t} : Sound(live'[u], written'[u])
        BY <2>5 DEF RowsSound
      <3> QED  BY <2>3, <3>1, <3>2 DEF RowsSound
    <2>8. Copied' /\ Transacted'
      BY <2>1 DEF Copied, Transacted, Doing, Rebuilding
    <2>9. ASSUME NEW u \in Table, u \notin torn' PROVE AsFarAs(u)'
      <3>1. live'[u].old = live[u].old /\ live'[u].now.there = live[u].now.there
        BY <2>5
      <3>2. AsFarAs(u)
        BY <2>3, <2>9 DEF Rebuilt
      <3> QED  BY <2>1, <2>3, <3>1, <3>2 DEF AsFarAs, Doing
    <2> QED  BY <1>1, <2>7, <2>8, <2>9 DEF Rebuilt
  <1>8. CASE Crash
    <2>1. Coming'.do = "query"
      BY <1>8 DEF Crash, Coming, Starting, Do
    <2>2. RowsSound' /\ Copied' /\ Transacted'
      BY <1>8, <2>1 DEF Crash, RowsSound, Copied, Transacted, Doing, Rebuilding
    <2>3. ASSUME NEW t \in Table, t \notin torn' PROVE AsFarAs(t)'
      <3>1. AsFarAs(t) /\ ~disk[t].old.there
        BY <1>8, <2>3 DEF Crash, Rebuilt, AsFarAs
      <3>2. disk'[t] = disk[t] /\ live'[t] = disk[t]
        BY <1>8 DEF Crash
      <3> QED  BY <2>1, <3>1, <3>2 DEF AsFarAs, Doing
    <2> QED  BY <1>1, <2>2, <2>3 DEF Rebuilt
  <1>9. CASE UNCHANGED migrationVars
    BY <1>1, <1>9 DEF migrationVars, RowsSound, Copied, Transacted, Rebuilt, AsFarAs, Doing,
                      Coming, Starting, Serving, Current
  <1> QED  BY <1>2, <1>3, <1>4, <1>5, <1>6, <1>7, <1>8, <1>9 DEF Next

\* Whatever fails, and whenever the server is killed: a table that no failure has hit
\* is as far rebuilt as the start is, and no row is lost.
THEOREM Rebuilds == Spec => []MigrationInv
  <1>1. MigrationInv /\ [Next]_migrationVars => MigrationInv'
    BY StepInv
  <1> QED  BY InitInv, <1>1, PTL DEF Spec

\* The tables, the transaction and the place of the start have their types.
THEOREM KeepsTypes == ASSUME MaxFaults \in Nat PROVE Spec => []MigrationTypeOK
  <1>1. Init => faults \in 0 .. MaxFaults
    BY DEF Init
  <1>2. MigrationInv /\ faults \in 0 .. MaxFaults /\ [Next]_migrationVars
        => (faults \in 0 .. MaxFaults)'
    <2> SUFFICES ASSUME MigrationInv, faults \in 0 .. MaxFaults, [Next]_migrationVars
                 PROVE  faults' \in 0 .. MaxFaults
      OBVIOUS
    <2>1. CASE Execute
      BY <2>1, Executed DEF MigrationInv
    <2>2. CASE Fail \/ Crash
      BY <2>2 DEF Fail, Crash
    <2> QED  BY <2>1, <2>2 DEF Next, Start, AlreadyMigrated, Refuse, Store, migrationVars
  <1>3. MigrationInv /\ faults \in 0 .. MaxFaults => MigrationTypeOK
    BY DEF MigrationInv, Types, MigrationTypeOK, Contents
  <1> QED  BY Rebuilds, <1>1, <1>2, <1>3, PTL DEF Spec

\* No crash, failure or restart loses a row of a table that is rebuilt.
THEOREM NoRowLost == Spec => []RowsKept
  <1>1. MigrationInv => RowsKept
    BY DEF MigrationInv, RowsSound, Sound, RowsKept
  <1> QED  BY Rebuilds, <1>1, PTL

\* A server that serves finds every row where it looks for it, unless the rebuild of
\* that table was cut short.
THEOREM ServesAll == Spec => []RowsServed
  <1>1. MigrationInv => RowsServed
    <2> SUFFICES ASSUME MigrationInv, Serving, NEW t \in Table, t \notin torn
                 PROVE  live[t].now.there /\ live[t].now.rows = written[t]
      BY DEF RowsServed
    <2>1. Coming.do = "query"
      BY DEF Coming, Starting, Do
    <2>2. live[t].now.there /\ ~live[t].old.there
      BY <2>1 DEF MigrationInv, Rebuilt, AsFarAs, Doing
    <2> QED  BY <2>2 DEF MigrationInv, RowsSound, Sound
  <1> QED  BY Rebuilds, <1>1, PTL

-----------------------------------------------------------------------------
(* The pragma that is lost. *)

LEMMA SectionV8 ==
  /\ Len(Startup[10]) = 11
  /\ Startup[10][1].do = "fkOff"
  /\ Startup[10][4].do = "copy"
  /\ \A j \in {2, 3, 5, 6, 7, 8, 9} : Startup[10][j].do \in Rebuilding
  /\ Startup[10][10].do = "fkOn"
  /\ Startup[10][11].do = "commit"
  <1> DEFINE q == migrate_v8
  <1>1. Startup[10] = q
    BY DEF Startup
  <1>2. /\ Len(q) = 11 /\ q[1] = Do("fkOff") /\ q[10] = Do("fkOn") /\ q[11] = Do("commit")
        /\ q[2] = Rebuild("skill_usage", 0)[1] /\ q[3] = Rebuild("skill_usage", 0)[2]
        /\ q[4] = Rebuild("skill_usage", 0)[3] /\ q[5] = Rebuild("skill_usage", 0)[4]
        /\ q[6] = Rebuild("skill_versions", 0)[1] /\ q[7] = Rebuild("skill_versions", 0)[2]
        /\ q[8] = Rebuild("skill_versions", 0)[3] /\ q[9] = Rebuild("skill_versions", 0)[4]
    BY V8Is
  <1> HIDE DEF q
  <1>3. ASSUME NEW t \in Table
        PROVE  /\ Rebuild(t, 0)[1].do = "rename" /\ Rebuild(t, 0)[2].do = "new"
               /\ Rebuild(t, 0)[3].do = "copy" /\ Rebuild(t, 0)[4].do = "drop"
    <2>1. 0 \in Shape
      BY DEF Shape
    <2>2. /\ Rebuild(t, 0)[1] = OnTable("rename", t) /\ Rebuild(t, 0)[3] = OnTable("copy", t)
          /\ Rebuild(t, 0)[2] = [do |-> "new", table |-> t, shape |-> 0]
          /\ Rebuild(t, 0)[4] = OnTable("drop", t)
      BY <2>1, RebuildIs
    <2> QED  BY <2>2 DEF OnTable
  <1>4. "skill_usage" \in Table /\ "skill_versions" \in Table
    BY DEF Table
  <1>5. \A k : Do(k).do = k
    BY DEF Do
  <1> QED  BY <1>1, <1>2, <1>3, <1>4, <1>5 DEF Rebuilding

LEMMA SectionsAround ==
  /\ Len(Startup[9]) = 2 /\ Startup[9][1].do = "schema" /\ Startup[9][2].do = "commit"
  /\ \A i \in 11 .. 13 : \A j \in 1 .. Len(Startup[i]) : Startup[i][j].do # "fkOn"
  <1>1. \A k : Do(k).do = k
    BY DEF Do
  <1>2. Len(Startup[9]) = 2 /\ Startup[9][1].do = "schema" /\ Startup[9][2].do = "commit"
    BY <1>1 DEF Startup, migrate_v7
  <1>3. \A j \in 1 .. Len(Startup[11]) : Startup[11][j].do # "fkOn"
    BY <1>1 DEF Startup, migrate_v9_to_v11
  <1>4. \A j \in 1 .. Len(Startup[12]) : Startup[12][j].do # "fkOn"
    BY <1>1 DEF Startup, migrate_v2_schema
  <1>5. \A j \in 1 .. Len(Startup[13]) : Startup[13][j].do # "fkOn"
    <2> DEFINE q == migrate_v2_skills
    <2>1. Startup[13] = q
      BY DEF Startup
    <2>2. /\ Len(q) = 5 /\ q[1] = Unless("skills", 1)
          /\ q[2] = Rebuild("skills", 1)[1] /\ q[3] = Rebuild("skills", 1)[2]
          /\ q[4] = Rebuild("skills", 1)[3] /\ q[5] = Rebuild("skills", 1)[4]
      BY SkillsIs
    <2> HIDE DEF q
    <2>3. /\ q[1].do = "unless" /\ q[2].do = "rename" /\ q[3].do = "new"
          /\ q[4].do = "copy" /\ q[5].do = "drop"
      BY <2>2, RebuildIs DEF OnTable, Unless, Table, Shape
    <2> QED  BY <2>1, <2>2, <2>3
  <1> QED  BY <1>2, <1>3, <1>4, <1>5

\* Without a failure, migrate_v8 starts outside a transaction and so does turn the foreign
\* keys off; the INSERT of its first rebuild opens the transaction in which it turns them on
ForeignInv ==
    torn = {} =>
        /\ at = <<10, 1>> => ~inTx
        /\ at[1] = 10 /\ at[2] \in 2 .. 11 => ~enforced
        /\ at[1] \in 11 .. 14 => ~enforced
        /\ at[1] = 10 /\ at[2] \in 5 .. 10 => inTx

LEMMA StepForeign ==
  ASSUME MigrationInv, ForeignInv, [Next]_migrationVars
  PROVE  ForeignInv'
  <1>1. Types /\ Position
    BY DEF MigrationInv
  <1>2. CASE Start
    BY <1>2 DEF Start, ForeignInv
  <1>3. CASE Execute
    <2> SUFFICES ASSUME torn = {}
                 PROVE  /\ at' = <<10, 1>> => ~inTx'
                        /\ at'[1] = 10 /\ at'[2] \in 2 .. 11 => ~enforced'
                        /\ at'[1] \in 11 .. 14 => ~enforced'
                        /\ at'[1] = 10 /\ at'[2] \in 5 .. 10 => inTx'
      BY <1>1, <1>3, Executed DEF ForeignInv
    <2> DEFINE i == at[1]
               j == at[2]
               s == Coming
    <2>1. /\ i \in 1 .. 13 /\ j \in 1 .. Len(Startup[i]) /\ at = <<i, j>> /\ s = Startup[i][j]
          /\ s = Current
      BY <1>1, <1>3, Where DEF Execute, Coming
    <2>2. at' = IF j = Len(Startup[i]) THEN <<i + 1, 1>> ELSE <<i, j + 1>>
      BY <1>3 DEF Execute, NextStatement
    <2>3. enforced' = CASE s.do = "fkOff" /\ ~inTx -> FALSE
                        [] s.do = "fkOn"  /\ ~inTx -> TRUE
                        [] OTHER                   -> enforced
      BY <1>3, <2>1 DEF Execute, Succeeds
    <2>4. /\ s.do \in {"rename", "new", "drop"} => inTx' = inTx
          /\ s.do = "copy" => inTx'
      BY <1>1, <1>3, Executed
    <2>5. s.do = "commit" => ~inTx'
      BY <1>3, <2>1 DEF Execute, Succeeds
    <2> HIDE DEF i, j, s
    <2>6. /\ i = 10 /\ j = 1 => ~inTx
          /\ i = 10 /\ j \in 2 .. 11 => ~enforced
          /\ i \in 11 .. 14 => ~enforced
          /\ i = 10 /\ j \in 5 .. 10 => inTx
      BY <2>1 DEF ForeignInv, i, j
    <2>7. CASE i \in 1 .. 8
      BY <2>2, <2>7
    <2>8. CASE i = 9
      <3>1. s = Startup[9][j] /\ j \in 1 .. 2
        BY <2>1, <2>8, SectionsAround
      <3>2. CASE j = 1
        BY <2>2, <2>8, <3>2, SectionsAround
      <3>3. CASE j = 2
        <4>1. s.do = "commit" /\ at' = <<10, 1>>
          BY <2>2, <2>8, <3>1, <3>3, SectionsAround
        <4> QED  BY <2>5, <4>1
      <3> QED  BY <3>1, <3>2, <3>3
    <2>9. CASE i = 10
      <3>1. j \in 1 .. 11 /\ Len(Startup[10]) = 11 /\ s = Startup[10][j]
        BY <2>1, <2>9, SectionV8
      <3>2. CASE j = 1
        <4>1. s.do = "fkOff" /\ at' = <<10, 2>>
          BY <2>2, <2>9, <3>1, <3>2, SectionV8
        <4> QED  BY <2>3, <2>6, <2>9, <3>2, <4>1
      <3>3. CASE j \in {2, 3}
        <4>1. s.do \in Rebuilding
          BY <2>1, <2>9, <3>3, SectionV8
        <4>2. at' = <<10, j + 1>> /\ j + 1 \in 3 .. 4 /\ ~enforced'
          BY <2>2, <2>3, <2>6, <2>9, <3>1, <3>3, <4>1 DEF Rebuilding
        <4> QED  BY <4>2
      <3>4. CASE j = 4
        <4>1. s.do = "copy"
          BY <2>1, <2>9, <3>4, SectionV8
        <4>2. at' = <<10, 5>> /\ ~enforced'
          BY <2>2, <2>3, <2>6, <2>9, <3>1, <3>4, <4>1
        <4> QED  BY <2>4, <4>1, <4>2
      <3>5. CASE j \in 5 .. 9
        <4>1. s.do \in Rebuilding
          <5>1. j \in {2, 3, 5, 6, 7, 8, 9}
            BY <3>5
          <5> QED  BY <3>1, <5>1, SectionV8
        <4>2. at' = <<10, j + 1>> /\ j + 1 \in 6 .. 10 /\ ~enforced' /\ inTx'
          BY <2>2, <2>3, <2>4, <2>6, <2>9, <3>1, <3>5, <4>1 DEF Rebuilding
        <4> QED  BY <4>2
      <3>6. CASE j = 10
        <4>1. at' = <<10, 11>> /\ ~enforced'
          BY <2>1, <2>2, <2>3, <2>6, <2>9, <3>1, <3>6, SectionV8
        <4> QED  BY <4>1
      <3>7. CASE j = 11
        <4>0. s.do = "commit"
          BY <3>1, <3>7, SectionV8
        <4>1. at' = <<11, 1>> /\ ~enforced'
          BY <2>2, <2>3, <2>6, <2>9, <3>1, <3>7, <4>0
        <4> QED  BY <4>1
      <3> QED  BY <3>1, <3>2, <3>3, <3>4, <3>5, <3>6, <3>7
    <2>10. CASE i \in 11 .. 13
      <3>1. s.do # "fkOn"
        BY <2>1, <2>10, SectionsAround
      <3>2. ~enforced'
        BY <2>3, <2>6, <2>10, <3>1
      <3>3. at'[1] # 10
        BY <2>1, <2>2, <2>10
      <3> QED  BY <3>2, <3>3
    <2> QED  BY <2>1, <2>7, <2>8, <2>9, <2>10
  <1>4. CASE AlreadyMigrated \/ Refuse
    <2> DEFINE i == at[1]
               j == at[2]
    <2>1. /\ i \in 1 .. 13 /\ j \in 1 .. Len(Startup[i]) /\ at = <<i, j>>
          /\ Current = Startup[i][j]
      BY <1>1, <1>4, Where DEF AlreadyMigrated, Refuse, Coming
    <2>2. /\ at' = <<i + 1, 1>> /\ UNCHANGED <<inTx, enforced, torn>>
          /\ Startup[i][j].do \in {"unless", "rename", "new", "begin"}
      BY <1>4, <2>1 DEF AlreadyMigrated, Refuse, NextSection, Refused
    <2> HIDE DEF i, j
    <2>3. i # 9
      BY <2>1, <2>2, SectionsAround
    <2>4. i = 10 => j \in 2 .. 11
      <3> SUFFICES ASSUME i = 10 PROVE j \in 2 .. 11
        OBVIOUS
      <3>1. j \in 1 .. 11 /\ Startup[10][j].do # "fkOff"
        BY <2>1, <2>2, SectionV8
      <3> QED  BY <3>1, SectionV8
    <2>5. CASE i \in 1 .. 8
      BY <2>2, <2>5 DEF ForeignInv
    <2>6. CASE i \in 10 .. 13
      <3>1. at'[1] # 10 /\ at' # <<10, 1>>
        BY <2>2, <2>6
      <3>2. torn = {} => ~enforced
        BY <2>1, <2>4, <2>6 DEF ForeignInv
      <3> QED  BY <2>2, <3>1, <3>2 DEF ForeignInv
    <2> QED  BY <2>1, <2>3, <2>5, <2>6
  <1>5. CASE Fail
    BY <1>5 DEF Fail, ForeignInv, Table
  <1>6. CASE Crash
    BY <1>6 DEF Crash, ForeignInv, Down
  <1>7. ASSUME NEW t \in Table, NEW r \in Row, Store(t, r) PROVE ForeignInv'
    <2>1. UNCHANGED <<at, enforced, torn>> /\ at[1] > 13
      BY <1>7, StartupIs DEF Store, Serving
    <2> QED  BY <2>1 DEF ForeignInv
  <1>8. CASE UNCHANGED migrationVars
    BY <1>8 DEF migrationVars, ForeignInv
  <1> QED  BY <1>2, <1>3, <1>4, <1>5, <1>6, <1>7, <1>8 DEF Next

\* No server whose start no failure has hit enforces foreign keys.
THEOREM NeverEnforced == Spec => []ForeignKeysOff
  <1>1. Init => ForeignInv
    BY DEF Init, ForeignInv, Down
  <1>2. MigrationInv /\ ForeignInv /\ [Next]_migrationVars => ForeignInv'
    BY StepForeign
  <1>3. MigrationInv /\ ForeignInv => ForeignKeysOff
    <2> SUFFICES ASSUME MigrationInv, ForeignInv, Serving, torn = {} PROVE ~enforced
      BY DEF ForeignKeysOff
    <2>1. at = <<14, 1>>
      BY Where DEF MigrationInv, Serving, Starting, Down
    <2> QED  BY <2>1 DEF ForeignInv
  <1> QED  BY Rebuilds, <1>1, <1>2, <1>3, PTL DEF Spec
=============================================================================
