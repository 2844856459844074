---------------------------- MODULE AtRestProofs ----------------------------
(***************************************************************************)
(* Theorems about AtRest, for every number of processes, objects and       *)
(* passphrases and every bound on calls and failures.                      *)
(***************************************************************************)
EXTENDS AtRest, FiniteSetTheorems, WellFoundedInduction, TLAPS

-----------------------------------------------------------------------------
(* The inductive invariants.                                               *)

Configs == [objects: BOOLEAN, db: BOOLEAN]
Frames == [conn: Files \cup {None}, pass: Passphrases \cup DbPassphrases \cup {None},
           todo: SUBSET Objects, file: ObjectFiles \cup {None}, json: Configs \cup {None}]

(* The steps of a database migration; and those between its two renames,   *)
(* and while it is taken back.                                             *)
Swapping == {"promote", "rollbackDb", "rollbackBak"}
MigratePcs == Swapping \cup {"removeTmp", "removeBak", "export", "renameBak",
                             "verify", "finish", "rollbackTmp"}

(* What the frame of a process has at each step.                           *)
FrameOK(q, p, c) ==
  p # "idle" =>
    /\ c \in Frames
    /\ p = "save" => c.json \in Configs
    /\ p \in {"put", "row", "rewrite"} => c.todo # {}
    /\ p \in {"object", "rewrite"} => c.pass \in Passphrases
    /\ p = "rewrite" => c.file \in ObjectFiles
    /\ p \in {"put", "row"} \cup MigratePcs => c.conn \in Files
    /\ p \in MigratePcs => c.pass \in DbPassphrases /\ "migrateDb" \in Calls[q]

ControlOK ==
  /\ DOMAIN pc = Procs /\ pc = [q \in Procs |-> pc[q]]
  /\ DOMAIN ctx = Procs /\ ctx = [q \in Procs |-> ctx[q]]
  /\ crashes \in Nat /\ faults \in Nat
  /\ \A q \in Procs : FrameOK(q, pc[q], ctx[q])
TypeInv == TypeOK /\ ControlOK

Tmp == "sqlcipher.tmp"
Bak == "pre-sqlcipher.bak"

(* The file of path n is there and has every row that migrations found.    *)
Holds(n) == path[n] # None /\ settled \subseteq data[path[n]].rows

(* Where the rows are at each step of a migration.                         *)
Stage(p, c) ==
  /\ p \in {"removeTmp", "removeBak", "export", "renameBak"} => path["db"] = c.conn
  /\ p \in {"removeBak", "export"} => path[Tmp] = None
  /\ p \in {"renameBak", "promote"} => Holds(Tmp) /\ data[path[Tmp]].key = c.pass
  /\ p \in Swapping => Holds(Bak)
  /\ p = "verify" => Holds("db") /\ data[path["db"]].key = c.pass
  /\ p \in {"rollbackDb", "rollbackBak", "rollbackTmp"} => faults # 0
StageInv ==
  crashes = 0 /\ faults <= 1 =>
    /\ \A q \in Procs : Stage(pc[q], ctx[q])
    /\ (\A q \in Procs : pc[q] \notin Swapping) => settled \subseteq At("db").rows

AtRestInv == TypeInv /\ StageInv

-----------------------------------------------------------------------------
(* Least elements, and files that are not in use.                          *)

(* MinIn: a set of numbers that is not empty has a least element.          *)
LEMMA MinIn ==
  ASSUME NEW S \in SUBSET Nat, S # {}
  PROVE  Min(S) \in S
<1>1. \E x \in S : \A y \in S : ~ (<<y, x>> \in OpToRel(<, Nat))
  BY NatLessThanWellFounded, WFMin
<1>2. \A x, y \in Nat : ~ (<<y, x>> \in OpToRel(<, Nat)) => x <= y  BY DEF OpToRel
<1>3. \E x \in S : \A y \in S : x <= y  BY <1>1, <1>2
<1>4. QED  BY <1>3 DEF Min

(* ImageCount: a function has no more values than arguments.               *)
LEMMA ImageCount ==
  ASSUME NEW S, IsFiniteSet(S), NEW f, f = [x \in S |-> f[x]]
  PROVE  IsFiniteSet({f[x] : x \in S}) /\ Cardinality({f[x] : x \in S}) <= Cardinality(S)
<1>1. f \in Surjection(S, {f[x] : x \in S})  BY DEF Surjection
<1>2. QED  BY <1>1, FS_Surjection

(* PathsCount: the migration knows three paths.                            *)
LEMMA PathsCount == IsFiniteSet(Paths) /\ Cardinality(Paths) = 3
<1>1. IsFiniteSet({"db"}) /\ Cardinality({"db"}) = 1  BY FS_Singleton
<1>2. IsFiniteSet({"db", Tmp}) /\ Cardinality({"db", Tmp}) = 2
  <2>1. {"db", Tmp} = {"db"} \cup {Tmp} /\ Tmp \notin {"db"}  BY DEF Tmp
  <2>2. QED  BY <1>1, <2>1, FS_AddElement
<1>3. Paths = {"db", Tmp} \cup {Bak} /\ Bak \notin {"db", Tmp}  BY DEF Paths, Tmp, Bak
<1>4. QED  BY <1>2, <1>3, FS_AddElement

(* NewFileFresh: there is a file that no path names.                       *)
LEMMA NewFileFresh ==
  ASSUME TypeInv
  PROVE  NewFile \in Files /\ \A n \in Paths : path[n] # NewFile
<1> DEFINE P == {path[n] : n \in Paths}
           C == [q \in Procs |-> IF ctx[q] = None THEN None ELSE ctx[q].conn]
           Q == {C[q] : q \in Procs}
           Free == {f \in Files : /\ \A n \in Paths : path[n] # f
                                  /\ \A q \in Procs : ctx[q] # None => ctx[q].conn # f}
<1>1. IsFiniteSet(P) /\ Cardinality(P) <= 3
  <2>1. path = [n \in Paths |-> path[n]]  BY DEF TypeInv, TypeOK
  <2>2. QED  BY <2>1, PathsCount, ImageCount
<1>2. IsFiniteSet(Q) /\ Cardinality(Q) <= Cardinality(Procs)
  <2>1. C = [q \in Procs |-> C[q]]  OBVIOUS
  <2> HIDE DEF C
  <2>2. QED  BY <2>1, FilesAssumption, ImageCount
<1>3. Free # {}
  <2>1. SUFFICES ASSUME Free = {} PROVE FALSE  OBVIOUS
  <2>2. Files \subseteq P \cup Q  BY <2>1
  <2>3. IsFiniteSet(P \cup Q) /\ Cardinality(P \cup Q) = Cardinality(P) + Cardinality(Q) - Cardinality(P \cap Q)
    <3> HIDE DEF P, Q
    <3>1. QED  BY <1>1, <1>2, FS_Union
  <2>4. IsFiniteSet(P \cap Q)
    <3> HIDE DEF P, Q
    <3>1. P \cap Q \in SUBSET P  OBVIOUS
    <3>2. QED  BY <1>1, <3>1, FS_Subset
  <2>5. Cardinality(Files) <= Cardinality(P \cup Q)
    <3> HIDE DEF P, Q
    <3>1. Files \in SUBSET (P \cup Q)  BY <2>2
    <3>2. QED  BY <2>3, <3>1, FS_Subset
  <2>6. /\ Cardinality(P) \in Nat /\ Cardinality(Q) \in Nat /\ Cardinality(P \cap Q) \in Nat
        /\ Cardinality(Files) \in Nat /\ Cardinality(Procs) \in Nat
    BY <1>1, <1>2, <2>4, FS_CardinalityType, FilesAssumption
  <2> HIDE DEF P, Q
  <2>7. QED  BY <1>1, <1>2, <2>3, <2>5, <2>6, FilesAssumption
<1>4. Free \in SUBSET Nat  BY FilesAssumption
<1>5. NewFile \in Free  BY <1>3, <1>4, MinIn DEF NewFile
<1>6. QED  BY <1>5

-----------------------------------------------------------------------------
(* Types.                                                                  *)

(* ControlStep: one process moves, with a frame that fits.                 *)
LEMMA ControlStep ==
  ASSUME ControlOK, NEW q \in Procs, NEW p, NEW c, FrameOK(q, p, c),
         pc' = [pc EXCEPT ![q] = p], ctx' = [ctx EXCEPT ![q] = c],
         crashes' \in Nat, faults' \in Nat
  PROVE  ControlOK' /\ pc'[q] = p /\ ctx'[q] = c
         /\ \A r \in Procs : r # q => pc'[r] = pc[r] /\ ctx'[r] = ctx[r]
<1>1. pc'[q] = p /\ ctx'[q] = c  BY DEF ControlOK
<1>2. \A r \in Procs : r # q => pc'[r] = pc[r] /\ ctx'[r] = ctx[r]  BY DEF ControlOK
<1>3. \A r \in Procs : FrameOK(r, pc'[r], ctx'[r])  BY <1>1, <1>2 DEF ControlOK
<1>4. /\ DOMAIN pc' = Procs /\ pc' = [r \in Procs |-> pc'[r]]
      /\ DOMAIN ctx' = Procs /\ ctx' = [r \in Procs |-> ctx'[r]]
  BY DEF ControlOK
<1>5. QED  BY <1>1, <1>2, <1>3, <1>4 DEF ControlOK

ObjectsOK == json \in Configs \cup {None} /\ store \in [Objects -> ObjectFiles \cup {None}]
DbOK ==
  /\ path \in [Paths -> Files \cup {None}] /\ data \in [Files -> DbFiles]
  /\ settled \subseteq Objects
  /\ \A n, m \in Paths : path[n] # None /\ path[n] = path[m] => n = m

(* TypeParts: the type invariant in three parts.                           *)
LEMMA TypeParts == TypeInv <=> ObjectsOK /\ DbOK /\ ControlOK
BY DEF TypeInv, TypeOK, ObjectsOK, DbOK, Configs

(* TypePartsNext: the same after a step.                                   *)
LEMMA TypePartsNext ==
  ASSUME ObjectsOK', DbOK', ControlOK'
  PROVE  TypeInv'
BY DEF TypeInv, TypeOK, ObjectsOK, DbOK, Configs

(* Paths that name files go on naming them, and these lose no row and no   *)
(* key.                                                                    *)
Preserve ==
  /\ settled' = settled
  /\ \A n \in Paths : path[n] # None =>
       /\ path'[n] = path[n] /\ data[path[n]].rows \subseteq data'[path[n]].rows
       /\ data[path[n]].key \in DbPassphrases => data'[path[n]].key = data[path[n]].key
  /\ \A n \in Paths \ {"db"} : path[n] = None => path'[n] = None
Others(q) == \A r \in Procs : r # q => pc'[r] = pc[r] /\ ctx'[r] = ctx[r]
Calm(q) ==
  /\ Preserve /\ Others(q) /\ UNCHANGED <<crashes, faults>>
  /\ pc[q] \notin MigratePcs /\ pc'[q] \notin MigratePcs

(* AtType: what a path has is a database.                                  *)
LEMMA AtType ==
  ASSUME DbOK, NEW n \in Paths
  PROVE  At(n) \in DbFiles /\ Empty \in DbFiles
<1>1. Empty \in DbFiles  BY DEF Empty, DbFiles
<1>2. QED  BY <1>1 DEF At, DbOK

(* SameDb: steps that leave the database alone.                            *)
LEMMA SameDb ==
  ASSUME DbOK, UNCHANGED dbVars
  PROVE  DbOK' /\ Preserve
BY DEF DbOK, dbVars, Preserve

(* OpenKeeps: open_db creates a missing file and otherwise changes no more *)
(* than the key of an empty file.                                          *)
LEMMA OpenKeeps ==
  ASSUME TypeInv, NEW k \in DbPassphrases \cup {"plain"}, OpenDb(k), UNCHANGED settled
  PROVE  DbOK' /\ Preserve /\ DbFile \in Files
<1>1. DbOK /\ "db" \in Paths  BY TypeParts DEF Paths
<1>2. DbFile \in Files /\ (path["db"] # None => DbFile = path["db"])
      /\ \A n \in Paths : n # "db" => path[n] # DbFile
  <2>1. CASE path["db"] = None  BY <2>1, NewFileFresh DEF DbFile
  <2>2. CASE path["db"] # None  BY <1>1, <2>2 DEF DbFile, DbOK
  <2>3. QED  BY <2>1, <2>2
<1>3. PICK b : b = [At("db") EXCEPT !.key = k]  OBVIOUS
<1>4. b \in DbFiles /\ b.key = k /\ b.rows = At("db").rows /\ At("db").key \in {"any", k}
  BY <1>1, <1>3, AtType DEF DbFiles, OpenDb, Opens
<1>5. path' = [path EXCEPT !["db"] = DbFile] /\ data' = [data EXCEPT ![DbFile] = b]
  BY <1>3 DEF OpenDb
<1>6. DbOK'  BY <1>1, <1>2, <1>4, <1>5 DEF DbOK
<1>7. ASSUME NEW n \in Paths, path[n] # None
      PROVE  /\ path'[n] = path[n] /\ data[path[n]].rows \subseteq data'[path[n]].rows
             /\ data[path[n]].key \in DbPassphrases => data'[path[n]].key = data[path[n]].key
  <2>1. CASE n = "db"
    <3>1. path'[n] = DbFile /\ DbFile = path[n] /\ data'[DbFile] = b /\ At("db") = data[path[n]]
      BY <1>1, <1>2, <1>5, <1>7, <2>1 DEF DbOK, At
    <3>2. QED  BY <1>4, <3>1, KeysAssumption
  <2>2. CASE n # "db"
    <3>1. path'[n] = path[n] /\ path[n] \in Files /\ path[n] # DbFile  BY <1>1, <1>2, <1>5, <1>7, <2>2 DEF DbOK
    <3>2. data'[path[n]] = data[path[n]]  BY <1>1, <1>5, <3>1 DEF DbOK
    <3>3. QED  BY <3>1, <3>2
  <2>3. QED  BY <2>1, <2>2
<1>8. \A n \in Paths \ {"db"} : path[n] = None => path'[n] = None  BY <1>1, <1>5 DEF DbOK
<1>9. QED  BY <1>2, <1>6, <1>7, <1>8 DEF Preserve

(* KeyType: the keys that open_db is called with.                          *)
LEMMA KeyType ==
  ASSUME NEW p \in DbPassphrases
  PROVE  DbKey(p) \in DbPassphrases \cup {"plain"}
BY DEF DbKey

(* FrameType: a frame has its fields.                                      *)
LEMMA FrameType ==
  ASSUME NEW f \in Files \cup {None}, NEW p \in Passphrases \cup DbPassphrases \cup {None},
         NEW todo \in SUBSET Objects, NEW j \in Configs \cup {None}
  PROVE  /\ Frame(f, p, todo, j) \in Frames
         /\ Frame(f, p, todo, j).conn = f /\ Frame(f, p, todo, j).pass = p
         /\ Frame(f, p, todo, j).todo = todo /\ Frame(f, p, todo, j).json = j
BY DEF Frame, Frames

(* CallsKeep: enabling, ingest and the start of the object migration.      *)
LEMMA CallsKeep ==
  ASSUME TypeInv, NEW q \in Procs,
         \/ EnableObjects(q) \/ EnableDb(q) \/ Ingest(q)
         \/ \E p \in Passphrases : MigrateObjects(q, p)
  PROVE  TypeInv' /\ Calm(q)
<1>1. ObjectsOK /\ DbOK /\ ControlOK  BY TypeParts
<1>2. ASSUME NEW p \in {"save", "put", "object"}, NEW c, FrameOK(q, p, c), pc[q] = "idle",
             pc' = [pc EXCEPT ![q] = p], ctx' = [ctx EXCEPT ![q] = c], UNCHANGED <<crashes, faults>>
      PROVE  /\ ControlOK' /\ Others(q) /\ pc[q] \notin MigratePcs /\ pc'[q] \notin MigratePcs
             /\ UNCHANGED <<crashes, faults>>
  <2>1. crashes' \in Nat /\ faults' \in Nat  BY <1>1, <1>2 DEF ControlOK
  <2>2. ControlOK' /\ pc'[q] = p /\ Others(q)  BY <1>1, <1>2, <2>1, ControlStep DEF Others
  <2>3. QED  BY <1>2, <2>2 DEF MigratePcs, Swapping
<1>3. CASE EnableObjects(q) \/ EnableDb(q)
  <2>1. PICK j : /\ j \in {[json EXCEPT !.objects = TRUE], [json EXCEPT !.db = TRUE]}
                 /\ \E k \in OpKinds : Call(q, k, "save", Frame(None, None, {}, j))
                 /\ UNCHANGED <<objectVars, dbVars>>
    BY <1>3 DEF EnableObjects, EnableDb, OpKinds
  <2>2. json \in Configs  BY <1>1, <2>1 DEF Call, ObjectsOK
  <2>3. j \in Configs  BY <2>1, <2>2 DEF Configs
  <2>4. FrameOK(q, "save", Frame(None, None, {}, j))
    BY <2>3, FrameType DEF FrameOK, MigratePcs, Swapping
  <2>5. DbOK' /\ Preserve /\ ObjectsOK'  BY <1>1, <2>1, SameDb DEF objectVars, ObjectsOK
  <2>6. QED  BY <1>2, <2>1, <2>4, <2>5, TypePartsNext DEF Call, Calm
<1>4. CASE Ingest(q)
  <2>1. PICK o \in Objects, p \in DbPassphrases :
               OpenDb(DbKey(p)) /\ Call(q, "ingest", "put", Frame(DbFile, None, {o}, None))
    BY <1>4 DEF Ingest
  <2>2. DbOK' /\ Preserve /\ DbFile \in Files  BY <1>4, <2>1, KeyType, OpenKeeps DEF Ingest
  <2>3. {o} \in SUBSET Objects /\ {o} # {}  OBVIOUS
  <2>4. FrameOK(q, "put", Frame(DbFile, None, {o}, None))
    <3> DEFINE c == Frame(DbFile, None, {o}, None)
    <3>1. c \in Frames /\ c.conn \in Files /\ c.todo # {}  BY <2>2, <2>3, FrameType
    <3> HIDE DEF c
    <3>2. FrameOK(q, "put", c)  BY <3>1 DEF FrameOK, MigratePcs, Swapping
    <3>3. QED  BY <3>2 DEF c
  <2>5. ObjectsOK'  BY <1>1, <1>4 DEF Ingest, objectVars, ObjectsOK
  <2>6. QED  BY <1>2, <2>1, <2>2, <2>4, <2>5, TypePartsNext DEF Call, Calm
<1>5. ASSUME NEW p \in Passphrases, MigrateObjects(q, p) PROVE TypeInv' /\ Calm(q)
  <2>1. PICK k \in DbPassphrases :
               OpenDb(DbKey(k)) /\ GotoWith(q, "object", Frame(DbFile, p, At("db").rows, None))
    BY <1>5 DEF MigrateObjects
  <2>2. DbOK' /\ Preserve /\ DbFile \in Files  BY <1>5, <2>1, KeyType, OpenKeeps DEF MigrateObjects
  <2>3. At("db").rows \in SUBSET Objects  BY <1>1, AtType DEF DbFiles, Paths
  <2>4. FrameOK(q, "object", Frame(DbFile, p, At("db").rows, None))
    BY <2>2, <2>3, FrameType DEF FrameOK, MigratePcs, Swapping
  <2>5. ObjectsOK' /\ pc[q] = "idle"  BY <1>1, <1>5 DEF MigrateObjects, objectVars, ObjectsOK
  <2>6. QED  BY <1>2, <2>1, <2>2, <2>4, <2>5, TypePartsNext DEF GotoWith, bounds, Calm
<1>6. QED  BY <1>3, <1>4, <1>5

(* IdleFrame: a process that returns needs no frame.                       *)
LEMMA IdleFrame == \A q \in Procs : FrameOK(q, "idle", None)
BY DEF FrameOK

(* WorkKeeps: saving vault.json, ingest's writes and the object migration. *)
LEMMA WorkKeeps ==
  ASSUME TypeInv, NEW q \in Procs,
         Save(q) \/ PutBytes(q) \/ InsertRow(q) \/ MigrateObject(q) \/ Rewrite(q)
  PROVE  TypeInv' /\ Calm(q)
<1> DEFINE WorkPcs == {"save", "put", "row", "object", "rewrite"}
<1>1. ObjectsOK /\ DbOK /\ ControlOK  BY TypeParts
<1>2. pc[q] \in WorkPcs  BY DEF Save, PutBytes, InsertRow, MigrateObject, Rewrite
<1>3. FrameOK(q, pc[q], ctx[q]) /\ ctx[q] \in Frames  BY <1>1, <1>2 DEF ControlOK, FrameOK
<1>4. ctx[q].todo \in SUBSET Objects  BY <1>3 DEF Frames
<1>5. ctx[q].todo # {} => Min(ctx[q].todo) \in Objects
  <2>1. ctx[q].todo \in SUBSET Nat  BY <1>4, ObjectsAssumption
  <2>2. QED  BY <1>4, <2>1, MinIn
<1>6. ASSUME NEW p \in {"idle"} \cup WorkPcs, NEW c, FrameOK(q, p, c), GotoWith(q, p, c)
      PROVE  /\ ControlOK' /\ Others(q) /\ pc[q] \notin MigratePcs /\ pc'[q] \notin MigratePcs
             /\ UNCHANGED <<crashes, faults>>
  <2>1. UNCHANGED <<crashes, faults>> /\ crashes' \in Nat /\ faults' \in Nat
    BY <1>1, <1>6 DEF ControlOK, GotoWith, bounds
  <2>2. ControlOK' /\ pc'[q] = p /\ Others(q)  BY <1>1, <1>6, <2>1, ControlStep DEF Others, GotoWith
  <2>3. QED  BY <1>2, <2>1, <2>2 DEF MigratePcs, Swapping
<1>7. ASSUME Return(q)
      PROVE  /\ ControlOK' /\ Others(q) /\ pc[q] \notin MigratePcs /\ pc'[q] \notin MigratePcs
             /\ UNCHANGED <<crashes, faults>>
  BY <1>6, <1>7, IdleFrame DEF Return
<1>8. CASE Save(q)
  <2>1. DbOK' /\ Preserve /\ Return(q)  BY <1>1, <1>8, SameDb DEF Save
  <2>2. ObjectsOK'  BY <1>1, <1>3, <1>8 DEF Save, ObjectsOK, FrameOK
  <2>3. QED  BY <1>7, <2>1, <2>2, TypePartsNext DEF Calm
<1>9. CASE PutBytes(q)
  <2>1. DbOK' /\ Preserve /\ pc[q] = "put"  BY <1>1, <1>9, SameDb DEF PutBytes
  <2>2. ctx[q].todo # {}  BY <1>3, <2>1 DEF FrameOK
  <2>3. Plain \in ObjectFiles  BY DEF Plain, ObjectFiles
  <2>4. ObjectsOK'  BY <1>1, <1>5, <1>9, <2>2, <2>3 DEF PutBytes, ObjectsOK
  <2>5. GotoWith(q, "row", ctx[q])
    BY <1>1, <1>9 DEF PutBytes, Goto, GotoWith, ControlOK
  <2>6. FrameOK(q, "row", ctx[q])
    BY <1>3, <2>1, <2>2 DEF FrameOK, MigratePcs, Swapping
  <2>7. QED  BY <1>6, <2>1, <2>4, <2>5, <2>6, TypePartsNext DEF Calm
<1>10. CASE InsertRow(q)
  <2>1. ctx[q].conn \in Files  BY <1>3, <1>10 DEF InsertRow, FrameOK
  <2>2. ObjectsOK' /\ Return(q) /\ UNCHANGED <<path, settled>>
    BY <1>1, <1>10 DEF InsertRow, ObjectsOK, objectVars
  <2>3. CASE path["db"] # ctx[q].conn
    <3>1. UNCHANGED dbVars  BY <1>10, <2>2, <2>3 DEF InsertRow, dbVars
    <3>2. QED  BY <1>1, <1>7, <2>2, <3>1, SameDb, TypePartsNext DEF Calm
  <2>4. CASE path["db"] = ctx[q].conn
    <3> DEFINE f == ctx[q].conn
    <3>1. PICK b : b = [data[f] EXCEPT !.rows = @ \cup ctx[q].todo]  OBVIOUS
    <3>2. b \in DbFiles /\ b.key = data[f].key /\ data[f].rows \subseteq b.rows
      BY <1>1, <1>4, <2>1, <3>1 DEF DbOK, DbFiles
    <3>3. data' = [data EXCEPT ![f] = b]  BY <1>10, <2>4, <3>1 DEF InsertRow
    <3>4. DbOK' /\ Preserve  BY <1>1, <2>1, <2>2, <3>2, <3>3 DEF DbOK, Preserve
    <3>5. QED  BY <1>7, <2>2, <3>4, TypePartsNext DEF Calm
  <2>5. QED  BY <2>3, <2>4
<1>11. CASE MigrateObject(q)
  <2>1. DbOK' /\ Preserve /\ ObjectsOK' /\ pc[q] = "object"
    BY <1>1, <1>11, SameDb DEF MigrateObject, objectVars, ObjectsOK
  <2>2. ctx[q].pass \in Passphrases  BY <1>3, <2>1 DEF FrameOK
  <2>3. CASE Return(q)  BY <1>7, <2>1, <2>3, TypePartsNext DEF Calm
  <2>4. CASE GotoWith(q, "object", [ctx[q] EXCEPT !.todo = @ \ {Min(ctx[q].todo)}])
    <3>1. PICK c : c = [ctx[q] EXCEPT !.todo = @ \ {Min(ctx[q].todo)}]  OBVIOUS
    <3>2. c \in Frames /\ c.pass \in Passphrases  BY <1>3, <2>2, <3>1 DEF Frames
    <3>3. FrameOK(q, "object", c)  BY <3>2 DEF FrameOK, MigratePcs, Swapping
    <3>4. QED  BY <1>6, <2>1, <2>4, <3>1, <3>3, TypePartsNext DEF Calm
  <2>5. CASE /\ GotoWith(q, "rewrite", [ctx[q] EXCEPT !.file = store[Min(ctx[q].todo)]])
             /\ ctx[q].todo # {} /\ store[Min(ctx[q].todo)] # None
    <3>1. PICK c : c = [ctx[q] EXCEPT !.file = store[Min(ctx[q].todo)]]  OBVIOUS
    <3>2. store[Min(ctx[q].todo)] \in ObjectFiles  BY <1>1, <1>5, <2>5 DEF ObjectsOK
    <3>3. c \in Frames /\ c.pass \in Passphrases /\ c.file \in ObjectFiles /\ c.todo # {}
      BY <1>3, <2>2, <2>5, <3>1, <3>2 DEF Frames
    <3>4. FrameOK(q, "rewrite", c)  BY <3>3 DEF FrameOK, MigratePcs, Swapping
    <3>5. QED  BY <1>6, <2>1, <2>5, <3>1, <3>4, TypePartsNext DEF Calm
  <2>6. QED  BY <1>11, <2>3, <2>4, <2>5 DEF MigrateObject
<1>12. CASE Rewrite(q)
  <2>1. DbOK' /\ Preserve /\ pc[q] = "rewrite" /\ UNCHANGED json
    BY <1>1, <1>12, SameDb DEF Rewrite
  <2>2. ctx[q].pass \in Passphrases /\ ctx[q].todo # {}  BY <1>3, <2>1 DEF FrameOK
  <2>3. CASE Return(q) /\ UNCHANGED store
    BY <1>1, <1>7, <2>1, <2>3, TypePartsNext DEF Calm, ObjectsOK
  <2>4. CASE /\ store' = [store EXCEPT ![Min(ctx[q].todo)] = [key |-> ctx[q].pass, bytes |-> "whole"]]
             /\ GotoWith(q, "object", [ctx[q] EXCEPT !.todo = @ \ {Min(ctx[q].todo)}, !.file = None])
    <3>1. PICK c : c = [ctx[q] EXCEPT !.todo = @ \ {Min(ctx[q].todo)}, !.file = None]  OBVIOUS
    <3>2. c \in Frames /\ c.pass \in Passphrases  BY <1>3, <2>2, <3>1 DEF Frames
    <3>3. FrameOK(q, "object", c)  BY <3>2 DEF FrameOK, MigratePcs, Swapping
    <3>4. [key |-> ctx[q].pass, bytes |-> "whole"] \in ObjectFiles  BY <2>2 DEF ObjectFiles
    <3>5. ObjectsOK'  BY <1>1, <2>1, <2>4, <3>4 DEF ObjectsOK
    <3>6. QED  BY <1>6, <2>1, <2>4, <3>1, <3>3, <3>5, TypePartsNext DEF Calm
  <2>5. QED  BY <1>12, <2>3, <2>4 DEF Rewrite
<1>13. QED  BY <1>8, <1>9, <1>10, <1>11, <1>12

-----------------------------------------------------------------------------
(* The file operations of the database migration.                          *)

(* RemoveKeeps: a removal touches one path and its file.                   *)
LEMMA RemoveKeeps ==
  ASSUME DbOK, NEW n \in Paths, Remove(n)
  PROVE  /\ DbOK' /\ settled' = settled /\ path'[n] = None
         /\ \A m \in Paths : m # n =>
              path'[m] = path[m] /\ (path[m] # None => data'[path[m]] = data[path[m]])
<1>1. settled' = settled /\ path' = [path EXCEPT ![n] = None]  BY DEF Remove
<1>2. CASE path[n] = None
  <2>1. data' = data  BY <1>2 DEF Remove
  <2>2. QED  BY <1>1, <2>1 DEF DbOK
<1>3. CASE path[n] # None
  <2>1. data' = [data EXCEPT ![path[n]] = Empty]  BY <1>3 DEF Remove
  <2>2. Empty \in DbFiles  BY AtType
  <2>3. \A m \in Paths : m # n => path[m] # path[n]  BY <1>3 DEF DbOK
  <2>4. QED  BY <1>1, <2>1, <2>2, <2>3 DEF DbOK
<1>4. QED  BY <1>2, <1>3

(* RenameKeeps: a rename gives a file another path.                        *)
LEMMA RenameKeeps ==
  ASSUME DbOK, NEW a \in Paths, NEW b \in Paths, a # b,
         path' = Renamed(a, b), UNCHANGED <<data, settled>>
  PROVE  /\ DbOK' /\ path'[b] = path[a] /\ path'[a] = None
         /\ \A m \in Paths : m \notin {a, b} => path'[m] = path[m]
<1>1. path' = [path EXCEPT ![b] = path[a], ![a] = None]  BY DEF Renamed
<1>2. path'[b] = path[a] /\ path'[a] = None /\ \A m \in Paths : m \notin {a, b} => path'[m] = path[m]
  BY <1>1 DEF DbOK
<1>3. path' \in [Paths -> Files \cup {None}]  BY <1>1 DEF DbOK
<1>4. \A n, m \in Paths : path'[n] # None /\ path'[n] = path'[m] => n = m
  BY <1>2 DEF DbOK
<1>5. QED  BY <1>2, <1>3, <1>4 DEF DbOK

(* ExportKeeps: a new file at a path that had none.                        *)
LEMMA ExportKeeps ==
  ASSUME TypeInv, NEW b \in DbFiles, path[Tmp] = None,
         path' = [path EXCEPT ![Tmp] = NewFile], data' = [data EXCEPT ![NewFile] = b],
         UNCHANGED settled
  PROVE  /\ DbOK' /\ path'[Tmp] = NewFile /\ path'[Tmp] # None /\ data'[NewFile] = b
         /\ \A m \in Paths : m # Tmp =>
              path'[m] = path[m] /\ (path[m] # None => data'[path[m]] = data[path[m]])
<1>1. DbOK /\ Tmp \in Paths  BY TypeParts DEF Tmp, Paths
<1>2. NewFile \in Files /\ \A n \in Paths : path[n] # NewFile  BY NewFileFresh
<1>3. NewFile # None  BY <1>2, NoneAssumption
<1>4. QED  BY <1>1, <1>2, <1>3 DEF DbOK

(* Where a migration goes: on, back, or home.                              *)
Goes(q, p) ==
  /\ ControlOK' /\ Others(q) /\ pc'[q] = p /\ UNCHANGED crashes
  /\ pc'[q] # "idle" => ctx'[q] = ctx[q]
  /\ faults' \in {faults, faults + 1}

(* MigrateGoes: the frame of a migration is good for all of its steps.     *)
LEMMA MigrateGoes ==
  ASSUME ControlOK, NEW q \in Procs, pc[q] \in MigratePcs, NEW p \in {"idle"} \cup MigratePcs
  PROVE  /\ p # "idle" /\ Goto(q, p) => Goes(q, p) /\ UNCHANGED faults
         /\ p = "idle" /\ Return(q) => Goes(q, p) /\ UNCHANGED faults
         /\ Fault(q, p) => Goes(q, p) /\ UNCHANGED dbVars /\ faults' = faults + 1
<1>1. FrameOK(q, pc[q], ctx[q]) /\ ctx[q] \in Frames  BY DEF ControlOK, FrameOK, MigratePcs, Swapping
<1>2. FrameOK(q, p, ctx[q]) /\ FrameOK(q, "idle", None)
  BY <1>1 DEF FrameOK, MigratePcs, Swapping
<1>3. crashes \in Nat /\ faults \in Nat /\ ctx = [ctx EXCEPT ![q] = ctx[q]]  BY DEF ControlOK
<1>4. ASSUME p # "idle", Goto(q, p) PROVE Goes(q, p) /\ UNCHANGED faults
  <2>1. pc' = [pc EXCEPT ![q] = p] /\ ctx' = [ctx EXCEPT ![q] = ctx[q]] /\ UNCHANGED <<crashes, faults>>
    BY <1>3, <1>4 DEF Goto, bounds
  <2>2. crashes' \in Nat /\ faults' \in Nat  BY <1>3, <2>1
  <2>3. QED  BY <1>2, <2>1, <2>2, ControlStep DEF Goes, Others
<1>5. ASSUME p = "idle", Return(q) PROVE Goes(q, p) /\ UNCHANGED faults
  <2>1. pc' = [pc EXCEPT ![q] = p] /\ ctx' = [ctx EXCEPT ![q] = None] /\ UNCHANGED <<crashes, faults>>
    BY <1>5 DEF Return, GotoWith, bounds
  <2>2. crashes' \in Nat /\ faults' \in Nat  BY <1>3, <2>1
  <2>3. QED  BY <1>2, <1>5, <2>1, <2>2, ControlStep DEF Goes, Others
<1>6. ASSUME Fault(q, p) PROVE Goes(q, p) /\ UNCHANGED dbVars /\ faults' = faults + 1
  <2>1. UNCHANGED <<dbVars, crashes>> /\ faults' = faults + 1 /\ pc' = [pc EXCEPT ![q] = p]
    BY <1>6 DEF Fault
  <2>2. crashes' \in Nat /\ faults' \in Nat  BY <1>3, <2>1
  <2>3. CASE p = "idle"
    <3>1. ctx' = [ctx EXCEPT ![q] = None]  BY <1>6, <2>3 DEF Fault
    <3>2. QED  BY <1>2, <2>1, <2>2, <2>3, <3>1, ControlStep DEF Goes, Others
  <2>4. CASE p # "idle"
    <3>1. ctx' = [ctx EXCEPT ![q] = ctx[q]]  BY <1>6, <2>4 DEF Fault
    <3>2. QED  BY <1>2, <2>1, <2>2, <2>4, <3>1, ControlStep DEF Goes, Others
  <2>5. QED  BY <2>3, <2>4
<1>7. QED  BY <1>4, <1>5, <1>6

(* Only one process is migrating the database.                             *)
Only(q) == \A r \in Procs : r # q => pc[r] \notin MigratePcs
Counted == crashes = 0 /\ faults <= 1
StageOf(q) == Stage(pc[q], ctx[q]) /\ (pc[q] \notin Swapping => settled \subseteq At("db").rows)

(* StageHere: then StageInv is about that process.                         *)
LEMMA StageHere ==
  ASSUME NEW q \in Procs, Only(q), StageInv, Counted
  PROVE  StageOf(q)
BY DEF Only, StageInv, Counted, StageOf, MigratePcs

(* StageNext: also after its step.                                         *)
LEMMA StageNext ==
  ASSUME NEW q \in Procs, Only(q), Others(q), Counted' => StageOf(q)'
  PROVE  StageInv'
<1> SUFFICES ASSUME Counted' PROVE /\ \A r \in Procs : Stage(pc[r], ctx[r])'
                                   /\ (\A r \in Procs : pc'[r] \notin Swapping) => (settled \subseteq At("db").rows)'
  BY DEF StageInv, Counted
<1>1. ASSUME NEW r \in Procs, r # q PROVE Stage(pc[r], ctx[r])'
  <2>1. pc'[r] \notin MigratePcs  BY <1>1 DEF Only, Others
  <2>2. QED  BY <2>1 DEF Stage, MigratePcs, Swapping
<1>2. QED  BY <1>1 DEF StageOf

(* CountBack: a step that counts no less may count on the invariant.       *)
LEMMA CountBack ==
  ASSUME ControlOK, NEW q, NEW p, Goes(q, p), Counted'
  PROVE  Counted /\ (faults' = faults + 1 => faults = 0)
<1>1. crashes' = crashes /\ faults \in Nat /\ crashes \in Nat /\ faults' \in {faults, faults + 1}
  BY DEF Goes, ControlOK
<1>2. QED  BY <1>1 DEF Counted

(* FaultStep: an operation that fails leaves the files as they are.  While *)
(* files are being renamed back it is the second that fails.               *)
LEMMA FaultStep ==
  ASSUME TypeInv, UNCHANGED objectVars, NEW q \in Procs, NEW p,
         <<pc[q], p>> \in {<<"removeTmp", "idle">>, <<"removeBak", "idle">>, <<"renameBak", "idle">>,
                           <<"finish", "idle">>, <<"promote", "rollbackDb">>,
                           <<"rollbackDb", "rollbackBak">>, <<"rollbackBak", "rollbackTmp">>,
                           <<"rollbackTmp", "idle">>},
         Fault(q, p)
  PROVE  TypeInv' /\ (Only(q) /\ StageInv => StageInv')
<1>1. ObjectsOK /\ DbOK /\ ControlOK  BY TypeParts
<1>2. /\ pc[q] \in {"removeTmp", "removeBak", "renameBak", "finish"} => p = "idle"
      /\ pc[q] = "promote" => p = "rollbackDb"
      /\ pc[q] \in {"removeTmp", "removeBak", "renameBak", "finish", "promote", "rollbackDb",
                    "rollbackBak", "rollbackTmp"}
      /\ p \in {"idle", "rollbackDb", "rollbackBak", "rollbackTmp"}
  OBVIOUS
<1>3. pc[q] \in MigratePcs /\ p \in {"idle"} \cup MigratePcs  BY <1>2 DEF MigratePcs, Swapping
<1>4. Goes(q, p) /\ UNCHANGED dbVars /\ faults' = faults + 1  BY <1>1, <1>3, MigrateGoes
<1>5. TypeInv'  BY <1>1, <1>4, SameDb, TypePartsNext DEF Goes, objectVars, ObjectsOK
<1>6. ASSUME Only(q), StageInv, Counted' PROVE StageOf(q)'
  <2>1. Counted /\ faults = 0 /\ faults' # 0  BY <1>1, <1>4, <1>6, CountBack DEF ControlOK
  <2>2. StageOf(q)  BY <1>6, <2>1, StageHere
  <2>3. pc'[q] = p /\ UNCHANGED <<path, data, settled>>  BY <1>4 DEF Goes, dbVars
  <2>4. pc[q] \notin {"rollbackDb", "rollbackBak", "rollbackTmp"}
    BY <2>1, <2>2 DEF StageOf, Stage
  <2>5. CASE p = "idle"
    <3>1. pc[q] \notin Swapping  BY <1>2, <2>4, <2>5 DEF Swapping
    <3>2. QED  BY <2>2, <2>3, <2>5, <3>1 DEF StageOf, Stage, Swapping, At
  <2>6. CASE pc[q] = "promote" /\ p = "rollbackDb"
    BY <2>1, <2>2, <2>3, <2>6 DEF StageOf, Stage, Swapping, Holds, Bak
  <2>7. QED  BY <1>2, <2>4, <2>5, <2>6
<1>7. QED  BY <1>4, <1>5, <1>6, StageNext DEF Goes

(* RemoveStep: what a migration removes is not where the rows are.         *)
LEMMA RemoveStep ==
  ASSUME TypeInv, UNCHANGED objectVars, NEW q \in Procs, NEW p, NEW n \in Paths, Remove(n),
         <<pc[q], n, p>> \in {<<"removeTmp", Tmp, "removeBak">>, <<"removeBak", Bak, "export">>,
                              <<"finish", Bak, "idle">>, <<"rollbackDb", "db", "rollbackBak">>,
                              <<"rollbackTmp", Tmp, "idle">>},
         IF p = "idle" THEN Return(q) ELSE Goto(q, p)
  PROVE  TypeInv' /\ (Only(q) /\ StageInv => StageInv')
<1>1. ObjectsOK /\ DbOK /\ ControlOK  BY TypeParts
<1>2. pc[q] \in MigratePcs /\ p \in {"idle"} \cup MigratePcs  BY DEF MigratePcs, Swapping
<1>3. Goes(q, p) /\ UNCHANGED faults  BY <1>1, <1>2, MigrateGoes
<1>4. /\ DbOK' /\ settled' = settled /\ path'[n] = None
      /\ \A m \in Paths : m # n =>
           path'[m] = path[m] /\ (path[m] # None => data'[path[m]] = data[path[m]])
  BY <1>1, RemoveKeeps
<1>5. TypeInv'  BY <1>1, <1>3, <1>4, TypePartsNext DEF Goes, objectVars, ObjectsOK
<1>6. ASSUME Only(q), StageInv, Counted' PROVE StageOf(q)'
  <2>1. Counted  BY <1>1, <1>3, <1>6, CountBack
  <2>2. StageOf(q) /\ pc'[q] = p /\ (p # "idle" => ctx'[q] = ctx[q])  BY <1>3, <1>6, <2>1, StageHere DEF Goes
  <2>3. "db" \in Paths /\ Tmp \in Paths /\ Bak \in Paths /\ Tmp # "db" /\ Bak # "db" /\ Tmp # Bak
    BY DEF Paths, Tmp, Bak
  <2>4. n # "db" => (path["db"])' = path["db"] /\ At("db")' = At("db")
    BY <1>4, <2>3 DEF At
  <2>5. CASE pc[q] = "removeTmp"
    <3>1. n = Tmp /\ p = "removeBak"  BY <2>5
    <3>2. QED  BY <1>4, <2>2, <2>3, <2>4, <2>5, <3>1 DEF StageOf, Stage, Swapping
  <2>6. CASE pc[q] = "removeBak"
    <3>1. n = Bak /\ p = "export"  BY <2>6
    <3>2. QED  BY <1>4, <2>2, <2>3, <2>4, <2>6, <3>1 DEF StageOf, Stage, Swapping
  <2>7. CASE pc[q] \in {"finish", "rollbackTmp"}
    <3>1. n # "db" /\ p = "idle"  BY <2>3, <2>7
    <3>2. QED  BY <1>4, <2>2, <2>4, <2>7, <3>1 DEF StageOf, Stage, Swapping
  <2>8. CASE pc[q] = "rollbackDb"
    <3>1. n = "db" /\ p = "rollbackBak"  BY <2>8
    <3>2. path[Bak] # None /\ settled \subseteq data[path[Bak]].rows /\ faults # 0
      BY <2>2, <2>8 DEF StageOf, Stage, Swapping, Holds
    <3>3. path'[Bak] = path[Bak] /\ data'[path[Bak]] = data[path[Bak]]  BY <1>4, <2>3, <3>1, <3>2
    <3>4. Holds(Bak)' /\ faults' # 0  BY <1>3, <1>4, <3>2, <3>3 DEF Holds, Bak
    <3>5. QED  BY <2>2, <3>1, <3>4 DEF StageOf, Stage, Swapping
  <2>9. QED  BY <2>5, <2>6, <2>7, <2>8
<1>7. QED  BY <1>3, <1>5, <1>6, StageNext DEF Goes

(* ExportStep: the export has what its source has.                         *)
LEMMA ExportStep ==
  ASSUME TypeInv, NEW q \in Procs, Export(q)
  PROVE  TypeInv' /\ (Only(q) /\ StageInv => StageInv')
<1>1. ObjectsOK /\ DbOK /\ ControlOK  BY TypeParts
<1>2. pc[q] = "export" /\ pc[q] \in MigratePcs /\ UNCHANGED <<objectVars, settled>>
  BY DEF Export, MigratePcs
<1>3. ctx[q].conn \in Files /\ ctx[q].pass \in DbPassphrases
  BY <1>1, <1>2 DEF ControlOK, FrameOK
<1>4. ObjectsOK'  BY <1>1, <1>2 DEF objectVars, ObjectsOK
<1>5. CASE path[Tmp] = None
  <2>1. PICK b : b = [key |-> ctx[q].pass, rows |-> data[ctx[q].conn].rows]  OBVIOUS
  <2>2. b \in DbFiles  BY <1>1, <1>3, <2>1 DEF DbOK, DbFiles
  <2>3. path' = [path EXCEPT ![Tmp] = NewFile] /\ data' = [data EXCEPT ![NewFile] = b] /\ Goto(q, "renameBak")
    BY <1>5, <2>1 DEF Export, Tmp
  <2>4. /\ DbOK' /\ path'[Tmp] = NewFile /\ path'[Tmp] # None /\ data'[NewFile] = b
        /\ \A m \in Paths : m # Tmp =>
             path'[m] = path[m] /\ (path[m] # None => data'[path[m]] = data[path[m]])
    BY <1>2, <1>5, <2>2, <2>3, ExportKeeps
  <2>5. Goes(q, "renameBak") /\ UNCHANGED faults  BY <1>1, <1>2, <2>3, MigrateGoes DEF MigratePcs
  <2>6. TypeInv'  BY <1>4, <2>4, <2>5, TypePartsNext DEF Goes
  <2>7. ASSUME Only(q), StageInv, Counted' PROVE StageOf(q)'
    <3>1. StageOf(q)  BY <1>1, <2>5, <2>7, CountBack, StageHere
    <3>2. path["db"] = ctx[q].conn /\ settled \subseteq At("db").rows
      BY <1>2, <3>1 DEF StageOf, Stage, Swapping
    <3>3. path["db"] # None /\ settled \subseteq data[ctx[q].conn].rows
      BY <1>3, <3>2, NoneAssumption DEF At
    <3>4. "db" \in Paths /\ "db" # Tmp  BY DEF Paths, Tmp
    <3>5. path'["db"] = path["db"] /\ At("db")' = At("db")  BY <2>4, <3>3, <3>4 DEF At
    <3>6. Holds(Tmp)' /\ (data[path[Tmp]].key)' = ctx[q].pass
      BY <1>2, <2>1, <2>4, <3>3 DEF Holds, Tmp
    <3>7. QED  BY <1>2, <2>5, <3>2, <3>5, <3>6 DEF Goes, StageOf, Stage, Swapping
  <2>8. QED  BY <2>5, <2>6, <2>7, StageNext DEF Goes
<1>6. CASE path[Tmp] # None
  <2>1. Return(q) /\ UNCHANGED dbVars  BY <1>2, <1>6 DEF Export, Tmp, dbVars
  <2>2. Goes(q, "idle") /\ UNCHANGED faults  BY <1>1, <1>2, <2>1, MigrateGoes
  <2>3. TypeInv'  BY <1>1, <1>4, <2>1, <2>2, SameDb, TypePartsNext DEF Goes
  <2>4. ASSUME Only(q), StageInv, Counted' PROVE StageOf(q)'
    <3>1. StageOf(q)  BY <1>1, <2>2, <2>4, CountBack, StageHere
    <3>2. QED  BY <1>2, <1>6, <3>1 DEF StageOf, Stage
  <2>5. QED  BY <2>2, <2>3, <2>4, StageNext DEF Goes
<1>7. QED  BY <1>5, <1>6

(* RenameStep: the rows go with the files that are renamed.                *)
LEMMA RenameStep ==
  ASSUME TypeInv, UNCHANGED objectVars, NEW q \in Procs, NEW p, NEW a \in Paths, NEW b \in Paths,
         <<pc[q], a, b, p>> \in {<<"renameBak", "db", Bak, "promote">>, <<"promote", Tmp, "db", "verify">>,
                                 <<"rollbackBak", Bak, "db", "rollbackTmp">>},
         path[a] # None, path' = Renamed(a, b), UNCHANGED <<data, settled>>, Goto(q, p)
  PROVE  TypeInv' /\ (Only(q) /\ StageInv => StageInv')
<1>1. ObjectsOK /\ DbOK /\ ControlOK  BY TypeParts
<1>2. pc[q] \in MigratePcs /\ p \in MigratePcs /\ p # "idle" /\ a # b
  BY DEF MigratePcs, Swapping, Tmp, Bak
<1>3. Goes(q, p) /\ UNCHANGED faults  BY <1>1, <1>2, MigrateGoes
<1>4. /\ DbOK' /\ path'[b] = path[a] /\ path'[a] = None
      /\ \A m \in Paths : m \notin {a, b} => path'[m] = path[m]
  BY <1>1, <1>2, RenameKeeps
<1>5. TypeInv'  BY <1>1, <1>3, <1>4, TypePartsNext DEF Goes, objectVars, ObjectsOK
<1>6. ASSUME Only(q), StageInv, Counted' PROVE StageOf(q)'
  <2>1. StageOf(q) /\ pc'[q] = p /\ ctx'[q] = ctx[q]
    BY <1>1, <1>2, <1>3, <1>6, CountBack, StageHere DEF Goes
  <2>2. "db" \in Paths /\ Tmp \in Paths /\ Bak \in Paths /\ Tmp # "db" /\ Bak # "db" /\ Tmp # Bak
    BY DEF Paths, Tmp, Bak
  <2>3. CASE pc[q] = "renameBak"
    <3>1. a = "db" /\ b = Bak /\ p = "promote"  BY <2>3
    <3>2. settled \subseteq data[path["db"]].rows /\ Holds(Tmp) /\ data[path[Tmp]].key = ctx[q].pass
      BY <2>1, <2>3, <3>1 DEF StageOf, Stage, Swapping, At
    <3>3. Holds(Bak)' /\ Holds(Tmp)' /\ (data[path[Tmp]].key)' = ctx[q].pass
      BY <1>4, <2>2, <3>1, <3>2 DEF Holds, Bak, Tmp
    <3>4. QED  BY <2>1, <3>1, <3>3 DEF StageOf, Stage, Swapping
  <2>4. CASE pc[q] = "promote"
    <3>1. a = Tmp /\ b = "db" /\ p = "verify"  BY <2>4
    <3>2. Holds(Tmp) /\ data[path[Tmp]].key = ctx[q].pass  BY <2>1, <2>4 DEF StageOf, Stage
    <3>3. Holds("db")' /\ (data[path["db"]].key)' = ctx[q].pass
      BY <1>4, <3>1, <3>2 DEF Holds, Tmp
    <3>4. (settled \subseteq At("db").rows)'  BY <3>3 DEF Holds, At
    <3>5. QED  BY <2>1, <3>1, <3>3, <3>4 DEF StageOf, Stage, Swapping
  <2>5. CASE pc[q] = "rollbackBak"
    <3>1. a = Bak /\ b = "db" /\ p = "rollbackTmp"  BY <2>5
    <3>2. Holds(Bak) /\ faults # 0  BY <2>1, <2>5 DEF StageOf, Stage, Swapping
    <3>3. (settled \subseteq At("db").rows)'  BY <1>4, <3>1, <3>2 DEF Holds, At, Bak
    <3>4. QED  BY <1>3, <2>1, <3>1, <3>2, <3>3 DEF StageOf, Stage, Swapping
  <2>6. QED  BY <2>3, <2>4, <2>5
<1>7. QED  BY <1>3, <1>5, <1>6, StageNext DEF Goes

(* StillStep: steps of a migration that change no file.                    *)
LEMMA StillStep ==
  ASSUME TypeInv, UNCHANGED <<objectVars, dbVars>>, NEW q \in Procs, NEW p,
         \/ pc[q] = "renameBak" /\ path["db"] = None /\ p = "idle" /\ Return(q)
         \/ pc[q] = "promote" /\ path[Tmp] = None /\ p = "rollbackDb" /\ Goto(q, p)
         \/ pc[q] = "rollbackBak" /\ path[Bak] = None /\ p = "rollbackTmp" /\ Goto(q, p)
         \/ /\ pc[q] = "verify" /\ Goto(q, p)
            /\ p = IF Opens(At("db"), ctx[q].pass) THEN "finish" ELSE "rollbackDb"
  PROVE  TypeInv' /\ (Only(q) /\ StageInv => StageInv')
<1>1. ObjectsOK /\ DbOK /\ ControlOK  BY TypeParts
<1>2. pc[q] \in MigratePcs /\ p \in {"idle"} \cup MigratePcs /\ (p # "idle" => Goto(q, p)) /\ (p = "idle" => Return(q))
  BY DEF MigratePcs, Swapping
<1>3. Goes(q, p) /\ UNCHANGED faults  BY <1>1, <1>2, MigrateGoes
<1>4. TypeInv'  BY <1>1, <1>3, SameDb, TypePartsNext DEF Goes, objectVars, ObjectsOK
<1>5. ASSUME Only(q), StageInv, Counted' PROVE StageOf(q)'
  <2>1. StageOf(q) /\ pc'[q] = p  BY <1>1, <1>3, <1>5, CountBack, StageHere DEF Goes
  <2>2. ctx[q].conn # None  BY <1>1, <1>2, NoneAssumption DEF ControlOK, FrameOK, MigratePcs, Swapping
  <2>3. pc[q] = "verify" /\ path["db"] # None /\ data[path["db"]].key = ctx[q].pass
    BY <2>1, <2>2 DEF StageOf, Stage, Swapping, Holds
  <2>4. p = "finish"  BY <2>3 DEF Opens, At
  <2>5. settled \subseteq At("db").rows /\ UNCHANGED <<path, data, settled>>
    BY <2>1, <2>3 DEF StageOf, Swapping, dbVars
  <2>6. QED  BY <2>1, <2>4, <2>5 DEF StageOf, Stage, Swapping, At
<1>6. QED  BY <1>3, <1>4, <1>5, StageNext DEF Goes

(* MigrationStep: every step of a migration is one of these.               *)
LEMMA MigrationStep ==
  ASSUME TypeInv, NEW q \in Procs,
         \/ RemoveTmp(q) \/ RemoveBak(q) \/ Export(q) \/ RenameBak(q) \/ Promote(q)
         \/ Verify(q) \/ Finish(q) \/ Rollback(q)
  PROVE  TypeInv' /\ (Only(q) /\ StageInv => StageInv')
<1>1. "db" \in Paths /\ Tmp \in Paths /\ Bak \in Paths  BY DEF Paths, Tmp, Bak
<1>2. CASE RemoveTmp(q)
  <2>1. pc[q] = "removeTmp" /\ UNCHANGED objectVars
    /\ ((Remove(Tmp) /\ Goto(q, "removeBak")) \/ Fault(q, "idle"))
    BY <1>2 DEF RemoveTmp, RemovePath, Tmp
  <2>2. QED  BY <1>1, <2>1, RemoveStep, FaultStep
<1>3. CASE RemoveBak(q)
  <2>1. pc[q] = "removeBak" /\ UNCHANGED objectVars
    /\ ((Remove(Bak) /\ Goto(q, "export")) \/ Fault(q, "idle"))
    BY <1>3 DEF RemoveBak, RemovePath, Bak
  <2>2. QED  BY <1>1, <2>1, RemoveStep, FaultStep
<1>4. CASE Export(q)  BY <1>4, ExportStep
<1>5. CASE RenameBak(q)
  <2>1. /\ pc[q] = "renameBak" /\ UNCHANGED objectVars
        /\ \/ path["db"] = None /\ Return(q) /\ UNCHANGED <<path, data, settled>>
           \/ path["db"] # None /\ path' = Renamed("db", Bak) /\ Goto(q, "promote") /\ UNCHANGED <<data, settled>>
           \/ Fault(q, "idle")
    BY <1>5 DEF RenameBak, Bak
  <2>2. QED  BY <1>1, <2>1, StillStep, RenameStep, FaultStep DEF dbVars
<1>6. CASE Promote(q)
  <2>1. /\ pc[q] = "promote" /\ UNCHANGED objectVars
        /\ \/ path[Tmp] = None /\ Goto(q, "rollbackDb") /\ UNCHANGED <<path, data, settled>>
           \/ path[Tmp] # None /\ path' = Renamed(Tmp, "db") /\ Goto(q, "verify") /\ UNCHANGED <<data, settled>>
           \/ Fault(q, "rollbackDb")
    BY <1>6 DEF Promote, Tmp
  <2>2. QED  BY <1>1, <2>1, StillStep, RenameStep, FaultStep DEF dbVars
<1>7. CASE Verify(q)
  BY <1>7, StillStep DEF Verify
<1>8. CASE Finish(q)
  <2>1. pc[q] = "finish" /\ UNCHANGED objectVars /\ ((Remove(Bak) /\ Return(q)) \/ Fault(q, "idle"))
    BY <1>8 DEF Finish, Bak
  <2>2. QED  BY <1>1, <2>1, RemoveStep, FaultStep
<1>9. CASE Rollback(q)
  <2>1. UNCHANGED objectVars  BY <1>9 DEF Rollback
  <2>2. CASE pc[q] = "rollbackDb"
    <3>1. (Remove("db") /\ Goto(q, "rollbackBak")) \/ Fault(q, "rollbackBak")  BY <1>9, <2>2 DEF Rollback
    <3>2. QED  BY <1>1, <2>1, <2>2, <3>1, RemoveStep, FaultStep
  <2>3. CASE pc[q] = "rollbackBak"
    <3>1. \/ path[Bak] = None /\ Goto(q, "rollbackTmp") /\ UNCHANGED <<path, data, settled>>
          \/ path[Bak] # None /\ path' = Renamed(Bak, "db") /\ Goto(q, "rollbackTmp") /\ UNCHANGED <<data, settled>>
          \/ Fault(q, "rollbackTmp")
      BY <1>9, <2>3 DEF Rollback, Bak
    <3>2. QED  BY <1>1, <2>1, <2>3, <3>1, StillStep, RenameStep, FaultStep DEF dbVars
  <2>4. CASE pc[q] = "rollbackTmp"
    <3>1. (Remove(Tmp) /\ Return(q)) \/ Fault(q, "idle")  BY <1>9, <2>4 DEF Rollback, Tmp
    <3>2. QED  BY <1>1, <2>1, <2>4, <3>1, RemoveStep, FaultStep
  <2>5. QED  BY <1>9, <2>2, <2>3, <2>4 DEF Rollback
<1>10. QED  BY <1>2, <1>3, <1>4, <1>5, <1>6, <1>7, <1>8, <1>9

(* BeginStep: a migration begins with the rows of the database it found.   *)
LEMMA BeginStep ==
  ASSUME TypeInv, NEW q \in Procs, NEW p \in DbPassphrases, MigrateDb(q, p)
  PROVE  TypeInv' /\ (Only(q) /\ StageInv => StageInv')
<1>1. ObjectsOK /\ DbOK /\ ControlOK /\ "db" \in Paths  BY TypeParts DEF Paths
<1>2. ObjectsOK' /\ pc[q] = "idle" /\ "migrateDb" \in Calls[q]
  BY <1>1 DEF MigrateDb, objectVars, ObjectsOK
<1>3. CASE UNCHANGED <<dbVars, pc, ctx, bounds>>
  <2>1. ControlOK'  BY <1>1, <1>3 DEF ControlOK, bounds
  <2>2. TypeInv'  BY <1>1, <1>2, <1>3, <2>1, SameDb, TypePartsNext
  <2>3. StageInv => StageInv'  BY <1>3 DEF StageInv, Stage, Holds, At, dbVars, bounds, Tmp, Bak
  <2>4. QED  BY <2>2, <2>3
<1>4. CASE /\ path' = [path EXCEPT !["db"] = DbFile] /\ settled' = settled \cup At("db").rows
           /\ GotoWith(q, "removeTmp", Frame(DbFile, p, {}, None)) /\ UNCHANGED data
  <2>1. DbFile \in Files /\ (path["db"] # None => DbFile = path["db"])
        /\ \A n \in Paths : n # "db" => path[n] # DbFile
    <3>1. CASE path["db"] = None  BY <3>1, NewFileFresh DEF DbFile
    <3>2. CASE path["db"] # None  BY <1>1, <3>2 DEF DbFile, DbOK
    <3>3. QED  BY <3>1, <3>2
  <2>2. At("db").rows \subseteq Objects  BY <1>1, AtType DEF DbFiles
  <2>3. DbOK' /\ path'["db"] = DbFile /\ DbFile # None  BY <1>1, <1>4, <2>1, <2>2, NoneAssumption DEF DbOK
  <2>4. PICK c : c = Frame(DbFile, p, {}, None)  OBVIOUS
  <2>5. c \in Frames /\ c.conn = DbFile /\ c.pass = p  BY <2>1, <2>4, FrameType
  <2>6. FrameOK(q, "removeTmp", c)  BY <1>2, <2>1, <2>5 DEF FrameOK, MigratePcs, Swapping
  <2>7. ControlOK' /\ pc'[q] = "removeTmp" /\ ctx'[q] = c /\ Others(q)
        /\ UNCHANGED <<crashes, faults>>
    <3>1. /\ pc' = [pc EXCEPT ![q] = "removeTmp"] /\ ctx' = [ctx EXCEPT ![q] = c]
          /\ UNCHANGED <<crashes, faults>>
      BY <1>4, <2>4 DEF GotoWith, bounds
    <3>2. crashes' \in Nat /\ faults' \in Nat  BY <1>1, <3>1 DEF ControlOK
    <3>3. QED  BY <1>1, <2>6, <3>1, <3>2, ControlStep DEF Others
  <2>8. TypeInv'  BY <1>2, <2>3, <2>7, TypePartsNext
  <2>9. ASSUME Only(q), StageInv, Counted' PROVE StageOf(q)'
    <3>1. StageOf(q)  BY <2>7, <2>9, StageHere DEF Counted
    <3>2. settled \subseteq At("db").rows  BY <1>2, <3>1 DEF StageOf, Swapping
    <3>3. At("db").rows \subseteq data[DbFile].rows
      <4>1. CASE path["db"] = None  BY <4>1 DEF At, Empty
      <4>2. CASE path["db"] # None  BY <2>1, <4>2 DEF At
      <4>3. QED  BY <4>1, <4>2
    <3>4. settled' \subseteq data'[path'["db"]].rows  BY <1>4, <2>3, <3>2, <3>3
    <3>5. (settled \subseteq At("db").rows)'  BY <2>3, <3>4 DEF At
    <3>6. QED  BY <2>3, <2>5, <2>7, <3>5 DEF StageOf, Stage, Swapping
  <2>10. QED  BY <2>7, <2>8, <2>9, StageNext
<1>5. QED  BY <1>3, <1>4 DEF MigrateDb

(* CrashKeeps: what a crash leaves is well typed.                          *)
LEMMA CrashKeeps ==
  ASSUME TypeInv, NEW q \in Procs, Crash(q)
  PROVE  TypeInv' /\ crashes' # 0 /\ Others(q) /\ pc'[q] = "idle"
<1>1. ObjectsOK /\ DbOK /\ ControlOK  BY TypeParts
<1>2. /\ pc[q] # "idle" /\ crashes' = crashes + 1 /\ UNCHANGED faults
      /\ pc' = [pc EXCEPT ![q] = "idle"] /\ ctx' = [ctx EXCEPT ![q] = None]
  BY DEF Crash
<1>3. crashes' \in Nat /\ crashes' # 0 /\ faults' \in Nat  BY <1>1, <1>2 DEF ControlOK
<1>4. ControlOK' /\ Others(q) /\ pc'[q] = "idle"
  BY <1>1, <1>2, <1>3, IdleFrame, ControlStep DEF Others
<1>5. FrameOK(q, pc[q], ctx[q]) /\ ctx[q] \in Frames  BY <1>1, <1>2 DEF ControlOK, FrameOK
<1>6. ASSUME UNCHANGED <<json, dbVars>>, NEW o, NEW file \in ObjectFiles,
             store' = [store EXCEPT ![o] = file]
      PROVE  ObjectsOK' /\ DbOK'
  BY <1>1, <1>6, SameDb DEF ObjectsOK
<1>7. CASE UNCHANGED <<objectVars, dbVars>>
  BY <1>1, <1>3, <1>4, <1>7, SameDb, TypePartsNext DEF objectVars, ObjectsOK
<1>8. CASE json' = None /\ UNCHANGED <<store, dbVars>>
  BY <1>1, <1>3, <1>4, <1>8, SameDb, TypePartsNext DEF ObjectsOK
<1>9. CASE /\ store' = [store EXCEPT ![Min(ctx[q].todo)] = [key |-> "plain", bytes |-> "part"]]
           /\ UNCHANGED <<json, dbVars>>
  <2>1. [key |-> "plain", bytes |-> "part"] \in ObjectFiles  BY DEF ObjectFiles
  <2>2. QED  BY <1>3, <1>4, <1>6, <1>9, <2>1, TypePartsNext
<1>10. CASE /\ pc[q] = "rewrite" /\ UNCHANGED <<json, dbVars>>
            /\ \E left \in {[key |-> "plain", bytes |-> "part"], [key |-> ctx[q].pass, bytes |-> "broken"]} :
                 store' = [store EXCEPT ![Min(ctx[q].todo)] = left]
  <2>1. ctx[q].pass \in Passphrases  BY <1>5, <1>10 DEF FrameOK
  <2>2. /\ [key |-> "plain", bytes |-> "part"] \in ObjectFiles
        /\ [key |-> ctx[q].pass, bytes |-> "broken"] \in ObjectFiles
    BY <2>1 DEF ObjectFiles
  <2>3. QED  BY <1>3, <1>4, <1>6, <1>10, <2>2, TypePartsNext
<1>11. CASE /\ pc[q] = "export" /\ path[Tmp] = None
            /\ path' = [path EXCEPT ![Tmp] = NewFile]
            /\ data' = [data EXCEPT ![NewFile] = [key |-> ctx[q].pass, rows |-> {}]]
            /\ UNCHANGED <<objectVars, settled>>
  <2>1. ctx[q].pass \in DbPassphrases  BY <1>5, <1>11 DEF FrameOK, MigratePcs
  <2>2. [key |-> ctx[q].pass, rows |-> {}] \in DbFiles  BY <2>1 DEF DbFiles
  <2>3. DbOK'  BY <1>11, <2>2, ExportKeeps
  <2>4. QED  BY <1>1, <1>3, <1>4, <1>11, <2>3, TypePartsNext DEF objectVars, ObjectsOK
<1>12. QED  BY <1>7, <1>8, <1>9, <1>10, <1>11 DEF Crash, Tmp

(* CalmStep: what other processes do at the same time is no danger to a    *)
(* migration.                                                              *)
LEMMA CalmStep ==
  ASSUME TypeInv, StageInv, NEW q \in Procs, Calm(q)
  PROVE  StageInv'
<1>1. /\ Preserve /\ Others(q) /\ UNCHANGED <<crashes, faults>>
      /\ pc[q] \notin MigratePcs /\ pc'[q] \notin MigratePcs
  BY DEF Calm
<1> SUFFICES ASSUME Counted' PROVE /\ \A r \in Procs : Stage(pc[r], ctx[r])'
                                   /\ (\A r \in Procs : pc'[r] \notin Swapping) => (settled \subseteq At("db").rows)'
  BY DEF StageInv, Counted
<1>2. Counted  BY <1>1 DEF Counted
<1>3. "db" \in Paths /\ Tmp \in Paths \ {"db"} /\ Bak \in Paths  BY DEF Paths, Tmp, Bak
<1>4. ASSUME NEW n \in Paths, path[n] # None
      PROVE  /\ path'[n] = path[n]
             /\ settled \subseteq data[path[n]].rows => settled' \subseteq data'[path'[n]].rows
             /\ data[path[n]].key \in DbPassphrases => data'[path'[n]].key = data[path[n]].key
  BY <1>1, <1>4 DEF Preserve
<1>5. settled' = settled /\ (path[Tmp] = None => path'[Tmp] = None)  BY <1>1, <1>3 DEF Preserve
<1>6. ASSUME NEW r \in Procs PROVE Stage(pc[r], ctx[r])'
  <2>1. CASE r = q \/ pc[r] \notin MigratePcs
    <3>1. pc'[r] \notin MigratePcs  BY <1>1, <2>1 DEF Others
    <3>2. QED  BY <3>1 DEF Stage, MigratePcs, Swapping
  <2>2. CASE r # q /\ pc[r] \in MigratePcs
    <3>1. pc'[r] = pc[r] /\ ctx'[r] = ctx[r] /\ Stage(pc[r], ctx[r])
      BY <1>1, <1>2, <2>2 DEF Others, StageInv, Counted
    <3>2. PICK p, c : p = pc[r] /\ c = ctx[r]  OBVIOUS
    <3>3. c.conn \in Files /\ c.pass \in DbPassphrases
      BY <2>2, <3>2 DEF TypeInv, ControlOK, FrameOK, MigratePcs, Swapping
    <3>4. p \in {"removeTmp", "removeBak", "export", "renameBak"} => path'["db"] = c.conn
      <4>1. SUFFICES ASSUME path["db"] = c.conn PROVE path'["db"] = c.conn
        BY <3>1, <3>2 DEF Stage
      <4>2. QED  BY <1>3, <1>4, <3>3, <4>1, NoneAssumption
    <3>5. ASSUME NEW n \in Paths, path[n] # None, settled \subseteq data[path[n]].rows
          PROVE  /\ path'[n] # None /\ settled' \subseteq data'[path'[n]].rows
                 /\ data[path[n]].key = c.pass => data'[path'[n]].key = c.pass
      BY <1>4, <3>3, <3>5
    <3>6. p \in {"renameBak", "promote"} => Holds(Tmp)' /\ data'[path'[Tmp]].key = c.pass
      BY <1>3, <3>1, <3>2, <3>5 DEF Stage, Holds, Tmp
    <3>7. p \in Swapping => Holds(Bak)'
      BY <1>3, <3>1, <3>2, <3>5 DEF Stage, Holds, Bak
    <3>8. p = "verify" => Holds("db")' /\ data'[path'["db"]].key = c.pass
      BY <1>3, <3>1, <3>2, <3>5 DEF Stage, Holds
    <3>9. /\ p \in {"removeBak", "export"} => path'[Tmp] = None
          /\ p \in {"rollbackDb", "rollbackBak", "rollbackTmp"} => faults' # 0
      BY <1>1, <1>5, <3>1, <3>2 DEF Stage
    <3>10. QED  BY <3>1, <3>2, <3>4, <3>6, <3>7, <3>8, <3>9 DEF Stage, Tmp
  <2>3. QED  BY <2>1, <2>2
<1>7. ASSUME \A r \in Procs : pc'[r] \notin Swapping PROVE (settled \subseteq At("db").rows)'
  <2>1. \A r \in Procs : pc[r] \notin Swapping  BY <1>1, <1>7 DEF Others, MigratePcs
  <2>2. settled \subseteq At("db").rows  BY <1>2, <2>1 DEF StageInv, Counted
  <2>3. CASE path["db"] = None
    <3>1. settled = {}  BY <2>2, <2>3 DEF At, Empty
    <3>2. QED  BY <1>5, <3>1
  <2>4. CASE path["db"] # None
    <3>1. settled' \subseteq data'[path'["db"]].rows /\ path'["db"] # None  BY <1>3, <1>4, <2>2, <2>4 DEF At
    <3>2. QED  BY <3>1 DEF At
  <2>5. QED  BY <2>3, <2>4
<1>8. QED  BY <1>6, <1>7

-----------------------------------------------------------------------------
(* The theorems.                                                           *)

(* AnyStep: the kinds of steps.                                            *)
LEMMA AnyStep ==
  ASSUME TypeInv, [Next]_vars
  PROVE  /\ TypeInv'
         /\ \/ UNCHANGED vars
            \/ \E q \in Procs : \/ Calm(q)
                                \/ crashes' # 0
                                \/ /\ "migrateDb" \in Calls[q]
                                   /\ Only(q) /\ StageInv => StageInv'
<1>1. CASE UNCHANGED vars
  BY <1>1 DEF vars, objectVars, dbVars, bounds, TypeInv, TypeOK, ControlOK
<1>2. ASSUME NEW q \in Procs,
             \/ EnableObjects(q) \/ EnableDb(q) \/ Ingest(q)
             \/ \E p \in Passphrases : MigrateObjects(q, p)
      PROVE  TypeInv' /\ Calm(q)
  BY <1>2, CallsKeep
<1>3. ASSUME NEW q \in Procs, Save(q) \/ PutBytes(q) \/ InsertRow(q) \/ MigrateObject(q) \/ Rewrite(q)
      PROVE  TypeInv' /\ Calm(q)
  BY <1>3, WorkKeeps
<1>4. ASSUME NEW q \in Procs,
             \/ RemoveTmp(q) \/ RemoveBak(q) \/ Export(q) \/ RenameBak(q) \/ Promote(q)
             \/ Verify(q) \/ Finish(q) \/ Rollback(q)
      PROVE  TypeInv' /\ "migrateDb" \in Calls[q] /\ (Only(q) /\ StageInv => StageInv')
  <2>1. pc[q] \in MigratePcs
    BY <1>4 DEF RemoveTmp, RemoveBak, RemovePath, Export, RenameBak, Promote, Verify, Finish, Rollback,
                MigratePcs, Swapping
  <2>2. "migrateDb" \in Calls[q]
    BY <2>1 DEF TypeInv, ControlOK, FrameOK, MigratePcs, Swapping
  <2>3. QED  BY <1>4, <2>2, MigrationStep
<1>5. ASSUME NEW q \in Procs, NEW p \in DbPassphrases, MigrateDb(q, p)
      PROVE  TypeInv' /\ "migrateDb" \in Calls[q] /\ (Only(q) /\ StageInv => StageInv')
  BY <1>5, BeginStep DEF MigrateDb
<1>6. ASSUME NEW q \in Procs, Crash(q) PROVE TypeInv' /\ crashes' # 0
  BY <1>6, CrashKeeps
<1>7. QED  BY <1>1, <1>2, <1>3, <1>4, <1>5, <1>6 DEF Next, Run

(* TypesStay: the frames and the files stay well typed.                    *)
LEMMA TypesStay == Spec => []TypeInv
<1>1. Init => TypeInv
  <2> SUFFICES ASSUME Init PROVE TypeInv
    OBVIOUS
  <2>1. ObjectsOK  BY DEF Init, ObjectsOK, Configs
  <2>2. Empty \in DbFiles  BY DEF Empty, DbFiles
  <2>3. DbOK  BY <2>2 DEF Init, DbOK
  <2>4. ControlOK  BY DEF Init, ControlOK, FrameOK
  <2>5. QED  BY <2>1, <2>3, <2>4, TypeParts
<1>2. TypeInv /\ [Next]_vars => TypeInv'  BY AnyStep
<1>3. QED  BY <1>1, <1>2, PTL DEF Spec

(* TypeCorrect: vault.json, object files, paths and database files have    *)
(* their shapes, and no two paths ever name the same file, for any number  *)
(* of migrations at the same time, crashes and failing renames.            *)
THEOREM TypeCorrect == Spec => []TypeOK
<1>1. TypeInv => TypeOK  BY DEF TypeInv
<1>2. QED  BY <1>1, TypesStay, PTL

(* StoreStep: what a step may leave in an object file.                     *)
LEMMA StoreStep ==
  ASSUME TypeInv, [Next]_vars
  PROVE  \/ UNCHANGED store
         \/ \E o, file : /\ store' = [store EXCEPT ![o] = file]
                         /\ file # None => file.bytes # "part" \/ file.key = "plain" \/ file = store[o]
<1>1. CASE UNCHANGED vars  BY <1>1 DEF vars, objectVars
<1>2. ASSUME NEW q \in Procs,
             \/ EnableObjects(q) \/ EnableDb(q) \/ Ingest(q) \/ Save(q) \/ InsertRow(q)
             \/ MigrateObject(q) \/ RemoveTmp(q) \/ RemoveBak(q) \/ Export(q) \/ RenameBak(q)
             \/ Promote(q) \/ Verify(q) \/ Finish(q) \/ Rollback(q)
             \/ \E p \in Passphrases : MigrateObjects(q, p)
             \/ \E p \in DbPassphrases : MigrateDb(q, p)
      PROVE  UNCHANGED store
  BY <1>2 DEF EnableObjects, EnableDb, Ingest, Save, InsertRow, MigrateObject, RemoveTmp, RemoveBak,
              RemovePath, Export, RenameBak, Promote, Verify, Finish, Rollback, MigrateObjects, MigrateDb,
              objectVars
<1>3. ASSUME NEW q \in Procs, PutBytes(q)
      PROVE  \E o, file : /\ store' = [store EXCEPT ![o] = file]
                          /\ file # None => file.bytes # "part" \/ file.key = "plain" \/ file = store[o]
  <2>1. PICK o : store' = [store EXCEPT ![o] = IF store[o] = None THEN Plain ELSE store[o]]
    BY <1>3 DEF PutBytes
  <2>2. Plain.bytes # "part"  BY DEF Plain
  <2>3. QED  BY <2>1, <2>2
<1>4. ASSUME NEW q \in Procs, Rewrite(q), store' # store
      PROVE  \E o, file : store' = [store EXCEPT ![o] = file] /\ file.bytes # "part"
  <2>1. PICK file : file = [key |-> ctx[q].pass, bytes |-> "whole"]  OBVIOUS
  <2>2. store' = [store EXCEPT ![Min(ctx[q].todo)] = file]  BY <1>4, <2>1 DEF Rewrite
  <2>3. file.bytes # "part"  BY <2>1
  <2>4. QED  BY <2>2, <2>3
<1>5. ASSUME NEW q \in Procs, Crash(q), store' # store
      PROVE  \E o, file : /\ store' = [store EXCEPT ![o] = file]
                          /\ file.bytes # "part" \/ file.key = "plain"
  <2>1. PICK a, b : a = [key |-> "plain", bytes |-> "part"] /\ b = [key |-> ctx[q].pass, bytes |-> "broken"]
    OBVIOUS
  <2>2. \E file \in {a, b} : store' = [store EXCEPT ![Min(ctx[q].todo)] = file]
    BY <1>5, <2>1 DEF Crash, objectVars
  <2>3. a.key = "plain" /\ b.bytes # "part"  BY <2>1
  <2>4. QED  BY <2>2, <2>3
<1>6. QED  BY <1>1, <1>2, <1>3, <1>4, <1>5 DEF Next, Run

(* SealedStaysWhole: no migration, crash or concurrent ingest ever leaves  *)
(* a part of an object under a key: rewrite_plaintext_for_hash checks the  *)
(* bytes it read before, and what a crash cuts off does not authenticate.  *)
THEOREM SealedStaysWhole == Spec => []SealedIsWhole
<1>1. Init => SealedIsWhole  BY DEF Init, SealedIsWhole, Encrypted
<1>2. TypeInv /\ SealedIsWhole /\ [Next]_vars => SealedIsWhole'
  <2> SUFFICES ASSUME TypeInv, SealedIsWhole, [Next]_vars PROVE SealedIsWhole'
    OBVIOUS
  <2>1. CASE UNCHANGED store  BY <2>1 DEF SealedIsWhole, Encrypted
  <2>2. ASSUME NEW o, NEW file, store' = [store EXCEPT ![o] = file],
               file # None => file.bytes # "part" \/ file.key = "plain" \/ file = store[o]
        PROVE  SealedIsWhole'
    <3>1. store \in [Objects -> ObjectFiles \cup {None}]  BY DEF TypeInv, TypeOK
    <3>2. \A r \in Objects : store'[r] = IF r = o THEN file ELSE store[r]  BY <2>2, <3>1
    <3>3. QED  BY <2>2, <3>2, KeysAssumption DEF SealedIsWhole, Encrypted
  <2>3. QED  BY <2>1, <2>2, StoreStep
<1>3. QED  BY <1>1, <1>2, TypesStay, PTL DEF Spec

(* FailedMigrationKeepsRows: if one process migrates the database, nothing *)
(* crashes and at most one rename or removal fails, every row that any     *)
(* migration found is in one of the three files, whatever other processes  *)
(* ingest and migrate meanwhile.                                           *)
THEOREM FailedMigrationKeepsRows ==
  ASSUME \A q, r \in Procs : "migrateDb" \in Calls[q] /\ "migrateDb" \in Calls[r] => q = r
  PROVE  Spec => []FaultKeepsRows
<1>1. Init => StageInv
  BY DEF Init, StageInv, Stage, Swapping
<1>2. TypeInv /\ TypeInv' /\ StageInv /\ [Next]_vars => StageInv'
  <2> SUFFICES ASSUME TypeInv, TypeInv', StageInv, [Next]_vars PROVE StageInv'
    OBVIOUS
  <2>1. CASE UNCHANGED vars
    BY <2>1 DEF vars, dbVars, bounds, StageInv, Stage, Holds, At, Tmp, Bak
  <2>2. ASSUME NEW q \in Procs, Calm(q) PROVE StageInv'
    BY <2>2, CalmStep
  <2>3. CASE crashes' # 0  BY <2>3 DEF StageInv
  <2>4. ASSUME NEW q \in Procs, "migrateDb" \in Calls[q], Only(q) /\ StageInv => StageInv'
        PROVE  StageInv'
    <3>1. \A r \in Procs : pc[r] \in MigratePcs => "migrateDb" \in Calls[r]
      BY DEF TypeInv, ControlOK, FrameOK, MigratePcs, Swapping
    <3>2. Only(q)  BY <2>4, <3>1 DEF Only
    <3>3. QED  BY <2>4, <3>2
  <2>5. QED  BY <2>1, <2>2, <2>3, <2>4, AnyStep
<1>3. TypeInv /\ StageInv => FaultKeepsRows
  <2> SUFFICES ASSUME TypeInv, StageInv, crashes = 0, faults <= 1 PROVE settled \subseteq Kept
    BY DEF FaultKeepsRows
  <2>1. \A n \in Paths : path[n] # None => data[path[n]].rows \subseteq Kept  BY DEF Kept
  <2>2. "db" \in Paths /\ Bak \in Paths  BY DEF Paths, Bak
  <2>3. CASE \A q \in Procs : pc[q] \notin Swapping
    <3>1. settled \subseteq At("db").rows  BY <2>3 DEF StageInv
    <3>2. QED  BY <2>1, <2>2, <3>1 DEF At, Empty
  <2>4. ASSUME NEW q \in Procs, pc[q] \in Swapping PROVE settled \subseteq Kept
    BY <2>1, <2>2, <2>4 DEF StageInv, Stage, Holds
  <2>5. QED  BY <2>3, <2>4
<1>4. QED  BY <1>1, <1>2, <1>3, TypesStay, PTL DEF Spec
=============================================================================
