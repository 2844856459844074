------------------------------- MODULE AtRest -------------------------------
(***************************************************************************)
(* Encryption at rest: enabling it in vault.json, rewriting the object     *)
(* files (vault_encryption_migrate_service) and the database               *)
(* (migrate_db_to_sqlcipher), while other processes ingest.  Each file     *)
(* operation is a step.  A process that crashes while it writes a file may *)
(* leave a part of it; a rename or removal may fail.  Paths name files:    *)
(* a connection stays with its file when the path is renamed.              *)
(***************************************************************************)
EXTENDS Naturals, FiniteSets, FiniteSetsExt

CONSTANTS
  Procs,
  Calls,            \* Calls[q]: the calls that process q makes
  Passphrases,      \* of the objects
  DbPassphrases,    \* of the database
  Objects,          \* object hashes, in the order of the migration
  Files,            \* database files, as the file system identifies them
  None,
  MaxOps,           \* bound: enable and ingest calls (migrations are unbounded)
  MaxFailures       \* bound: crashes, and failing renames and removals

OpKinds == {"ingest", "enableObjects", "enableDb"}

ASSUME CallsAssumption ==
  Calls \in [Procs -> SUBSET (OpKinds \cup {"migrateObjects", "migrateDb"})]
ASSUME ObjectsAssumption == Objects \subseteq Nat /\ IsFiniteSet(Objects)
ASSUME FilesAssumption ==   \* the file system does not run out of files
  /\ Files \subseteq Nat /\ IsFiniteSet(Files) /\ IsFiniteSet(Procs)
  /\ Cardinality(Files) > Cardinality(Procs) + 3
ASSUME NoneAssumption == None \notin Files \cup Passphrases \cup DbPassphrases
ASSUME KeysAssumption ==
  "plain" \notin Passphrases \cup DbPassphrases /\ "any" \notin DbPassphrases
ASSUME BoundsAssumption ==
  MaxOps \in [OpKinds -> Nat] /\ MaxFailures \in Nat

VARIABLES
  json,     \* vault.json: is each encryption enabled; None if only a part is left
  store,    \* store[o]: the object file, or None
  path,     \* path[n]: the file of the database path n, or None
  data,     \* data[f]: what the database file f holds
  settled,  \* history: the rows that some database migration found
  pc, ctx, ops, crashes, faults

objectVars == <<json, store>>
dbVars == <<path, data, settled>>
bounds == <<ops, crashes, faults>>
vars == <<objectVars, dbVars, pc, ctx, bounds>>

-----------------------------------------------------------------------------
(* An object file holds the object's bytes, a part of them, or (encrypted) *)
(* something that fails authentication.  Files that start with the magic   *)
(* have a passphrase as key.                                               *)
ObjectFiles == [key: Passphrases \cup {"plain"}, bytes: {"whole", "part", "broken"}]
Plain == [key |-> "plain", bytes |-> "whole"]

(* A database file; one without bytes opens with any key.                  *)
DbFiles == [key: DbPassphrases \cup {"plain", "any"}, rows: SUBSET Objects]
Empty == [key |-> "any", rows |-> {}]
Paths == {"db", "sqlcipher.tmp", "pre-sqlcipher.bak"}

Encrypted(o) == store[o] # None /\ store[o].key \in Passphrases

(* is_encrypted_payload and maybe_decrypt_bytes with the key of p.         *)
Decrypts(file, p) == file.key = p /\ file.bytes # "broken"

At(n) == IF path[n] = None THEN Empty ELSE data[path[n]]

(* validate_key_on_connection, or the plain query: does key k read file f? *)
Opens(f, k) == f.key \in {"any", k}

(* apply_db_encryption_key_if_needed: the key open_db uses when the caller *)
(* has passphrase p; none if the caller has no passphrase.                 *)
DbKey(p) == IF json.db THEN p ELSE "plain"

(* open_db creates a missing file and sets up the tables of an empty one.  *)
NewFile == Min({f \in Files : /\ \A n \in Paths : path[n] # f
                              /\ \A q \in Procs : ctx[q] # None => ctx[q].conn # f})
DbFile == IF path["db"] = None THEN NewFile ELSE path["db"]
OpenDb(k) ==
  /\ Opens(At("db"), k)
  /\ path' = [path EXCEPT !["db"] = DbFile]
  /\ data' = [data EXCEPT ![DbFile] = [At("db") EXCEPT !.key = k]]

-----------------------------------------------------------------------------
Init ==
  /\ json = [objects |-> FALSE, db |-> FALSE]
  /\ store = [o \in Objects |-> None]
  /\ path = [n \in Paths |-> None] /\ data = [f \in Files |-> Empty]
  /\ settled = {}
  /\ pc = [q \in Procs |-> "idle"] /\ ctx = [q \in Procs |-> None]
  /\ ops = [k \in OpKinds |-> 0] /\ crashes = 0 /\ faults = 0

Frame(f, p, todo, j) == [conn |-> f, pass |-> p, todo |-> todo, file |-> None, json |-> j]

Goto(q, l) == pc' = [pc EXCEPT ![q] = l] /\ UNCHANGED <<ctx, bounds>>
GotoWith(q, l, c) ==
  pc' = [pc EXCEPT ![q] = l] /\ ctx' = [ctx EXCEPT ![q] = c] /\ UNCHANGED bounds
Return(q) == GotoWith(q, "idle", None)

Call(q, kind, l, c) ==
  /\ kind \in Calls[q] /\ pc[q] = "idle" /\ json # None /\ ops[kind] < MaxOps[kind]
  /\ ops' = [ops EXCEPT ![kind] = @ + 1]
  /\ pc' = [pc EXCEPT ![q] = l] /\ ctx' = [ctx EXCEPT ![q] = c]
  /\ UNCHANGED <<crashes, faults>>

(* A rename or removal that reports an error and changes nothing.          *)
Fault(q, l) ==
  /\ crashes + faults < MaxFailures /\ faults' = faults + 1
  /\ pc' = [pc EXCEPT ![q] = l]
  /\ ctx' = [ctx EXCEPT ![q] = IF l = "idle" THEN None ELSE @]
  /\ UNCHANGED <<dbVars, ops, crashes>>

-----------------------------------------------------------------------------
(* vault_encryption_enable_service and vault_db_encrypt_enable_service:    *)
(* vault.json is read, changed and written back.  The second then checks   *)
(* the passphrase against the database, which changes nothing here.        *)
EnableObjects(q) ==
  /\ Call(q, "enableObjects", "save", Frame(None, None, {}, [json EXCEPT !.objects = TRUE]))
  /\ UNCHANGED <<objectVars, dbVars>>

EnableDb(q) ==
  /\ json # None /\ ~json.db
  /\ Call(q, "enableDb", "save", Frame(None, None, {}, [json EXCEPT !.db = TRUE]))
  /\ UNCHANGED <<objectVars, dbVars>>

Save(q) ==
  /\ pc[q] = "save"
  /\ json' = ctx[q].json
  /\ Return(q)
  /\ UNCHANGED <<store, dbVars>>

(* kc_cli ingest: the file is written plain, whatever vault.json says,     *)
(* unless there is one already; then the row.                              *)
Ingest(q) ==
  /\ json # None
  /\ \E o \in Objects, p \in DbPassphrases :
       /\ OpenDb(DbKey(p))
       /\ Call(q, "ingest", "put", Frame(DbFile, None, {o}, None))
  /\ UNCHANGED <<objectVars, settled>>

PutBytes(q) ==
  LET o == Min(ctx[q].todo)
  IN /\ pc[q] = "put"
     /\ store' = [store EXCEPT ![o] = IF @ = None THEN Plain ELSE @]
     /\ Goto(q, "row")
     /\ UNCHANGED <<json, dbVars>>

(* SQLite refuses to write to a file that was moved after it was opened.   *)
InsertRow(q) ==
  /\ pc[q] = "row"
  /\ data' = IF path["db"] # ctx[q].conn THEN data
             ELSE [data EXCEPT ![ctx[q].conn].rows = @ \cup ctx[q].todo]
  /\ Return(q)
  /\ UNCHANGED <<objectVars, path, settled>>

-----------------------------------------------------------------------------
(* vault_encryption_migrate_service: the rows are listed once, then each   *)
(* object is read and, if it is plain, written again.                      *)
MigrateObjects(q, p) ==
  /\ "migrateObjects" \in Calls[q] /\ pc[q] = "idle" /\ json # None /\ json.objects
  /\ \E k \in DbPassphrases :
       /\ OpenDb(DbKey(k))
       /\ GotoWith(q, "object", Frame(DbFile, p, At("db").rows, None))
  /\ UNCHANGED <<objectVars, settled>>

(* Faulty variant: the plain file is read through the encrypted store too. *)
MigrateObjectSealed(q) ==
  LET c == ctx[q]
      o == Min(c.todo)
  IN /\ pc[q] = "object"
     /\ IF c.todo # {} /\ Encrypted(o) /\ Decrypts(store[o], c.pass)
        THEN GotoWith(q, "object", [c EXCEPT !.todo = @ \ {o}])
        ELSE Return(q)
     /\ UNCHANGED <<objectVars, dbVars>>
(* An object that is missing, or encrypted under another key, ends it.     *)
MigrateObject(q) ==
  LET c == ctx[q]
      o == Min(c.todo)
  IN /\ pc[q] = "object"
     /\ CASE c.todo = {} -> Return(q)
          [] c.todo # {} /\ store[o] = None -> Return(q)
          [] c.todo # {} /\ Encrypted(o) /\ Decrypts(store[o], c.pass) ->
               GotoWith(q, "object", [c EXCEPT !.todo = @ \ {o}])
          [] c.todo # {} /\ Encrypted(o) /\ ~Decrypts(store[o], c.pass) -> Return(q)
          [] OTHER -> GotoWith(q, "rewrite", [c EXCEPT !.file = store[o]])
     /\ UNCHANGED <<objectVars, dbVars>>

(* Faulty variant: the hash of the plaintext is not compared.              *)
RewriteUnchecked(q) ==
  LET c == ctx[q]
      o == Min(c.todo)
  IN /\ pc[q] = "rewrite"
     /\ store' = [store EXCEPT ![o] = [key |-> c.pass, bytes |-> c.file.bytes]]
     /\ GotoWith(q, "object", [c EXCEPT !.todo = @ \ {o}, !.file = None])
     /\ UNCHANGED <<json, dbVars>>
(* rewrite_plaintext_for_hash: bytes that do not have the hash are refused.*)
Rewrite(q) ==
  LET c == ctx[q]
      o == Min(c.todo)
  IN /\ pc[q] = "rewrite"
     /\ \/ /\ c.file.bytes = "whole"
           /\ store' = [store EXCEPT ![o] = [key |-> c.pass, bytes |-> "whole"]]
           /\ GotoWith(q, "object", [c EXCEPT !.todo = @ \ {o}, !.file = None])
        \/ c.file.bytes # "whole" /\ Return(q) /\ UNCHANGED store
     /\ UNCHANGED <<json, dbVars>>

-----------------------------------------------------------------------------
(* Faulty variant: what an earlier migration left is an error.             *)
MigrateDbRefusing(q, p) ==
  /\ path["sqlcipher.tmp"] = None /\ path["pre-sqlcipher.bak"] = None
  /\ "migrateDb" \in Calls[q] /\ pc[q] = "idle" /\ json # None /\ json.db
  /\ \/ /\ Opens(At("db"), "plain")
        /\ path' = [path EXCEPT !["db"] = DbFile]
        /\ settled' = settled \cup At("db").rows
        /\ GotoWith(q, "removeTmp", Frame(DbFile, p, {}, None))
        /\ UNCHANGED data
     \/ /\ ~Opens(At("db"), "plain") /\ Opens(At("db"), p)
        /\ UNCHANGED <<dbVars, pc, ctx, bounds>>
  /\ UNCHANGED objectVars
(* vault_db_encrypt_migrate_service and migrate_db_to_sqlcipher.  Opening  *)
(* the source creates it if it is missing; a database that is encrypted    *)
(* already has to open with the passphrase.                                *)
MigrateDb(q, p) ==
  /\ "migrateDb" \in Calls[q] /\ pc[q] = "idle" /\ json # None /\ json.db
  /\ \/ /\ Opens(At("db"), "plain")
        /\ path' = [path EXCEPT !["db"] = DbFile]
        /\ settled' = settled \cup At("db").rows
        /\ GotoWith(q, "removeTmp", Frame(DbFile, p, {}, None))
        /\ UNCHANGED data
     \/ /\ ~Opens(At("db"), "plain") /\ Opens(At("db"), p)
        /\ UNCHANGED <<dbVars, pc, ctx, bounds>>
  /\ UNCHANGED objectVars

(* remove_file_if_exists; a file that no path names has nothing more to say.*)
Remove(n) ==
  /\ path' = [path EXCEPT ![n] = None]
  /\ data' = IF path[n] = None THEN data ELSE [data EXCEPT ![path[n]] = Empty]
  /\ UNCHANGED settled

RemovePath(q, l, n, next) ==
  /\ pc[q] = l
  /\ \/ Remove(n) /\ Goto(q, next)
     \/ path[n] # None /\ Fault(q, "idle")
  /\ UNCHANGED objectVars

RemoveTmp(q) == RemovePath(q, "removeTmp", "sqlcipher.tmp", "removeBak")
RemoveBak(q) == RemovePath(q, "removeBak", "pre-sqlcipher.bak", "export")

(* sqlcipher_export into the attached temporary file, which is then opened *)
(* with the key.                                                           *)
Export(q) ==
  /\ pc[q] = "export"
  /\ IF path["sqlcipher.tmp"] = None
     THEN /\ path' = [path EXCEPT !["sqlcipher.tmp"] = NewFile]
          /\ data' = [data EXCEPT ![NewFile] =
                        [key |-> ctx[q].pass, rows |-> data[ctx[q].conn].rows]]
          /\ Goto(q, "renameBak")
     ELSE Return(q) /\ UNCHANGED <<path, data>>
  /\ UNCHANGED <<objectVars, settled>>

(* Faulty variant: the file is copied.                                     *)
RenamedCopying(from, to) == [path EXCEPT ![to] = path[from]]
(* A rename of one path to another.                                        *)
Renamed(from, to) == [path EXCEPT ![to] = path[from], ![from] = None]

RenameBak(q) ==
  /\ pc[q] = "renameBak"
  /\ \/ /\ IF path["db"] = None
           THEN Return(q) /\ UNCHANGED path
           ELSE path' = Renamed("db", "pre-sqlcipher.bak") /\ Goto(q, "promote")
        /\ UNCHANGED <<data, settled>>
     \/ Fault(q, "idle")
  /\ UNCHANGED objectVars

Promote(q) ==
  /\ pc[q] = "promote"
  /\ \/ /\ IF path["sqlcipher.tmp"] = None
           THEN Goto(q, "rollbackDb") /\ UNCHANGED path
           ELSE path' = Renamed("sqlcipher.tmp", "db") /\ Goto(q, "verify")
        /\ UNCHANGED <<data, settled>>
     \/ Fault(q, "rollbackDb")
  /\ UNCHANGED objectVars

Verify(q) ==
  /\ pc[q] = "verify"
  /\ Goto(q, IF Opens(At("db"), ctx[q].pass) THEN "finish" ELSE "rollbackDb")
  /\ UNCHANGED <<objectVars, dbVars>>

(* The backup is removed; the session is opened and the event appended.    *)
Finish(q) ==
  /\ pc[q] = "finish"
  /\ \/ Remove("pre-sqlcipher.bak") /\ Return(q)
     \/ Fault(q, "idle")
  /\ UNCHANGED objectVars

(* Faulty variant: the backup is removed instead.                          *)
RollbackCleaning(q) ==
  /\ \/ pc[q] = "rollbackDb" /\ Remove("db") /\ Goto(q, "rollbackBak")
     \/ pc[q] = "rollbackBak" /\ Remove("pre-sqlcipher.bak") /\ Goto(q, "rollbackTmp")
     \/ pc[q] = "rollbackTmp" /\ Remove("sqlcipher.tmp") /\ Return(q)
  /\ UNCHANGED objectVars
(* rollback_migration_files: every operation is tried, whatever failed.    *)
Rollback(q) ==
  /\ \/ /\ pc[q] = "rollbackDb"
        /\ \/ Remove("db") /\ Goto(q, "rollbackBak")
           \/ path["db"] # None /\ Fault(q, "rollbackBak")
     \/ /\ pc[q] = "rollbackBak"
        /\ \/ /\ path' = IF path["pre-sqlcipher.bak"] = None THEN path
                         ELSE Renamed("pre-sqlcipher.bak", "db")
              /\ Goto(q, "rollbackTmp") /\ UNCHANGED <<data, settled>>
           \/ Fault(q, "rollbackTmp")
     \/ /\ pc[q] = "rollbackTmp"
        /\ \/ Remove("sqlcipher.tmp") /\ Return(q)
           \/ path["sqlcipher.tmp"] # None /\ Fault(q, "idle")
  /\ UNCHANGED objectVars

-----------------------------------------------------------------------------
(* fs::write truncates the file first: a crash leaves the file as it was,  *)
(* complete, or a part.  A part of an encrypted file that lacks the magic  *)
(* reads as plain.  An unfinished export is a file that does not open.     *)
Crash(q) ==
  /\ pc[q] # "idle" /\ crashes + faults < MaxFailures
  /\ crashes' = crashes + 1
  /\ pc' = [pc EXCEPT ![q] = "idle"] /\ ctx' = [ctx EXCEPT ![q] = None]
  /\ \/ UNCHANGED <<objectVars, dbVars>>
     \/ pc[q] = "save" /\ json' = None /\ UNCHANGED <<store, dbVars>>
     \/ /\ pc[q] = "put" /\ store[Min(ctx[q].todo)] = None
        /\ store' = [store EXCEPT ![Min(ctx[q].todo)] = [key |-> "plain", bytes |-> "part"]]
        /\ UNCHANGED <<json, dbVars>>
     \/ /\ pc[q] = "rewrite" /\ ctx[q].file.bytes = "whole"
        /\ \E left \in {[key |-> "plain", bytes |-> "part"], [key |-> ctx[q].pass, bytes |-> "broken"]} :
             store' = [store EXCEPT ![Min(ctx[q].todo)] = left]
        /\ UNCHANGED <<json, dbVars>>
     \/ /\ pc[q] = "export" /\ path["sqlcipher.tmp"] = None
        /\ path' = [path EXCEPT !["sqlcipher.tmp"] = NewFile]
        /\ data' = [data EXCEPT ![NewFile] = [key |-> ctx[q].pass, rows |-> {}]]
        /\ UNCHANGED <<objectVars, settled>>
  /\ UNCHANGED <<ops, faults>>

Run(q) ==
  \/ Save(q) \/ PutBytes(q) \/ InsertRow(q) \/ MigrateObject(q) \/ Rewrite(q)
  \/ RemoveTmp(q) \/ RemoveBak(q) \/ Export(q) \/ RenameBak(q) \/ Promote(q)
  \/ Verify(q) \/ Finish(q) \/ Rollback(q)

Next ==
  \E q \in Procs :
    \/ EnableObjects(q) \/ EnableDb(q) \/ Ingest(q)
    \/ \E p \in Passphrases : MigrateObjects(q, p)
    \/ \E p \in DbPassphrases : MigrateDb(q, p)
    \/ Run(q) \/ Crash(q)

Spec == Init /\ [][Next]_vars

(* A call that is running goes on, and the operator calls the two          *)
(* migrations again until they succeed.                                    *)
Fairness ==
  /\ \A q \in Procs : WF_vars(Run(q))
  /\ \A p \in Passphrases : SF_vars(\E q \in Procs : MigrateObjects(q, p))
  /\ \A p \in DbPassphrases : SF_vars(\E q \in Procs : MigrateDb(q, p))

FairSpec == Spec /\ Fairness

-----------------------------------------------------------------------------
(* vault.json, object files and database files have their shapes.          *)
TypeOK ==
  /\ json \in [objects: BOOLEAN, db: BOOLEAN] \cup {None}
  /\ store \in [Objects -> ObjectFiles \cup {None}]
  /\ path \in [Paths -> Files \cup {None}]
  /\ data \in [Files -> DbFiles]
  /\ settled \subseteq Objects
  /\ \A n, m \in Paths : path[n] # None /\ path[n] = path[m] => n = m

(* Files that crashed writes left incomplete are never sealed: whatever    *)
(* authenticates under a key is the object that the hash names, although   *)
(* the migration reads and encrypts whatever it finds.                     *)
SealedIsWhole == \A o \in Objects : Encrypted(o) => store[o].bytes # "part"

Kept == UNION {data[path[n]].rows : n \in {m \in Paths : path[m] # None}}

(* A single failing rename or removal loses no row that a migration found: *)
(* the rollback brings the source back, or one of the three files has it.  *)
FaultKeepsRows == crashes = 0 /\ faults <= 1 => settled \subseteq Kept

(* What the migrations cannot get past: parts of files, objects under two  *)
(* keys, and the flag of an encrypted database that the other enabling     *)
(* call, which had read vault.json before, took back.                      *)
Obstructed ==
  \/ json = None
  \/ ~json.db /\ At("db").key \in DbPassphrases
  \/ \E o \in Objects : store[o] # None /\ store[o].bytes # "whole"
  \/ \E o, r \in Objects : Encrypted(o) /\ Encrypted(r) /\ store[o].key # store[r].key

(* Calling the migrations again and again completes them, wherever earlier *)
(* ones crashed or failed: every object that has a row ends up encrypted.  *)
ObjectsConverge ==
  <>[](~Obstructed /\ json.objects) => <>[](\A o \in At("db").rows : Encrypted(o))

(* The same for the database.                                              *)
DbConverges ==
  <>[](json # None /\ json.db) => <>[](path["db"] # None /\ At("db").key \in DbPassphrases)

(* docs/21 and the state "migration_failed_recoverable": what an           *)
(* interrupted migration leaves can be recovered; no row is lost.          *)
InterruptedKeepsRows == settled \subseteq Kept
=============================================================================
