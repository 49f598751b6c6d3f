------------------------- MODULE AccountStoreProofs -------------------------
(* TLAPS proofs about the account database, for any sets of providers,     *)
(* aliases, sessions and processes.                                        *)
EXTENDS AccountStore, TLAPS

\* pick_selection chooses one of the aliases it is given.
LEMMA PickSelectionMember ==
    ASSUME NEW S \in SUBSET Alias, S # {}, NEW legacy
    PROVE  PickSelection(S, legacy) \in S
BY AliasAssumption DEF PickSelection

\* Deleting or rewriting snapshot rows keeps the row tables well typed.
LEMMA RowsTyped ==
    ASSUME TypeOK
    PROVE  /\ \A s \in Session, p \in Provider, a \in Alias :
                SnapshotIn(s, p, a) =>
                   /\ snapshot' \in [Session -> [Provider -> Alias \cup {NoAlias}]]
                   /\ age' \in [Session -> [Provider -> {Fresh, Idle, Expired}]]
                   /\ orphaned' \subseteq Session \X Provider
           /\ \A rows : DeleteRows(rows) =>
                   /\ snapshot' \in [Session -> [Provider -> Alias \cup {NoAlias}]]
                   /\ age' \in [Session -> [Provider -> {Fresh, Idle, Expired}]]
                   /\ orphaned' \subseteq Session \X Provider
<1>1. ASSUME NEW s \in Session, NEW p \in Provider, NEW a \in Alias, SnapshotIn(s, p, a)
      PROVE  /\ snapshot' \in [Session -> [Provider -> Alias \cup {NoAlias}]]
             /\ age' \in [Session -> [Provider -> {Fresh, Idle, Expired}]]
             /\ orphaned' \subseteq Session \X Provider
  BY <1>1 DEF TypeOK, SnapshotIn
<1>2. ASSUME NEW rows, DeleteRows(rows)
      PROVE  /\ snapshot' \in [Session -> [Provider -> Alias \cup {NoAlias}]]
             /\ age' \in [Session -> [Provider -> {Fresh, Idle, Expired}]]
             /\ orphaned' \subseteq Session \X Provider
  BY <1>2 DEF TypeOK, DeleteRows
<1>3. QED
  BY <1>1, <1>2

\* The selection a transaction leaves is a stored alias, or none; stated of the
\* step so that both the type and the coverage proofs can cite it.
LEMMA SeedTyped ==
    ASSUME TypeOK, NEW c \in Process, NEW legacy, SeedSelections(c, legacy),
           NEW p \in Provider
    PROVE  \/ selected'[p] = selected[p] /\ (selected[p] # NoAlias \/ Stored(p) = {})
           \/ selected'[p] \in Stored(p)
<1>1. Stored(p) \in SUBSET Alias
  BY DEF Stored
<1>2. CASE selected[p] = NoAlias /\ Stored(p) # {}
  <2>1. PickSelection(Stored(p), legacy[p]) \in Stored(p)
    BY <1>1, <1>2, PickSelectionMember
  <2>2. QED
    BY <1>2, <2>1 DEF SeedSelections
<1>3. CASE ~(selected[p] = NoAlias /\ Stored(p) # {})
  BY <1>3 DEF SeedSelections
<1>4. QED
  BY <1>2, <1>3

\* The tables, files and histories keep their types.
THEOREM TypeCorrect == Spec => []TypeOK
<1>1. Init => TypeOK
  <2> SUFFICES ASSUME Init PROVE TypeOK
    OBVIOUS
  <2>1. /\ accounts \in [Provider -> [Alias -> Credential \cup {NoCredential}]]
        /\ selected \in [Provider -> Alias \cup {NoAlias}]
        /\ snapshot \in [Session -> [Provider -> Alias \cup {NoAlias}]]
        /\ age \in [Session -> [Provider -> {Fresh, Idle, Expired}]]
        /\ revision \in Nat
        /\ orphaned \subseteq Session \X Provider
    BY DEF Init
  <2>2. legacyFile \in BOOLEAN /\ backup \in BOOLEAN /\ phase \in [Process -> Phase]
    BY DEF Init, Phase
  <2>3. QED
    BY <2>1, <2>2 DEF TypeOK
<1>2. TypeOK /\ [Next]_vars => TypeOK'
  <2> SUFFICES ASSUME TypeOK, [Next]_vars PROVE TypeOK'
    OBVIOUS
  <2>1. ASSUME NEW c \in Process, NEW p \in Provider, NEW a \in Alias,
               NEW cred \in Credential, Insert(c, p, a, cred)
        PROVE  TypeOK'
    BY <2>1 DEF TypeOK, Insert, BumpRevision, files
  <2>2. ASSUME NEW c \in Process, NEW p \in Provider, NEW a \in Alias,
               NEW used \in Token, NEW fresh \in Token, SwapOAuth(c, p, a, used, fresh)
        PROVE  TypeOK'
    <3>1. [kind |-> "oauth", refresh |-> fresh] \in Credential
      BY DEF Credential
    <3>2. QED
      BY <2>2, <3>1 DEF TypeOK, SwapOAuth, files
  <2>3. ASSUME NEW c \in Process, NEW p \in Provider, NEW a \in Alias, Remove(c, p, a)
        PROVE  TypeOK'
    BY <2>3 DEF TypeOK, Remove, BumpRevision, files
  <2>4. ASSUME NEW c \in Process, NEW legacy \in [Provider -> Alias \cup {NoAlias}],
               SeedSelections(c, legacy)
        PROVE  TypeOK'
    <3>1. selected' = [p \in Provider |-> selected'[p]]
      BY <2>4 DEF SeedSelections
    <3>2. \A p \in Provider : selected'[p] \in Alias \cup {NoAlias}
      BY <2>4, SeedTyped DEF TypeOK, Stored
    <3>3. selected' \in [Provider -> Alias \cup {NoAlias}]
      BY <3>1, <3>2
    <3>4. QED
      BY <2>4, <3>3 DEF TypeOK, SeedSelections, files
  <2>5. ASSUME NEW c \in Process, NEW p \in Provider, NEW a \in Alias, Select(c, p, a)
        PROVE  TypeOK'
    BY <2>5 DEF TypeOK, Select, files
  <2>6. ASSUME NEW c \in Process, NEW s \in Session, NEW p \in Provider,
               SessionAccount(c, s, p)
        PROVE  TypeOK'
    <3>1. \E a \in Alias : SnapshotIn(s, p, a)
      BY <2>6 DEF SessionAccount, Bound, Stored, TypeOK
    <3>2. QED
      BY <2>6, <3>1, RowsTyped DEF TypeOK, SessionAccount, files
  <2>7. ASSUME NEW c \in Process, NEW s \in Session, NEW p \in Provider,
               NEW a \in Alias, NEW select \in BOOLEAN, PinSession(c, s, p, a, select)
        PROVE  TypeOK'
    BY <2>7, RowsTyped DEF TypeOK, PinSession, files
  <2>8. ASSUME NEW c \in Process, NEW s \in Session, NEW p \in Provider,
               UnpinSession(c, s, p)
        PROVE  TypeOK'
    BY <2>8, RowsTyped DEF TypeOK, UnpinSession, files
  <2>9. ASSUME NEW c \in Process, PruneSessions(c)
        PROVE  TypeOK'
    BY <2>9, RowsTyped DEF TypeOK, PruneSessions, files
  <2>10. ASSUME NEW c \in Process, Migrate(c)
         PROVE  TypeOK'
    <3>1. CASE MigrateRead(c)
      BY <3>1 DEF TypeOK, MigrateRead, Phase, tables, files
    <3>2. CASE MigrateCommit(c)
      BY <3>2, AliasAssumption, CredentialAssumption DEF TypeOK, MigrateCommit, Migrated, BumpRevision, Phase, files
    <3>3. CASE MigrateVerify(c)
      BY <3>3 DEF TypeOK, MigrateVerify, Phase, tables
    <3>4. CASE MigrateRename(c)
      BY <3>4 DEF TypeOK, MigrateRename, Phase, tables
    <3>5. CASE Crash(c)
      BY <3>5 DEF TypeOK, Crash, Phase, tables, files
    <3>6. QED
      BY <2>10, <3>1, <3>2, <3>3, <3>4, <3>5 DEF Migrate
  <2>11. ASSUME NEW s \in Session, NEW p \in Provider, Age(s, p)
         PROVE  TypeOK'
    BY <2>11 DEF TypeOK, Age, files, Fresh, Idle, Expired
  <2>12. CASE UNCHANGED vars
    BY <2>12 DEF TypeOK, vars, tables, files
  <2>13. QED
    BY <2>1, <2>2, <2>3, <2>4, <2>5, <2>6, <2>7, <2>8, <2>9, <2>10, <2>11, <2>12
    DEF Next
<1>3. QED
  BY <1>1, <1>2, PTL DEF Spec


-----------------------------------------------------------------------------

\* The aliases stored for one provider and its selection, as one step changes
\* them: the four ways, each of which keeps the selection covered.
LEMMA SelectionCoversStep ==
    TypeOK /\ SelectionCovers /\ [Next]_vars => SelectionCovers'
<1> SUFFICES ASSUME TypeOK, SelectionCovers, [Next]_vars, NEW q \in Provider
             PROVE  \/ selected'[q] \in Stored(q)'
                    \/ selected'[q] = NoAlias /\ Stored(q)' \subseteq {Default}
  BY DEF SelectionCovers
<1>0. \/ selected[q] \in Stored(q)
      \/ selected[q] = NoAlias /\ Stored(q) \subseteq {Default}
  BY DEF SelectionCovers
<1>u. ASSUME accounts' = accounts, selected'[q] = selected[q]
      PROVE  \/ selected'[q] \in Stored(q)'
             \/ selected'[q] = NoAlias /\ Stored(q)' \subseteq {Default}
  BY <1>0, <1>u DEF Stored
<1>1. ASSUME NEW c \in Process, NEW p \in Provider, NEW a \in Alias,
             NEW cred \in Credential, Insert(c, p, a, cred)
      PROVE  \/ selected'[q] \in Stored(q)'
             \/ selected'[q] = NoAlias /\ Stored(q)' \subseteq {Default}
  <2>1. CASE p # q
    BY <1>0, <1>1, <2>1 DEF Insert, Stored, TypeOK
  <2>2. CASE p = q
    <3>1. a \in Stored(q)' /\ Stored(q) \subseteq Stored(q)'
      BY <1>1, <2>2, CredentialAssumption DEF Insert, Stored, TypeOK
    <3>2. selected'[q] = IF selected[q] = NoAlias THEN a ELSE selected[q]
      BY <1>1, <2>2 DEF Insert, TypeOK
    <3>3. QED
      BY <1>0, <3>1, <3>2
  <2>3. QED
    BY <2>1, <2>2
<1>2. ASSUME NEW c \in Process, NEW p \in Provider, NEW a \in Alias,
             NEW used \in Token, NEW fresh \in Token, SwapOAuth(c, p, a, used, fresh)
      PROVE  \/ selected'[q] \in Stored(q)'
             \/ selected'[q] = NoAlias /\ Stored(q)' \subseteq {Default}
  <2>1. [kind |-> "oauth", refresh |-> fresh] # NoCredential
    BY CredentialAssumption DEF Credential
  <2>2. Stored(q)' = Stored(q)
    BY <1>2, <2>1 DEF SwapOAuth, Stored, TypeOK
  <2>3. QED
    BY <1>0, <1>2, <2>2 DEF SwapOAuth
<1>3. ASSUME NEW c \in Process, NEW p \in Provider, NEW a \in Alias, Remove(c, p, a)
      PROVE  \/ selected'[q] \in Stored(q)'
             \/ selected'[q] = NoAlias /\ Stored(q)' \subseteq {Default}
  <2>1. CASE p # q
    BY <1>0, <1>3, <2>1 DEF Remove, Stored, TypeOK
  <2>2. CASE p = q
    <3>1. Stored(q)' = Stored(q) \ {a}
      BY <1>3, <2>2 DEF Remove, Stored, TypeOK
    <3>2. selected'[q] = IF Stored(q) = {a} THEN NoAlias ELSE selected[q]
      BY <1>3, <2>2 DEF Remove, TypeOK
    <3>3. Stored(q) # {a} => selected[q] # a
      BY <1>3, <2>2 DEF Remove
    <3>4. QED
      BY <1>0, <3>1, <3>2, <3>3
  <2>3. QED
    BY <2>1, <2>2
<1>4. ASSUME NEW c \in Process, NEW legacy, SeedSelections(c, legacy)
      PROVE  \/ selected'[q] \in Stored(q)'
             \/ selected'[q] = NoAlias /\ Stored(q)' \subseteq {Default}
  <2>1. Stored(q)' = Stored(q)
    BY <1>4 DEF SeedSelections, Stored
  <2>2. QED
    BY <1>0, <1>4, <2>1, SeedTyped
<1>5. ASSUME NEW c \in Process, NEW p \in Provider, NEW a \in Alias, Select(c, p, a)
      PROVE  \/ selected'[q] \in Stored(q)'
             \/ selected'[q] = NoAlias /\ Stored(q)' \subseteq {Default}
  BY <1>0, <1>5 DEF Select, Stored, TypeOK
<1>6. ASSUME NEW c \in Process, NEW s \in Session, NEW p \in Provider,
             SessionAccount(c, s, p)
      PROVE  \/ selected'[q] \in Stored(q)'
             \/ selected'[q] = NoAlias /\ Stored(q)' \subseteq {Default}
  BY <1>u, <1>6 DEF SessionAccount
<1>7. ASSUME NEW c \in Process, NEW s \in Session, NEW p \in Provider,
             NEW a \in Alias, NEW select \in BOOLEAN, PinSession(c, s, p, a, select)
      PROVE  \/ selected'[q] \in Stored(q)'
             \/ selected'[q] = NoAlias /\ Stored(q)' \subseteq {Default}
  BY <1>0, <1>7 DEF PinSession, Stored, TypeOK
<1>8. ASSUME NEW c \in Process, NEW s \in Session, NEW p \in Provider,
             UnpinSession(c, s, p)
      PROVE  \/ selected'[q] \in Stored(q)'
             \/ selected'[q] = NoAlias /\ Stored(q)' \subseteq {Default}
  BY <1>u, <1>8 DEF UnpinSession
<1>9. ASSUME NEW c \in Process, PruneSessions(c)
      PROVE  \/ selected'[q] \in Stored(q)'
             \/ selected'[q] = NoAlias /\ Stored(q)' \subseteq {Default}
  BY <1>u, <1>9 DEF PruneSessions
<1>10. ASSUME NEW c \in Process, Migrate(c)
       PROVE  \/ selected'[q] \in Stored(q)'
              \/ selected'[q] = NoAlias /\ Stored(q)' \subseteq {Default}
  <2>1. CASE MigrateCommit(c)
    <3>1. Stored(q) \subseteq Stored(q)' /\ Stored(q)' \subseteq Stored(q) \cup {Default}
      BY <2>1, AliasAssumption, CredentialAssumption DEF MigrateCommit, Migrated, Stored, TypeOK
    <3>2. QED
      BY <1>0, <2>1, <3>1 DEF MigrateCommit
  <2>2. CASE ~MigrateCommit(c)
    BY <1>u, <1>10, <2>2
    DEF Migrate, MigrateRead, MigrateVerify, MigrateRename, Crash, tables
  <2>3. QED
    BY <2>1, <2>2
<1>11. ASSUME NEW s \in Session, NEW p \in Provider, Age(s, p)
       PROVE  \/ selected'[q] \in Stored(q)'
              \/ selected'[q] = NoAlias /\ Stored(q)' \subseteq {Default}
  BY <1>u, <1>11 DEF Age
<1>12. CASE UNCHANGED vars
  BY <1>u, <1>12 DEF vars, tables
<1>13. QED
  BY <1>1, <1>2, <1>3, <1>4, <1>5, <1>6, <1>7, <1>8, <1>9, <1>10, <1>11, <1>12 DEF Next

\* Every provider with accounts keeps a stored selection, but for the state a
\* migration leaves (credential_store.rs, remove_account and insert_account).
THEOREM SelectionAlwaysCovers == Spec => []SelectionCovers
<1>1. Init => SelectionCovers
  BY DEF Init, SelectionCovers, Stored
<1>2. TypeOK /\ SelectionCovers /\ [Next]_vars => SelectionCovers'
  BY SelectionCoversStep
<1>3. QED
  BY <1>1, <1>2, TypeCorrect, PTL DEF Spec


-----------------------------------------------------------------------------

\* While auth.json is there no process gets past `migrate`, so once a migration
\* has committed, its accounts cannot be disconnected before the file is gone.
MigrationInv ==
    legacyFile /\ (\E c \in Process : phase[c] \in {"committed", "unlinked"}) =>
        \A p \in LegacyProvider : Default \in Stored(p)

\* Every step keeps it.
LEMMA MigrationInvStep == TypeOK /\ MigrationInv /\ [Next]_vars => MigrationInv'
<1> SUFFICES ASSUME TypeOK, MigrationInv, [Next]_vars, legacyFile',
                    NEW d \in Process, phase'[d] \in {"committed", "unlinked"},
                    NEW q \in LegacyProvider
             PROVE  Default \in Stored(q)'
  BY DEF MigrationInv
<1>1. CASE \E c \in Process : MigrateCommit(c)
  BY <1>1, AliasAssumption, CredentialAssumption DEF MigrateCommit, Migrated, Stored, TypeOK
<1>2. ASSUME accounts' = accounts, legacyFile' = legacyFile,
             phase[d] \in {"committed", "unlinked"}
      PROVE  Default \in Stored(q)'
  BY <1>2 DEF MigrationInv, Stored
<1>3. CASE \E c \in Process : MigrateRead(c)
  BY <1>2, <1>3 DEF MigrateRead, TypeOK, tables, files
<1>4. CASE \E c \in Process : MigrateVerify(c)
  BY <1>2, <1>4 DEF MigrateVerify, TypeOK, tables
<1>5. CASE \E c \in Process : MigrateRename(c)
  BY <1>5 DEF MigrateRename
<1>6. CASE \E c \in Process : Crash(c)
  BY <1>2, <1>6 DEF Crash, TypeOK, tables, files
<1>7. CASE \E s \in Session, p \in Provider : Age(s, p)
  BY <1>2, <1>7 DEF Age, files
<1>8. CASE UNCHANGED vars
  BY <1>2, <1>8 DEF vars, tables, files
<1>9. CASE /\ ~\E c \in Process : Migrate(c)
           /\ ~\E s \in Session, p \in Provider : Age(s, p)
           /\ Next
  <2>1. ~legacyFile /\ legacyFile' = legacyFile
    BY <1>9 DEF Next, Insert, SwapOAuth, Remove, SeedSelections, Select, SessionAccount,
                PinSession, UnpinSession, PruneSessions, Ready, files
  <2>2. QED
    BY <2>1
<1>10. QED
  BY <1>1, <1>3, <1>4, <1>5, <1>6, <1>7, <1>8, <1>9 DEF Migrate

\* Nothing changes for the user where accounts and file stay.
LEMMA KnownKept ==
    ASSUME accounts' = accounts, legacyFile' = legacyFile
    PROVE  Known' = Known
BY DEF Known, Migrated, Stored

\* An operation meets no auth.json, so the user's accounts are the stored ones.
LEMMA OperationKnown ==
    ASSUME TypeOK, NEW c \in Process, Ready(c), UNCHANGED <<files, phase>>
    PROVE  /\ ~legacyFile /\ legacyFile' = legacyFile
           /\ Known = accounts /\ Known' = accounts' /\ Readers' = Readers
           /\ \A p \in Provider : Book!Held(p) = Stored(p)
BY DEF Ready, files, Known, Readers, Book!Held, Stored

\* The migration adds what the user already has, or what a late reader brings
\* back.
LEMMA CommitStep ==
    ASSUME TypeOK, NEW c \in Process, MigrateCommit(c)
    PROVE  IF legacyFile THEN Book!End(c) ELSE Book!Return(c)
<1>1. Readers' = Readers \ {c} /\ c \in Readers
  BY DEF MigrateCommit, Readers, TypeOK
<1>2. accounts' = Migrated /\ selected' = selected /\ legacyFile' = legacyFile
  BY DEF MigrateCommit, files
<1>3. CASE legacyFile
  <2>1. Migrated' = Migrated
    BY <1>2, AliasAssumption, CredentialAssumption DEF Migrated, Stored, TypeOK
  <2>2. Known' = Known
    BY <1>2, <1>3, <2>1 DEF Known
  <2>3. QED
    BY <1>1, <1>2, <1>3, <2>2 DEF Book!End
<1>4. CASE ~legacyFile
  <2>1. Known = accounts /\ Known' = Migrated
    BY <1>2, <1>4 DEF Known
  <2>2. \A p \in Provider : Book!Held(p) = Stored(p)
    BY <2>1 DEF Book!Held, Stored
  <2>3. Known' = [p \in Provider |->
                    IF p \in DOMAIN LegacyAuth /\ Default \notin Book!Held(p)
                    THEN [Known[p] EXCEPT ![Default] = LegacyAuth[p]] ELSE Known[p]]
    BY <2>1, <2>2 DEF Migrated, LegacyProvider
  <2>4. QED
    BY <1>1, <1>2, <1>4, <2>3 DEF Book!Return
<1>5. QED
  BY <1>3, <1>4

\* auth.json is retired only once its credentials are in the database.
LEMMA RenameStep ==
    ASSUME TypeOK, MigrationInv, NEW c \in Process, MigrateRename(c)
    PROVE  IF legacyFile THEN Book!Retire
           ELSE UNCHANGED <<Known, selected, legacyFile, Readers>>
<1>1. Readers' = Readers /\ accounts' = accounts /\ selected' = selected /\ legacyFile' = FALSE
  BY DEF MigrateRename, Readers, TypeOK, tables
<1>2. CASE legacyFile
  <2>1. \A p \in LegacyProvider : Default \in Stored(p)
    BY <1>2 DEF MigrateRename, MigrationInv
  <2>2. Migrated = accounts
    BY <2>1 DEF Migrated, TypeOK
  <2>3. QED
    BY <1>1, <1>2, <2>2 DEF Known, Book!Retire
<1>3. CASE legacyFile = FALSE
  BY <1>1, <1>3 DEF Known
<1>4. QED
  BY <1>2, <1>3 DEF TypeOK

\* Every step of a process is a step of the book, or none.
LEMMA BookStep ==
    ASSUME TypeOK, MigrationInv, [Next]_vars
    PROVE  [Book!Next]_<<Known, selected, legacyFile, Readers>>
<1>1. ASSUME NEW c \in Process, NEW p \in Provider, NEW a \in Alias,
             NEW cred \in Credential, Insert(c, p, a, cred)
      PROVE  Book!Connect(p, a, cred)
  BY <1>1, OperationKnown DEF Insert, Book!Connect
<1>2. ASSUME NEW c \in Process, NEW p \in Provider, NEW a \in Alias,
             NEW used \in Token, NEW fresh \in Token, SwapOAuth(c, p, a, used, fresh)
      PROVE  \E cred \in Credential : Book!Renew(p, a, cred)
  <2> DEFINE cred == [kind |-> "oauth", refresh |-> fresh]
  <2>1. cred \in Credential
    BY DEF Credential
  <2>2. Book!Renew(p, a, cred)
    BY <1>2, OperationKnown DEF SwapOAuth, Book!Renew
  <2>3. QED
    BY <2>1, <2>2
<1>3. ASSUME NEW c \in Process, NEW p \in Provider, NEW a \in Alias, Remove(c, p, a)
      PROVE  Book!Disconnect(p, a)
  BY <1>3, OperationKnown DEF Remove, Book!Disconnect
<1>4. ASSUME NEW c \in Process, Ready(c), UNCHANGED <<accounts, files, phase>>,
             selected' \in [Provider -> Alias \cup {NoAlias}],
             \A p \in Provider : selected'[p] # selected[p] => selected'[p] \in Stored(p)
      PROVE  Book!Select
  BY <1>4, OperationKnown DEF Book!Select
<1>5. ASSUME NEW c \in Process, NEW legacy \in [Provider -> Alias \cup {NoAlias}],
             SeedSelections(c, legacy)
      PROVE  Book!Select
  <2>1. \A p \in Provider :
          selected'[p] = selected[p] \/ selected'[p] \in Stored(p)
    BY <1>5, SeedTyped
  <2>2. selected' = [p \in Provider |-> selected'[p]]
    BY <1>5 DEF SeedSelections
  <2>3. selected' \in [Provider -> Alias \cup {NoAlias}]
    BY <2>1, <2>2 DEF TypeOK, Stored
  <2>4. QED
    BY <1>4, <1>5, <2>1, <2>3 DEF SeedSelections
<1>6. ASSUME NEW c \in Process, NEW p \in Provider, NEW a \in Alias, Select(c, p, a)
      PROVE  Book!Select
  BY <1>4, <1>6 DEF Select, TypeOK
<1>7. ASSUME NEW c \in Process, NEW s \in Session, NEW p \in Provider,
             NEW a \in Alias, NEW select \in BOOLEAN, PinSession(c, s, p, a, select)
      PROVE  Book!Select
  BY <1>4, <1>7 DEF PinSession, TypeOK
<1>8. ASSUME UNCHANGED <<accounts, selected, files, phase>>
      PROVE  UNCHANGED <<Known, selected, legacyFile, Readers>>
  BY <1>8, KnownKept DEF files, Readers
<1>9. ASSUME NEW c \in Process, MigrateRead(c)
      PROVE  Book!Begin(c)
  <2>1. Readers' = Readers \cup {c}
    BY <1>9 DEF MigrateRead, Readers, TypeOK
  <2>2. QED
    BY <1>9, <2>1, KnownKept DEF MigrateRead, tables, files, Book!Begin
<1>10. ASSUME NEW c \in Process, Crash(c)
       PROVE  Book!End(c)
  <2>1. Readers' = Readers \ {c}
    BY <1>10 DEF Crash, Readers, TypeOK
  <2>2. QED
    BY <1>10, <2>1, KnownKept DEF Crash, tables, files, Book!End
<1>11. ASSUME NEW c \in Process, MigrateVerify(c)
       PROVE  UNCHANGED <<Known, selected, legacyFile, Readers>>
  <2>1. Readers' = Readers
    BY <1>11 DEF MigrateVerify, Readers, TypeOK
  <2>2. QED
    BY <1>11, <2>1, KnownKept DEF MigrateVerify, tables
<1>12. ASSUME NEW c \in Process, Migrate(c)
       PROVE  [Book!Next]_<<Known, selected, legacyFile, Readers>>
  BY <1>9, <1>10, <1>11, <1>12, CommitStep, RenameStep DEF Migrate, Book!Next
<1>13. CASE UNCHANGED vars
  BY <1>8, <1>13 DEF vars, tables
<1>14. CASE /\ Next
            /\ \/ \E s \in Session, p \in Provider : Age(s, p)
               \/ \E c \in Process : PruneSessions(c)
               \/ \E c \in Process, s \in Session, p \in Provider :
                     SessionAccount(c, s, p) \/ UnpinSession(c, s, p)
  BY <1>8, <1>14 DEF Age, PruneSessions, SessionAccount, UnpinSession
<1>15. QED
  BY <1>1, <1>2, <1>3, <1>5, <1>6, <1>7, <1>12, <1>13, <1>14 DEF Next, Book!Next

\* The migration of auth.json is invisible: whatever processes run it, at once or
\* one after another, and wherever they crash, the user's accounts and selections
\* are those of a book that only commands and refreshes write in, but for the
\* accounts a late reader brings back.
THEOREM BookKept == Spec => KeepsBook
<1>1. Init => Book!Init
  <2> SUFFICES ASSUME Init PROVE Book!Init
    OBVIOUS
  <2>1. Known = [p \in Provider |-> [a \in Alias |->
                   IF legacyFile /\ p \in DOMAIN LegacyAuth /\ a = Default
                   THEN LegacyAuth[p] ELSE NoCredential]]
    BY AliasAssumption DEF Init, Known, Migrated, Stored, LegacyProvider
  <2>2. Readers = {}
    BY DEF Init, Readers
  <2>3. QED
    BY <2>1, <2>2 DEF Init, Book!Init
<1>2. Init => MigrationInv
  BY DEF Init, MigrationInv
<1>3. TypeOK /\ MigrationInv /\ [Next]_vars => MigrationInv'
  BY MigrationInvStep
<1>4. TypeOK /\ MigrationInv /\ [Next]_vars
        => [Book!Next]_<<Known, selected, legacyFile, Readers>>
  BY BookStep
<1>5. QED
  BY <1>1, <1>2, <1>3, <1>4, TypeCorrect, PTL DEF Spec, KeepsBook, Book!Spec

-----------------------------------------------------------------------------

\* What a step may do to the account one session is bound to.
SessionStickyStep(s, p) ==
    Bound(s, p) # NoAlias /\ Bound(s, p)' # Bound(s, p) =>
       \/ Bound(s, p) \notin Stored(p)'
       \/ snapshot'[s][p] = NoAlias
       \/ /\ snapshot'[s][p] # Bound(s, p)
          /\ age'[s][p] = Fresh
          /\ \A t \in Session \ {s} : snapshot'[t] = snapshot[t]

\* Rewriting one row disturbs no other session, and leaves its own row fresh.
LEMMA SnapshotInOne ==
    ASSUME TypeOK, NEW r \in Session, NEW q \in Provider, NEW a \in Alias,
           SnapshotIn(r, q, a)
    PROVE  /\ snapshot'[r][q] = a /\ age'[r][q] = Fresh
           /\ \A t \in Session \ {r} : snapshot'[t] = snapshot[t]
           /\ \A p \in Provider \ {q} : snapshot'[r][p] = snapshot[r][p]
BY DEF TypeOK, SnapshotIn

\* A step that rewrites one row and leaves the accounts alone is a legal move.
LEMMA SnapshotInSticky ==
    ASSUME TypeOK, NEW r \in Session, NEW q \in Provider, NEW a \in Alias,
           SnapshotIn(r, q, a), accounts' = accounts,
           NEW s \in Session, NEW p \in Provider
    PROVE  SessionStickyStep(s, p)
<1>1. Stored(p)' = Stored(p)
  BY DEF Stored
<1>2. CASE s = r /\ p = q
  BY <1>1, <1>2, SnapshotInOne DEF SessionStickyStep, Bound
<1>3. CASE ~(s = r /\ p = q)
  BY <1>1, <1>3, SnapshotInOne DEF SessionStickyStep, Bound
<1>4. QED
  BY <1>2, <1>3

\* A session keeps its account through every step but a disconnect of that
\* account and a rewrite or deletion of its own row.
THEOREM SessionsStick == Spec => SessionSticky
<1>1. TypeOK /\ [Next]_vars =>
        [\A s \in Session, p \in Provider : SessionStickyStep(s, p)]_vars
  <2> SUFFICES ASSUME TypeOK, Next, NEW s \in Session, NEW p \in Provider
               PROVE  SessionStickyStep(s, p)
    OBVIOUS
  <2>u. ASSUME snapshot' = snapshot
        PROVE  SessionStickyStep(s, p)
    BY <2>u DEF SessionStickyStep, Bound
  <2>1. ASSUME NEW c \in Process, NEW r \in Session, NEW q \in Provider,
               SessionAccount(c, r, q)
        PROVE  SessionStickyStep(s, p)
    <3>1. \E a \in Alias : SnapshotIn(r, q, a)
      BY <2>1 DEF SessionAccount, Bound, Stored, TypeOK
    <3>2. accounts' = accounts
      BY <2>1 DEF SessionAccount
    <3>3. QED
      BY <3>1, <3>2, SnapshotInSticky
  <2>2. ASSUME NEW c \in Process, NEW r \in Session, NEW q \in Provider,
               NEW a \in Alias, NEW select \in BOOLEAN, PinSession(c, r, q, a, select)
        PROVE  SessionStickyStep(s, p)
    <3>1. SnapshotIn(r, q, a) /\ accounts' = accounts
      BY <2>2 DEF PinSession
    <3>2. QED
      BY <3>1, SnapshotInSticky
  <2>3. ASSUME NEW rows, DeleteRows(rows), accounts' = accounts
        PROVE  SessionStickyStep(s, p)
    BY <2>3 DEF DeleteRows, SessionStickyStep, Bound, Stored
  <2>4. ASSUME NEW c \in Process, NEW r \in Session, NEW q \in Provider,
               UnpinSession(c, r, q)
        PROVE  SessionStickyStep(s, p)
    BY <2>3, <2>4 DEF UnpinSession
  <2>5. ASSUME NEW c \in Process, PruneSessions(c)
        PROVE  SessionStickyStep(s, p)
    BY <2>3, <2>5 DEF PruneSessions
  <2>6. CASE snapshot' = snapshot
    BY <2>6, <2>u
  <2>7. QED
    BY <2>1, <2>2, <2>4, <2>5, <2>6
    DEF Next, Insert, SwapOAuth, Remove, SeedSelections, Select, Age, Migrate, MigrateRead,
        MigrateCommit, MigrateVerify, MigrateRename, Crash, tables
<1>2. QED
  BY <1>1, TypeCorrect, PTL DEF Spec, SessionSticky, SessionStickyStep

\* What `RevisionCountsAccounts` asks of a step.
CountedStep ==
    /\ (\E p \in Provider : Stored(p)' # Stored(p)) => revision' > revision
    /\ revision' # revision =>
         \/ \E p \in Provider : Stored(p)' # Stored(p)
         \/ \E c \in Process : phase[c] = "read" /\ phase'[c] = "committed"

\* A step that adds or removes an account moves the revision, and but for a
\* migration no other step does.
THEOREM EveryChangeCounted == Spec => RevisionCountsAccounts
<1>1. TypeOK /\ [Next]_vars => [CountedStep]_vars
  <2> SUFFICES ASSUME TypeOK, Next
               PROVE  CountedStep
    OBVIOUS
  <2>1. ASSUME NEW c \in Process, NEW p \in Provider, NEW a \in Alias, NEW cred \in Credential,
               Insert(c, p, a, cred)
        PROVE  CountedStep
    <3>1. a \in Stored(p)' /\ a \notin Stored(p)
      BY <2>1, CredentialAssumption DEF Insert, Stored, TypeOK
    <3>2. revision' > revision
      BY <2>1 DEF Insert, BumpRevision, TypeOK
    <3>3. QED
      BY <3>1, <3>2 DEF CountedStep
  <2>2. ASSUME NEW c \in Process, NEW p \in Provider, NEW a \in Alias, Remove(c, p, a)
        PROVE  CountedStep
    <3>1. a \notin Stored(p)' /\ a \in Stored(p)
      BY <2>2 DEF Remove, Stored, TypeOK
    <3>2. revision' > revision
      BY <2>2 DEF Remove, BumpRevision, TypeOK
    <3>3. QED
      BY <3>1, <3>2 DEF CountedStep
  <2>3. ASSUME NEW c \in Process, NEW p \in Provider, NEW a \in Alias,
               NEW used \in Token, NEW fresh \in Token, SwapOAuth(c, p, a, used, fresh)
        PROVE  CountedStep
    <3>1. [kind |-> "oauth", refresh |-> fresh] # NoCredential
      BY CredentialAssumption DEF Credential
    <3>2. \A q \in Provider : Stored(q)' = Stored(q)
      BY <2>3, <3>1 DEF SwapOAuth, Stored, TypeOK
    <3>3. QED
      BY <2>3, <3>2 DEF SwapOAuth, CountedStep
  <2>4. ASSUME NEW c \in Process, MigrateCommit(c)
        PROVE  CountedStep
    <3>1. revision' > revision
      BY <2>4 DEF MigrateCommit, BumpRevision, TypeOK
    <3>2. phase[c] = "read" /\ phase'[c] = "committed"
      BY <2>4 DEF MigrateCommit, TypeOK
    <3>3. QED
      BY <3>1, <3>2 DEF CountedStep
  <2>5. CASE UNCHANGED <<accounts, revision>>
    BY <2>5 DEF CountedStep, Stored
  <2>6. QED
    BY <2>1, <2>2, <2>3, <2>4, <2>5
    DEF Next, SeedSelections, Select, SessionAccount, PinSession, UnpinSession, PruneSessions,
        Age, Migrate, MigrateRead, MigrateVerify, MigrateRename, Crash, tables
<1>2. QED
  BY <1>1, TypeCorrect, PTL DEF Spec, RevisionCountsAccounts, CountedStep

=============================================================================
