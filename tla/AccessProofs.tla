---------------------------- MODULE AccessProofs ----------------------------
(***************************************************************************)
(* Proofs about Access, for any clients, codes, tokens and callers, any    *)
(* lifetimes, and any number of failed saves, restarts and losses of the   *)
(* store.                                                                  *)
(***************************************************************************)
EXTENDS Access, FiniteSetTheorems, FunctionTheorems, SequenceTheorems, TLAPS

-----------------------------------------------------------------------------
(* Tables: functions from some of S to V.                                  *)

Tables(S, V) == UNION {[D -> V]: D \in SUBSET S}

LEMMA TableDef ==
    ASSUME NEW S, NEW V, NEW f
    PROVE  f \in Tables(S, V) <=>
              f = [x \in DOMAIN f |-> f[x]] /\ DOMAIN f \subseteq S /\ \A x \in DOMAIN f: f[x] \in V
BY DEF Tables

\* A dictionary with one entry more, or another one.
LEMMA WithTable ==
    ASSUME NEW S, NEW V, NEW f \in Tables(S, V), NEW x \in S, NEW v \in V
    PROVE  With(f, x, v) \in Tables(S, V)
BY TableDef DEF With

LEMMA WithDomain ==
    ASSUME NEW f, NEW x, NEW v
    PROVE  DOMAIN With(f, x, v) = DOMAIN f \cup {x}
BY DEF With

LEMMA WithAt ==
    ASSUME NEW f, NEW x, NEW v
    PROVE  With(f, x, v)[x] = v
BY DEF With

LEMMA WithBeside ==
    ASSUME NEW f, NEW x, NEW v, NEW y \in DOMAIN f, y # x
    PROVE  With(f, x, v)[y] = f[y]
BY DEF With

\* One entry less.
LEMMA WithoutTable ==
    ASSUME NEW S, NEW V, NEW f \in Tables(S, V), NEW x
    PROVE  Without(f, x) \in Tables(S, V)
BY TableDef DEF Without

LEMMA WithoutAt ==
    ASSUME NEW f, NEW x
    PROVE  /\ DOMAIN Without(f, x) = DOMAIN f \ {x}
           /\ \A y \in DOMAIN f \ {x}: Without(f, x)[y] = f[y]
BY DEF Without

\* What of a dictionary has not expired.
LEMMA LiveTable ==
    ASSUME NEW S, NEW V, NEW f \in Tables(S, V)
    PROVE  Live(f) \in Tables(S, V)
BY TableDef DEF Live

LEMMA LiveAt ==
    ASSUME NEW f
    PROVE  /\ DOMAIN Live(f) = {x \in DOMAIN f: f[x].expires >= now}
           /\ \A x \in DOMAIN Live(f): Live(f)[x] = f[x]
BY DEF Live

LEMMA NoneTable ==
    ASSUME NEW S, NEW V
    PROVE  None \in Tables(S, V) /\ DOMAIN None = {}
<1>1. DOMAIN None = {} /\ None = [x \in DOMAIN None |-> None[x]]
  BY DEF None
<1> HIDE DEF None
<1> QED
  BY <1>1, TableDef

LEMMA TablesOf ==
    /\ ClientTables = Tables(Clients, SUBSET Redirects)
    /\ TokenTables = Tables(Tokens, [client: Everybody, expires: 0..(MaxTime + TokenTTL)])
    /\ ApprovalTables = Tables(Codes, Approval)
BY DEF Tables, ClientTables, TokenTables, ApprovalTables

-----------------------------------------------------------------------------
(* The limiter's deque: nothing that is dropped comes back.                *)

LEMMA PrunedShorter ==
    ASSUME NEW S, NEW q \in Seq(S)
    PROVE  Pruned(q) \in Seq(S) /\ Len(Pruned(q)) <= Len(q)
<1> DEFINE D == {i \in DOMAIN q: \A j \in 1..i: q[j] + Window < now}
<1>1. Len(q) \in Nat /\ DOMAIN q = 1..Len(q) /\ \A i \in 1..Len(q): q[i] \in S
  OBVIOUS
<1>2. IsFiniteSet(1..Len(q)) /\ Cardinality(1..Len(q)) = Len(q)
  <2>1. 1 \in Int /\ Len(q) \in Int
    BY <1>1
  <2>2. IsFiniteSet(1..Len(q)) /\ Cardinality(1..Len(q)) = IF 1 > Len(q) THEN 0 ELSE Len(q) - 1 + 1
    BY <2>1, FS_Interval
  <2> QED
    BY <2>2, <1>1
<1>3. D \in SUBSET (1..Len(q))
  BY <1>1
<1>4. IsFiniteSet(D) /\ Cardinality(D) <= Len(q)
  BY <1>2, <1>3, FS_Subset
<1>5. Cardinality(D) \in Nat
  BY <1>4, FS_CardinalityType
<1> DEFINE m == 1 + Cardinality(D)
<1>6. m \in Int /\ m >= 1 /\ Len(q) \in Int
  BY <1>1, <1>5
<1>7. \A i \in m..Len(q): q[i] \in S
  BY <1>1, <1>6
<1> HIDE DEF m, D
<1>8. SubSeq(q, m, Len(q)) \in Seq(S) /\ Len(SubSeq(q, m, Len(q))) = IF m <= Len(q) THEN Len(q) - m + 1 ELSE 0
  BY <1>6, <1>7, SubSeqProperties
<1>9. Pruned(q) = SubSeq(q, m, Len(q))
  BY DEF Pruned, m, D
<1> QED
  BY <1>1, <1>6, <1>8, <1>9

-----------------------------------------------------------------------------
(* The store.                                                              *)

\* What the file holds after an action: what it held, or what was or is in memory.
StoreFollows ==
    store' \in [readable: BOOLEAN, tokens: {store.tokens, tokens, tokens'}, clients: {store.clients, clients'}]

LEMMA Saved ==
    ASSUME TypeOK, store' \in {store, Snapshot'}
    PROVE  StoreFollows
<1>1. CASE store' = store
  BY <1>1 DEF TypeOK, StoreFollows
<1>2. CASE store' = [readable |-> TRUE, tokens |-> tokens', clients |-> clients']
  BY <1>2 DEF StoreFollows
<1> QED
  BY <1>1, <1>2 DEF Snapshot

LEMMA StoreTyped ==
    ASSUME TypeOK, StoreFollows, tokens' \in TokenTables, clients' \in ClientTables
    PROVE  store' \in [readable: BOOLEAN, tokens: TokenTables, clients: ClientTables]
BY DEF TypeOK, StoreFollows

\* The password was given for d, with ChatGPT's redirect.
Approved(d) == \E k \in DOMAIN approved: approved[k].client = d /\ approved[k].redirect = "chatgpt"

\* Nobody is known who was not, but those.
LEMMA ClientsKept ==
    ASSUME ClientsApproved, StoreFollows, UNCHANGED <<registered, approved>>,
           \A d \in DOMAIN clients' \ DOMAIN clients: Approved(d)
    PROVE  ClientsApproved'
BY DEF ClientsApproved, StoreFollows, Approved

\* No token is there that was not.
LEMMA TokensKept ==
    ASSUME TokensGranted, StoreFollows, UNCHANGED <<tokens, grants>>
    PROVE  TokensGranted'
<1>1. store'.tokens \in {store.tokens, tokens}
  BY DEF StoreFollows
<1>2. Granted(tokens)'
  BY DEF TokensGranted, Granted
<1>3. Granted(store.tokens)'
  BY <1>1 DEF TokensGranted, Granted
<1> QED
  BY <1>2, <1>3 DEF TokensGranted

-----------------------------------------------------------------------------
(* Each action keeps the invariant.                                        *)

LEMMA RegisterKeeps ==
    ASSUME AccessInv, NEW c \in Clients, Register(c)
    PROVE  AccessInv'
<1> USE DEF AccessInv
<1>1. PICK r \in {"chatgpt", "site"}: clients' = With(clients, c, {r})
  BY DEF Register
<1>2. UNCHANGED <<now, codes, tokens, hits, losses, approved, grants>> /\ registered' = registered \cup {c}
  BY DEF Register
<1>3. clients' \in ClientTables /\ DOMAIN clients' = DOMAIN clients \cup {c} /\ clients'[c] = {r}
  <2>1. {r} \in SUBSET Redirects
    BY DEF Redirects
  <2>2. clients \in Tables(Clients, SUBSET Redirects)
    BY TablesOf DEF TypeOK
  <2>3. With(clients, c, {r}) \in Tables(Clients, SUBSET Redirects)
    BY <2>1, <2>2, WithTable
  <2>4. DOMAIN With(clients, c, {r}) = DOMAIN clients \cup {c}
    BY WithDomain
  <2>5. With(clients, c, {r})[c] = {r}
    BY WithAt
  <2> QED
    BY <1>1, <2>3, <2>4, <2>5, TablesOf
<1>4. StoreFollows
  BY Saved DEF Register, Save, SaveFails
<1>5. /\ told' \in [tokens: SUBSET Tokens, clients: ClientTables]
      /\ told'.tokens = told.tokens /\ DOMAIN told'.clients \subseteq DOMAIN told.clients \cup {c}
  <2>1. CASE UNCHANGED told
    BY <2>1 DEF TypeOK
  <2>2. CASE told' = [told EXCEPT !.clients = With(@, c, clients'[c])]
    <3>1. told.clients \in Tables(Clients, SUBSET Redirects) /\ clients'[c] \in SUBSET Redirects
      BY <1>3, TablesOf DEF TypeOK, Redirects
    <3>2. With(told.clients, c, clients'[c]) \in ClientTables
      BY <3>1, TablesOf, WithTable
    <3>3. DOMAIN With(told.clients, c, clients'[c]) = DOMAIN told.clients \cup {c}
      BY WithDomain, WithAt, WithBeside
    <3>4. told' = [tokens |-> told.tokens, clients |-> With(told.clients, c, clients'[c])]
      BY <2>2 DEF TypeOK
    <3> QED
      BY <3>2, <3>3, <3>4 DEF TypeOK
  <2> QED
    BY <2>1, <2>2 DEF Register, SaveFails
<1>6. TypeOK'
  BY <1>2, <1>3, <1>4, <1>5, StoreTyped DEF TypeOK
<1>7. CodesApproved' /\ GrantsApproved'
  BY <1>2 DEF CodesApproved, GrantsApproved
<1>8. ClientsApproved'
  BY <1>2, <1>3, <1>4 DEF ClientsApproved, StoreFollows
<1>9. TokensGranted'
  BY <1>2, <1>4, TokensKept
<1>10. ToldGranted'
  BY <1>2, <1>5 DEF ToldGranted
<1> QED
  BY <1>6, <1>7, <1>8, <1>9, <1>10

LEMMA AuthorizeKeeps ==
    ASSUME AccessInv, NEW c \in Everybody, NEW r \in Redirects, NEW k \in Codes, Authorize(c, r, k)
    PROVE  AccessInv'
<1> USE DEF AccessInv
<1> DEFINE a == [client |-> c, redirect |-> r, at |-> now]
           b == [client |-> c, redirect |-> r, expires |-> now + CodeTTL]
<1>1. UNCHANGED <<now, clients, tokens, store, hits, losses, registered, grants, told>>
  BY DEF Authorize
<1>2. approved' = With(approved, k, a) /\ codes' = With(codes, k, b)
  BY DEF Authorize
<1>3. k \notin DOMAIN approved /\ now \in Nat
  BY TimeAssumption DEF Authorize, TypeOK
<1>4. approved' \in ApprovalTables
  <2>1. a \in Approval /\ approved \in Tables(Codes, Approval)
    BY TablesOf DEF TypeOK, Approval
  <2> HIDE DEF a
  <2> QED
    BY <1>2, <2>1, TablesOf, WithTable
<1>5. /\ DOMAIN approved' = DOMAIN approved \cup {k} /\ approved'[k] = a
      /\ \A y \in DOMAIN approved: approved'[y] = approved[y]
  <2> HIDE DEF a
  <2>1. DOMAIN With(approved, k, a) = DOMAIN approved \cup {k}
    BY WithDomain
  <2>2. With(approved, k, a)[k] = a
    BY WithAt
  <2>3. \A y \in DOMAIN approved: y # k => With(approved, k, a)[y] = approved[y]
    BY WithBeside
  <2> QED
    BY <1>2, <1>3, <2>1, <2>2, <2>3
<1>6. /\ DOMAIN codes' = DOMAIN codes \cup {k}
      /\ codes'[k] = b
      /\ \A y \in DOMAIN codes: y # k => codes'[y] = codes[y]
  <2> HIDE DEF b
  <2>1. DOMAIN With(codes, k, b) = DOMAIN codes \cup {k}
    BY WithDomain
  <2>2. With(codes, k, b)[k] = b
    BY WithAt
  <2>3. \A y \in DOMAIN codes: y # k => With(codes, k, b)[y] = codes[y]
    BY WithBeside
  <2> QED
    BY <1>2, <2>1, <2>2, <2>3
<1>7. TypeOK'
  BY <1>1, <1>4 DEF TypeOK
<1>8. CodesApproved'
  <2>1. \A g \in grants: g.code \in DOMAIN approved
    BY DEF GrantsApproved
  <2> QED
    BY <1>1, <1>3, <1>5, <1>6, <2>1 DEF CodesApproved
<1>9. GrantsApproved'
  BY <1>1, <1>5 DEF GrantsApproved
<1>10. ClientsApproved'
  BY <1>1, <1>5 DEF ClientsApproved
<1>11. TokensGranted' /\ ToldGranted'
  BY <1>1 DEF TokensGranted, Granted, ToldGranted
<1> QED
  BY <1>7, <1>8, <1>9, <1>10, <1>11

\* The client of an exchange: it was known, or is recovered.
LEMMA Recovered ==
    ASSUME AccessInv, NEW c \in Everybody, NEW k \in Codes, Authenticated(c, k), Recovers(c)
    PROVE  /\ clients' \in ClientTables
           /\ DOMAIN clients \subseteq DOMAIN clients'
           /\ \A d \in DOMAIN clients: clients'[d] = clients[d]
           /\ \A d \in DOMAIN clients' \ DOMAIN clients: Approved(d)
<1>1. CASE Known(c)
  BY <1>1 DEF Recovers, AccessInv, TypeOK
<1>2. CASE ~Known(c)
  <2>1. clients' = With(clients, c, {"chatgpt"}) /\ c \in Clients /\ c \notin DOMAIN clients
    BY <1>2 DEF Recovers, Known, Everybody
  <2>2. DOMAIN With(clients, c, {"chatgpt"}) = DOMAIN clients \cup {c}
    BY WithDomain
  <2>3. \A d \in DOMAIN clients: d # c => With(clients, c, {"chatgpt"})[d] = clients[d]
    BY WithBeside
  <2>4. clients' \in ClientTables
    <3>1. clients \in Tables(Clients, SUBSET Redirects) /\ {"chatgpt"} \in SUBSET Redirects
      BY TablesOf DEF AccessInv, TypeOK, Redirects
    <3> QED
      BY <2>1, <3>1, WithTable, TablesOf
  <2>5. Approved(c)
    BY <1>2 DEF AccessInv, CodesApproved, Authenticated, Recoverable, Approved
  <2> QED
    BY <2>1, <2>2, <2>3, <2>4, <2>5
<1> QED
  BY <1>1, <1>2

LEMMA RecoveryFailsKeeps ==
    ASSUME AccessInv, NEW c \in Everybody, NEW k \in Codes, RecoveryFails(c, k)
    PROVE  AccessInv'
<1> USE DEF AccessInv
<1>1. UNCHANGED <<now, codes, tokens, hits, losses, registered, approved, grants, told>>
  BY DEF RecoveryFails, SaveFails
<1>2. StoreFollows
  BY Saved DEF RecoveryFails, SaveFails
<1>3. clients' \in ClientTables /\ \A d \in DOMAIN clients' \ DOMAIN clients: Approved(d)
  BY Recovered DEF RecoveryFails, Authenticated
<1>4. TypeOK'
  BY <1>1, <1>2, <1>3, StoreTyped DEF TypeOK
<1>5. CodesApproved' /\ GrantsApproved' /\ ToldGranted'
  BY <1>1 DEF CodesApproved, GrantsApproved, ToldGranted
<1>6. ClientsApproved'
  BY <1>1, <1>2, <1>3, ClientsKept
<1>7. TokensGranted'
  BY <1>1, <1>2, TokensKept
<1> QED
  BY <1>4, <1>5, <1>6, <1>7

\* A spent code is gone, and the others are as they were.
LEMMA Spent ==
    ASSUME NEW k, Spend(k)
    PROVE  DOMAIN codes' = DOMAIN codes \ {k} /\ \A j \in DOMAIN codes': codes'[j] = codes[j]
BY WithoutAt DEF Spend

LEMMA InvalidGrantKeeps ==
    ASSUME AccessInv, NEW c \in Everybody, NEW k \in Codes, NEW checks \in BOOLEAN, InvalidGrant(c, k, checks)
    PROVE  AccessInv'
<1> USE DEF AccessInv
<1>1. UNCHANGED <<now, tokens, hits, losses, registered, approved, grants, told>> /\ Spend(k)
  BY DEF InvalidGrant
<1>2. StoreFollows
  BY Saved DEF InvalidGrant, Save
<1>3. clients' \in ClientTables /\ \A d \in DOMAIN clients' \ DOMAIN clients: Approved(d)
  BY Recovered DEF InvalidGrant
<1>4. TypeOK'
  BY <1>1, <1>2, <1>3, StoreTyped DEF TypeOK
<1>5. CodesApproved'
  BY <1>1, Spent DEF CodesApproved
<1>6. GrantsApproved' /\ ToldGranted'
  BY <1>1 DEF GrantsApproved, ToldGranted
<1>7. ClientsApproved'
  BY <1>1, <1>2, <1>3, ClientsKept
<1>8. TokensGranted'
  BY <1>1, <1>2, TokensKept
<1> QED
  BY <1>4, <1>5, <1>6, <1>7, <1>8

\* Granted, of any set of grants.
GrantedBy(f, G) ==
    \A x \in DOMAIN f: \E g \in G: g.token = x /\ f[x] = [client |-> g.client, expires |-> g.at + TokenTTL]

LEMMA GrantKeeps ==
    ASSUME AccessInv, NEW c \in Everybody, NEW k \in Codes, NEW t \in Tokens, Grant(c, k, t)
    PROVE  AccessInv'
<1> USE DEF AccessInv
<1> DEFINE g == [token |-> t, code |-> k, client |-> c, at |-> now]
           e == [client |-> c, expires |-> now + TokenTTL]
<1>1. UNCHANGED <<now, hits, losses, registered, approved>> /\ Spend(k) /\ grants' = grants \cup {g}
  BY DEF Grant
<1>2. NewToken(t) /\ Honoured(c, k) /\ tokens' = With(tokens, t, e)
  BY DEF Grant
<1>3. StoreFollows
  <2>1. CASE store' \in {store, Snapshot'}
    BY <2>1, Saved
  <2>2. CASE store' = [store EXCEPT !.readable = TRUE, !.tokens = tokens, !.clients = clients']
    BY <2>2 DEF StoreFollows, TypeOK
  <2> QED
    BY <2>1, <2>2 DEF Grant, Save, SaveFails
<1>4. clients' \in ClientTables /\ \A d \in DOMAIN clients' \ DOMAIN clients: Approved(d)
  BY Recovered DEF Grant
<1>5. now \in 0..MaxTime /\ now \in Nat /\ TokenTTL \in Nat /\ MaxTime \in Nat /\ CodeTTL \in Nat
  BY TimeAssumption DEF TypeOK
<1>6. tokens' \in TokenTables
  <2> DEFINE V == [client: Everybody, expires: 0..(MaxTime + TokenTTL)]
  <2>1. e \in V
    BY <1>5
  <2>2. tokens \in Tables(Tokens, V)
    BY TablesOf DEF TypeOK
  <2> HIDE DEF e, V
  <2>3. With(tokens, t, e) \in Tables(Tokens, V)
    BY <2>1, <2>2, WithTable
  <2> QED
    BY <1>2, <2>3, TablesOf DEF V
<1>7. told' \in [tokens: SUBSET Tokens, clients: ClientTables] /\ told'.clients = told.clients
      /\ told'.tokens \subseteq told.tokens \cup {t}
  BY DEF Grant, SaveFails, TypeOK
<1>8. TypeOK'
  <2>1. g \in [token: Tokens, code: Codes, client: Everybody, at: 0..MaxTime]
    BY <1>5
  <2> HIDE DEF g
  <2> QED
    BY <1>1, <1>3, <1>4, <1>6, <1>7, <2>1, StoreTyped DEF TypeOK
<1>9. k \in DOMAIN codes /\ codes[k].expires >= now /\ codes[k].client = c
  BY <1>2 DEF Honoured
<1>10. CodesApproved'
  <2>1. DOMAIN codes' = DOMAIN codes \ {k} /\ \A j \in DOMAIN codes': codes'[j] = codes[j]
    BY <1>1, Spent
  <2>2. \A j \in DOMAIN codes': (/\ j \in DOMAIN approved /\ approved[j].at <= now
          /\ codes[j] = [client |-> approved[j].client, redirect |-> approved[j].redirect,
                         expires |-> approved[j].at + CodeTTL])'
    BY <1>1, <2>1 DEF CodesApproved
  <2>3. g.code = k
    OBVIOUS
  <2> HIDE DEF g
  <2>4. \A h \in grants': h.code \notin DOMAIN codes'
    BY <1>1, <2>1, <2>3 DEF CodesApproved
  <2> QED
    BY <2>2, <2>4 DEF CodesApproved
<1>11. GrantsApproved'
  <2>1. k \in DOMAIN approved /\ approved[k].client = c /\ approved[k].at <= now /\ now <= approved[k].at + CodeTTL
    BY <1>9 DEF CodesApproved
  <2>2. approved[k].at \in Nat
    <3>1. approved \in Tables(Codes, Approval)
      BY TablesOf DEF TypeOK
    <3>2. approved[k] \in Approval
      BY <2>1, <3>1, TableDef
    <3> QED
      BY <1>5, <3>2 DEF Approval
  <2>3. g.at \in approved[k].at .. approved[k].at + CodeTTL
    BY <1>5, <2>1, <2>2
  <2>4. \A h \in grants: h.code # k
    BY <1>9 DEF CodesApproved
  <2> QED
    BY <1>1, <2>1, <2>3, <2>4 DEF GrantsApproved
<1>12. ClientsApproved'
  BY <1>1, <1>3, <1>4, ClientsKept
<1>13. DOMAIN tokens' = DOMAIN tokens \cup {t} /\ tokens'[t] = e /\ \A x \in DOMAIN tokens: x # t => tokens'[x] = tokens[x]
  <2> HIDE DEF e
  <2>1. DOMAIN With(tokens, t, e) = DOMAIN tokens \cup {t}
    BY WithDomain
  <2>2. With(tokens, t, e)[t] = e
    BY WithAt
  <2>3. \A x \in DOMAIN tokens: x # t => With(tokens, t, e)[x] = tokens[x]
    BY WithBeside
  <2> QED
    BY <1>2, <2>1, <2>2, <2>3
<1>14. TokensGranted'
  <2>1. g.token = t /\ e = [client |-> g.client, expires |-> g.at + TokenTTL]
    OBVIOUS
  <2>2. grants' = grants \cup {g}
    BY <1>1
  <2>3. \A f: Granted(f) => GrantedBy(f, grants')
    BY <2>2 DEF Granted, GrantedBy
  <2> HIDE DEF g, e
  <2>4. GrantedBy(tokens', grants')
    <3>1. \A x \in DOMAIN tokens: \E h \in grants':
              h.token = x /\ tokens[x] = [client |-> h.client, expires |-> h.at + TokenTTL]
      BY <2>3 DEF TokensGranted, GrantedBy
    <3>2. \E h \in grants': h.token = t /\ tokens'[t] = [client |-> h.client, expires |-> h.at + TokenTTL]
      BY <1>13, <2>1, <2>2
    <3> QED
      BY <1>13, <3>1, <3>2 DEF GrantedBy
  <2>5. store'.tokens \in {store.tokens, tokens, tokens'}
    BY <1>3 DEF StoreFollows
  <2>6. GrantedBy(store'.tokens, grants')
    BY <2>3, <2>4, <2>5 DEF TokensGranted
  <2>7. \A h \in grants: h.token # t
    BY <1>2 DEF NewToken
  <2>8. \A h, i \in grants': h.token = i.token => h = i
    BY <2>1, <2>2, <2>7 DEF TokensGranted
  <2> QED
    BY <2>4, <2>6, <2>8 DEF TokensGranted, Granted, GrantedBy
<1>15. ToldGranted'
  BY <1>1, <1>7 DEF ToldGranted
<1> QED
  BY <1>8, <1>10, <1>11, <1>12, <1>14, <1>15

LEMMA ExpiredKeeps ==
    ASSUME AccessInv, NEW t \in Tokens, Expired(t)
    PROVE  AccessInv'
<1> USE DEF AccessInv
<1>1. /\ UNCHANGED <<now, clients, codes, hits, losses, registered, approved, grants, told>>
      /\ tokens' = Without(tokens, t)
  BY DEF Expired, SaveFails
<1>2. StoreFollows
  BY Saved DEF Expired, Save, SaveFails
<1>3. tokens' \in TokenTables
  <2>1. tokens \in Tables(Tokens, [client: Everybody, expires: 0..(MaxTime + TokenTTL)])
    BY TablesOf DEF TypeOK
  <2> QED
    BY <1>1, <2>1, WithoutTable, TablesOf
<1>4. DOMAIN tokens' \subseteq DOMAIN tokens /\ \A x \in DOMAIN tokens': tokens'[x] = tokens[x]
  BY <1>1, WithoutAt
<1>5. TypeOK'
  BY <1>1, <1>2, <1>3, StoreTyped DEF TypeOK
<1>6. CodesApproved' /\ GrantsApproved' /\ ToldGranted'
  BY <1>1 DEF CodesApproved, GrantsApproved, ToldGranted
<1>7. ClientsApproved'
  BY <1>1, <1>2, ClientsKept
<1>8. TokensGranted'
  <2>1. GrantedBy(tokens, grants) /\ GrantedBy(store.tokens, grants)
    BY DEF TokensGranted, Granted, GrantedBy
  <2>2. GrantedBy(tokens', grants)
    BY <1>4, <2>1 DEF GrantedBy
  <2>3. store'.tokens \in {store.tokens, tokens, tokens'}
    BY <1>2 DEF StoreFollows
  <2>4. GrantedBy(store'.tokens, grants)
    BY <2>1, <2>2, <2>3
  <2>5. \A h, i \in grants: h.token = i.token => h = i
    BY DEF TokensGranted
  <2> QED
    BY <1>1, <2>2, <2>4, <2>5 DEF TokensGranted, Granted, GrantedBy
<1> QED
  BY <1>5, <1>6, <1>7, <1>8

LEMMA RequestKeeps ==
    ASSUME AccessInv, NEW t \in Tokens, NEW a \in Callers, Request(t, a)
    PROVE  AccessInv'
<1> USE DEF AccessInv
<1>1. UNCHANGED <<now, clients, codes, tokens, store, losses, registered, approved, grants, told>>
  BY DEF Request, OAuthUnchanged
<1>2. hits[a] \in Seq(0..MaxTime) /\ Len(hits[a]) <= Limit /\ now \in 0..MaxTime
  BY DEF TypeOK
<1>3. Pruned(hits[a]) \in Seq(0..MaxTime) /\ Len(Pruned(hits[a])) <= Len(hits[a])
  BY <1>2, PrunedShorter
<1>4. PICK q: hits' = [hits EXCEPT ![a] = q] /\ q \in Seq(0..MaxTime) /\ Len(q) <= Limit
  <2> DEFINE p == Pruned(hits[a])
  <2>1. p \in Seq(0..MaxTime) /\ Len(p) <= Limit /\ Len(p) \in Nat /\ Limit \in Nat
    BY <1>2, <1>3, LimitAssumption
  <2>2. CASE hits' = [hits EXCEPT ![a] = p]
    BY <2>1, <2>2
  <2>3. CASE ~(Len(p) >= Limit) /\ hits' = [hits EXCEPT ![a] = Append(p, now)]
    <3> HIDE DEF p
    <3>1. Append(p, now) \in Seq(0..MaxTime) /\ Len(Append(p, now)) = Len(p) + 1
      BY <1>2, <2>1
    <3> DEFINE r == Append(p, now)
    <3>2. hits' = [hits EXCEPT ![a] = r] /\ r \in Seq(0..MaxTime)
      BY <2>3, <3>1
    <3>3. Len(r) <= Limit
      BY <2>1, <2>3, <3>1
    <3> HIDE DEF r
    <3> QED
      BY <3>2, <3>3
  <2>4. \/ hits' = [hits EXCEPT ![a] = p]
        \/ ~(Len(p) >= Limit) /\ hits' = [hits EXCEPT ![a] = Append(p, now)]
    BY DEF Request, Refuses
  <2> QED
    BY <2>2, <2>3, <2>4
<1>5. TypeOK'
  BY <1>1, <1>4 DEF TypeOK
<1>6. CodesApproved' /\ GrantsApproved' /\ ToldGranted' /\ ClientsApproved' /\ TokensGranted'
  BY <1>1 DEF CodesApproved, GrantsApproved, ToldGranted, ClientsApproved, TokensGranted, Granted
<1> QED
  BY <1>5, <1>6

LEMMA TickKeeps ==
    ASSUME AccessInv, Tick
    PROVE  AccessInv'
<1> USE DEF AccessInv
<1>1. UNCHANGED <<clients, codes, tokens, store, hits, losses, registered, approved, grants, told>>
  BY DEF Tick, OAuthUnchanged
<1>2. now' = now + 1 /\ now' \in 0..MaxTime /\ now \in Nat
  BY TimeAssumption DEF Tick, TypeOK
<1>3. TypeOK'
  BY <1>1, <1>2 DEF TypeOK
<1>4. CodesApproved'
  <2>1. \A k \in DOMAIN codes: approved[k].at \in Nat
    <3>1. approved \in Tables(Codes, Approval)
      BY TablesOf DEF TypeOK
    <3>2. \A k \in DOMAIN approved: approved[k] \in Approval
      BY <3>1, TableDef
    <3> QED
      BY <3>2, TimeAssumption DEF CodesApproved, Approval
  <2> QED
    BY <1>1, <1>2, <2>1 DEF CodesApproved
<1>5. GrantsApproved' /\ ToldGranted' /\ ClientsApproved' /\ TokensGranted'
  BY <1>1 DEF GrantsApproved, ToldGranted, ClientsApproved, TokensGranted, Granted
<1> QED
  BY <1>3, <1>4, <1>5

LEMMA LoseKeeps ==
    ASSUME AccessInv, Lose
    PROVE  AccessInv'
<1> USE DEF AccessInv
<1>1. /\ UNCHANGED <<now, clients, codes, tokens, hits, registered, approved, grants, told>>
      /\ losses' \in 0..MaxLosses
  BY TimeAssumption DEF Lose, TypeOK
<1>2. store' = [readable |-> FALSE, tokens |-> store.tokens, clients |-> store.clients]
  BY DEF Lose, TypeOK
<1>3. TypeOK'
  BY <1>1, <1>2 DEF TypeOK
<1>4. CodesApproved' /\ GrantsApproved' /\ ToldGranted'
  BY <1>1 DEF CodesApproved, GrantsApproved, ToldGranted
<1>5. ClientsApproved' /\ TokensGranted'
  BY <1>1, <1>2 DEF ClientsApproved, TokensGranted, Granted
<1> QED
  BY <1>3, <1>4, <1>5

LEMMA RestartKeeps ==
    ASSUME AccessInv, Restart
    PROVE  AccessInv'
<1> USE DEF AccessInv
<1>1. UNCHANGED <<now, store, losses, registered, approved, grants>> /\ codes' = None
  BY DEF Restart
<1>2. /\ tokens' \in TokenTables /\ DOMAIN tokens' \subseteq DOMAIN store.tokens
      /\ \A x \in DOMAIN tokens': tokens'[x] = store.tokens[x]
  <2> DEFINE V == [client: Everybody, expires: 0..(MaxTime + TokenTTL)]
  <2>1. store.tokens \in Tables(Tokens, V)
    BY TablesOf DEF TypeOK
  <2>2. CASE store.readable
    <3>1. tokens' = Live(store.tokens)
      BY <2>2 DEF Restart, Loaded
    <3> HIDE DEF V
    <3>2. Live(store.tokens) \in Tables(Tokens, V)
      BY <2>1, LiveTable
    <3>3. DOMAIN Live(store.tokens) \subseteq DOMAIN store.tokens
      BY LiveAt
    <3>4. \A x \in DOMAIN Live(store.tokens): Live(store.tokens)[x] = store.tokens[x]
      BY LiveAt
    <3> QED
      BY <3>1, <3>2, <3>3, <3>4, TablesOf DEF V
  <2>3. CASE ~store.readable
    <3>1. tokens' = None
      BY <2>3 DEF Restart, Loaded
    <3> QED
      BY <3>1, NoneTable, TablesOf
  <2> QED
    BY <2>2, <2>3
<1>3. clients' \in ClientTables /\ DOMAIN clients' \subseteq DOMAIN store.clients
  <2>1. CASE store.readable
    BY <2>1 DEF Restart, Loaded, TypeOK
  <2>2. CASE ~store.readable
    <3>1. clients' = None
      BY <2>2 DEF Restart, Loaded
    <3> QED
      BY <3>1, NoneTable, TablesOf
  <2> QED
    BY <2>1, <2>2
<1>4. /\ told' \in [tokens: SUBSET Tokens, clients: ClientTables]
      /\ told'.tokens \subseteq told.tokens /\ DOMAIN told'.clients \subseteq DOMAIN told.clients
  <2>1. CASE told' = told
    BY <2>1 DEF TypeOK
  <2>2. CASE told' = [tokens |-> {}, clients |-> None]
    <3>1. None \in ClientTables /\ DOMAIN None = {}
      BY NoneTable, TablesOf
    <3> HIDE DEF None
    <3> QED
      BY <2>2, <3>1
  <2> QED
    BY <2>1, <2>2 DEF Restart
<1>5. hits' = [b \in Callers |-> <<>>]
  BY DEF Restart
<1>6. TypeOK'
  <2>1. hits' \in [Callers -> Seq(0..MaxTime)] /\ \A a \in Callers: Len(hits'[a]) <= Limit
    BY <1>5, LimitAssumption
  <2> QED
    BY <1>1, <1>2, <1>3, <1>4, <2>1 DEF TypeOK
<1>7. CodesApproved'
  <2>1. DOMAIN codes' = {}
    BY <1>1, NoneTable
  <2> QED
    BY <2>1 DEF CodesApproved
<1>8. GrantsApproved' /\ ToldGranted'
  BY <1>1, <1>4 DEF GrantsApproved, ToldGranted
<1>9. ClientsApproved'
  BY <1>1, <1>3 DEF ClientsApproved
<1>10. TokensGranted'
  <2>1. GrantedBy(store.tokens, grants)
    BY DEF TokensGranted, Granted, GrantedBy
  <2>2. GrantedBy(tokens', grants)
    <3> SUFFICES ASSUME NEW x \in DOMAIN tokens'
                 PROVE  \E g \in grants:
                            g.token = x /\ tokens'[x] = [client |-> g.client, expires |-> g.at + TokenTTL]
      BY DEF GrantedBy
    <3>1. x \in DOMAIN store.tokens /\ tokens'[x] = store.tokens[x]
      BY <1>2
    <3> QED
      BY <2>1, <3>1 DEF GrantedBy
  <2> QED
    BY <1>1, <2>1, <2>2 DEF TokensGranted, Granted, GrantedBy
<1> QED
  BY <1>6, <1>7, <1>8, <1>9, <1>10

LEMMA InitHolds == Init => AccessInv
<1> SUFFICES ASSUME Init PROVE AccessInv
  OBVIOUS
<1>1. /\ now = 0 /\ losses = 0 /\ clients = None /\ codes = None /\ tokens = None
      /\ store = [readable |-> TRUE, tokens |-> None, clients |-> None]
      /\ registered = {} /\ approved = None /\ grants = {} /\ told = [tokens |-> {}, clients |-> None]
  BY DEF Init
<1>2. None \in ClientTables /\ None \in TokenTables /\ None \in ApprovalTables /\ DOMAIN None = {}
  BY NoneTable, TablesOf
<1>3. 0 \in 0..MaxTime /\ 0 \in 0..MaxLosses
  BY TimeAssumption
<1>4. hits \in [Callers -> Seq(0..MaxTime)] /\ \A a \in Callers: Len(hits[a]) <= Limit
  BY LimitAssumption DEF Init
<1> HIDE DEF None
<1>5. TypeOK
  BY <1>1, <1>2, <1>3, <1>4 DEF TypeOK
<1>6. CodesApproved /\ GrantsApproved
  BY <1>1, <1>2 DEF CodesApproved, GrantsApproved
<1>7. ClientsApproved /\ TokensGranted /\ ToldGranted
  BY <1>1, <1>2 DEF ClientsApproved, TokensGranted, Granted, ToldGranted
<1> QED
  BY <1>5, <1>6, <1>7 DEF AccessInv

LEMMA StepKeeps == AccessInv /\ [Next]_vars => AccessInv'
<1> SUFFICES ASSUME AccessInv, [Next]_vars PROVE AccessInv'
  OBVIOUS
<1>1. ASSUME NEW c \in Clients, Register(c) PROVE AccessInv'
  BY <1>1, RegisterKeeps
<1>2. ASSUME NEW c \in Everybody, NEW k \in Codes,
             \/ \E r \in Redirects: Authorize(c, r, k)
             \/ RecoveryFails(c, k)
             \/ \E checks \in BOOLEAN: InvalidGrant(c, k, checks)
             \/ \E t \in Tokens: Grant(c, k, t)
      PROVE  AccessInv'
  BY <1>2, AuthorizeKeeps, RecoveryFailsKeeps, InvalidGrantKeeps, GrantKeeps
<1>3. ASSUME NEW t \in Tokens, Expired(t) \/ \E a \in Callers: Request(t, a) PROVE AccessInv'
  BY <1>3, ExpiredKeeps, RequestKeeps
<1>4. CASE Tick \/ Lose \/ Restart
  BY <1>4, TickKeeps, LoseKeeps, RestartKeeps
<1>5. CASE UNCHANGED vars
  BY <1>5 DEF vars, AccessInv, TypeOK, CodesApproved, GrantsApproved, ClientsApproved, TokensGranted,
              Granted, ToldGranted
<1> QED
  BY <1>1, <1>2, <1>3, <1>4, <1>5 DEF Next, Everybody

\* A token stands for one approval, of its code and for its client, given no longer ago than a code
\* is valid, and no two tokens for the same, whatever is refused, recovered, lost or restarted.
THEOREM Invariance == Spec => []AccessInv
BY InitHolds, StepKeeps, PTL DEF Spec

-----------------------------------------------------------------------------
(* What clients have been told stands.                                     *)

\* The tokens clients were told of, as long as they last, are in f; their registrations are in h.
Kept(f) == \A g \in grants: g.token \in told.tokens /\ g.at + TokenTTL >= now => g.token \in DOMAIN f

Said(h) == \A c \in DOMAIN told.clients: c \in DOMAIN h /\ h[c] = told.clients[c]

ToldKept ==
    /\ Kept(tokens) /\ Said(clients)
    /\ store.readable => Kept(store.tokens) /\ Said(store.clients)

\* As a token says in memory and in the store when it expires, to be kept and to be accepted is the
\* same.
LEMMA Expiry ==
    ASSUME AccessInv, NEW g \in grants
    PROVE  /\ g.token \in DOMAIN tokens => tokens[g.token].expires = g.at + TokenTTL
           /\ g.token \in DOMAIN store.tokens => store.tokens[g.token].expires = g.at + TokenTTL
<1>1. \A h \in grants: h.token = g.token => h = g
  BY DEF AccessInv, TokensGranted
<1>2. \A f: Granted(f) /\ g.token \in DOMAIN f => f[g.token].expires = g.at + TokenTTL
  <2> SUFFICES ASSUME NEW f, Granted(f), g.token \in DOMAIN f PROVE f[g.token].expires = g.at + TokenTTL
    OBVIOUS
  <2>1. PICK h \in grants:
            h.token = g.token /\ f[g.token] = [client |-> h.client, expires |-> h.at + TokenTTL]
    BY DEF Granted
  <2>2. h = g
    BY <1>1, <2>1
  <2> QED
    BY <2>1, <2>2
<1>3. Granted(tokens) /\ Granted(store.tokens)
  BY DEF AccessInv, TokensGranted
<1> QED
  BY <1>2, <1>3

LEMMA ToldAsKept ==
    ASSUME AccessInv
    PROVE  ToldStands <=> ToldKept
<1>1. \A g \in grants: (g.token \in told.tokens => (Accepts(g.token) <=> g.at + TokenTTL >= now))
          <=> (g.token \in told.tokens /\ g.at + TokenTTL >= now => g.token \in DOMAIN tokens)
  BY Expiry DEF Accepts
<1> QED
  BY <1>1 DEF ToldStands, ToldKept, Kept, Said

\* An action that tells nothing and grants nothing, and loses nothing from memory, loses nothing from
\* the store.
LEMMA NothingLost ==
    ASSUME ToldKept, UNCHANGED <<now, grants, told>>, Kept(tokens'), Said(clients'),
           \/ store' = store
           \/ store'.tokens \in {tokens, tokens'} /\ store'.clients = clients'
    PROVE  ToldKept'
<1>1. Kept(tokens)' /\ Said(clients)'
  BY DEF Kept, Said
<1>2. CASE store' = store
  BY <1>1, <1>2 DEF ToldKept, Kept, Said
<1>3. CASE store'.tokens \in {tokens, tokens'} /\ store'.clients = clients'
  BY <1>1, <1>3 DEF ToldKept, Kept, Said
<1> QED
  BY <1>2, <1>3

LEMMA RegisterTells ==
    ASSUME AccessInv, ToldKept, NEW c \in Clients, Register(c)
    PROVE  ToldKept'
<1>1. PICK r \in {"chatgpt", "site"}: clients' = With(clients, c, {r})
  BY DEF Register
<1>2. UNCHANGED <<now, tokens, grants>>
  BY DEF Register
<1>3. c \notin DOMAIN told.clients
  BY DEF Register, NewClient, AccessInv, ToldGranted
<1>4. DOMAIN clients' = DOMAIN clients \cup {c} /\ \A d \in DOMAIN clients: d # c => clients'[d] = clients[d]
  <2>1. DOMAIN With(clients, c, {r}) = DOMAIN clients \cup {c}
    BY WithDomain
  <2>2. \A d \in DOMAIN clients: d # c => With(clients, c, {r})[d] = clients[d]
    BY WithBeside
  <2> QED
    BY <1>1, <2>1, <2>2
<1>5. Said(clients') /\ Kept(tokens')
  BY <1>2, <1>3, <1>4 DEF ToldKept, Kept, Said
<1>6. CASE SaveFails
  BY <1>2, <1>5, <1>6, NothingLost DEF SaveFails, Snapshot
<1>7. CASE Save /\ told' = [told EXCEPT !.clients = With(@, c, clients'[c])]
  <2>1. told'.tokens = told.tokens /\ told'.clients = With(told.clients, c, clients'[c])
    BY <1>7 DEF AccessInv, TypeOK
  <2>2. DOMAIN With(told.clients, c, clients'[c]) = DOMAIN told.clients \cup {c}
    BY WithDomain
  <2>3. With(told.clients, c, clients'[c])[c] = clients'[c]
    BY WithAt
  <2>4. \A d \in DOMAIN told.clients: d # c => With(told.clients, c, clients'[c])[d] = told.clients[d]
    BY WithBeside
  <2>5. Said(clients)'
    BY <1>4, <1>5, <2>1, <2>2, <2>3, <2>4 DEF Said
  <2>6. Kept(tokens)'
    BY <1>2, <1>5, <2>1 DEF Kept
  <2>7. store'.tokens = tokens' /\ store'.clients = clients'
    BY <1>7 DEF Save, Snapshot
  <2> QED
    BY <2>5, <2>6, <2>7 DEF ToldKept, Kept, Said
<1> QED
  BY <1>6, <1>7 DEF Register

LEMMA RecoveryTells ==
    ASSUME AccessInv, ToldKept, NEW c \in Everybody, NEW k \in Codes,
           RecoveryFails(c, k) \/ \E checks \in BOOLEAN: InvalidGrant(c, k, checks)
    PROVE  ToldKept'
<1>1. UNCHANGED <<now, tokens, grants, told>> /\ store' \in {store, Snapshot'}
  BY DEF RecoveryFails, InvalidGrant, Save, SaveFails
<1>2. Authenticated(c, k) /\ Recovers(c)
  BY DEF RecoveryFails, InvalidGrant, Authenticated
<1>3. Said(clients') /\ Kept(tokens')
  <2>1. DOMAIN clients \subseteq DOMAIN clients' /\ \A d \in DOMAIN clients: clients'[d] = clients[d]
    BY <1>2, Recovered
  <2> QED
    BY <1>1, <2>1 DEF ToldKept, Kept, Said
<1> QED
  BY <1>1, <1>3, NothingLost DEF Snapshot

\* Kept, of any set of grants.
KeptOf(f, G) == \A g \in G: g.token \in told.tokens /\ g.at + TokenTTL >= now => g.token \in DOMAIN f

LEMMA GrantTells ==
    ASSUME AccessInv, ToldKept, NEW c \in Everybody, NEW k \in Codes, NEW t \in Tokens, Grant(c, k, t)
    PROVE  ToldKept'
<1> DEFINE g == [token |-> t, code |-> k, client |-> c, at |-> now]
           e == [client |-> c, expires |-> now + TokenTTL]
<1>1. now' = now /\ grants' = grants \cup {g} /\ g.token = t
  BY DEF Grant
<1>2. tokens' = With(tokens, t, e)
  BY DEF Grant
<1>3. DOMAIN tokens' = DOMAIN tokens \cup {t}
  BY <1>2, WithDomain
<1>4. DOMAIN clients \subseteq DOMAIN clients' /\ \A d \in DOMAIN clients: clients'[d] = clients[d]
  BY Recovered DEF Grant
<1>5. t \notin told.tokens
  BY DEF Grant, NewToken, AccessInv, ToldGranted
<1> HIDE DEF g, e
<1>6. /\ told'.clients = told.clients
      /\ told'.tokens \subseteq told.tokens \cup {t}
  BY DEF Grant, SaveFails, AccessInv, TypeOK
<1>7. Kept(tokens)' /\ Said(clients)'
  BY <1>1, <1>3, <1>4, <1>6 DEF ToldKept, Kept, Said
<1>8. CASE Save
  <2>1. store'.tokens = tokens' /\ store'.clients = clients'
    BY <1>8 DEF Save, Snapshot
  <2> QED
    BY <1>7, <2>1 DEF ToldKept, Kept, Said
<1>9. CASE told' = told
  <2>1. \A f: Kept(f) => KeptOf(f, grants')
    BY <1>1, <1>5 DEF Kept, KeptOf
  <2>2. CASE store' = store
    <3>1. KeptOf(store.tokens, grants') \/ ~store.readable
      BY <2>1 DEF ToldKept
    <3> QED
      BY <1>1, <1>7, <1>9, <2>2, <3>1 DEF ToldKept, Kept, KeptOf, Said
  <2>3. CASE store'.tokens \in {tokens, tokens'} /\ store'.clients = clients'
    <3>1. KeptOf(tokens, grants')
      BY <2>1 DEF ToldKept
    <3> QED
      BY <1>1, <1>7, <1>9, <2>3, <3>1 DEF ToldKept, Kept, KeptOf, Said
  <2>4. \/ store' = store
        \/ store'.tokens \in {tokens, tokens'} /\ store'.clients = clients'
    <3>1. CASE store' \in {store, Snapshot'}
      BY <3>1 DEF Snapshot
    <3>2. CASE store' = [store EXCEPT !.readable = TRUE, !.tokens = tokens, !.clients = clients']
      BY <3>2 DEF AccessInv, TypeOK
    <3> QED
      BY <3>1, <3>2 DEF Grant, Save, SaveFails
  <2> QED
    BY <2>2, <2>3, <2>4
<1> QED
  BY <1>8, <1>9 DEF Grant, SaveFails

LEMMA ExpiredTells ==
    ASSUME AccessInv, ToldKept, NEW t \in Tokens, Expired(t)
    PROVE  ToldKept'
<1>1. UNCHANGED <<now, clients, grants, told>> /\ store' \in {store, Snapshot'}
  BY DEF Expired, Save, SaveFails
<1>2. tokens' = Without(tokens, t) /\ t \in DOMAIN tokens /\ ~(tokens[t].expires >= now)
  BY DEF Expired, Accepts
<1>3. DOMAIN tokens' = DOMAIN tokens \ {t}
  BY <1>2, WithoutAt
<1>4. Kept(tokens')
  BY <1>2, <1>3, Expiry DEF ToldKept, Kept
<1>5. Said(clients')
  BY <1>1 DEF ToldKept
<1> QED
  BY <1>1, <1>4, <1>5, NothingLost DEF Snapshot

LEMMA TickTells ==
    ASSUME AccessInv, ToldKept, Tick
    PROVE  ToldKept'
<1>1. UNCHANGED <<clients, tokens, store, grants, told>> /\ now' = now + 1 /\ now \in Nat
  BY TimeAssumption DEF Tick, OAuthUnchanged, AccessInv, TypeOK
<1>2. \A g \in grants: g.at \in Nat /\ (g.at + TokenTTL >= now + 1 => g.at + TokenTTL >= now)
  BY <1>1, TimeAssumption DEF AccessInv, TypeOK
<1> QED
  BY <1>1, <1>2 DEF ToldKept, Kept, Said

LEMMA RestartTells ==
    ASSUME AccessInv, ToldKept, Restart
    PROVE  ToldKept'
<1>1. UNCHANGED <<now, store, grants>>
  BY DEF Restart
<1>2. CASE store.readable
  <2>1. told' = told /\ tokens' = Live(store.tokens) /\ clients' = store.clients
    BY <1>2 DEF Restart, Loaded
  <2>2. DOMAIN tokens' = {x \in DOMAIN store.tokens: store.tokens[x].expires >= now}
    BY <2>1, LiveAt
  <2>3. Kept(tokens')
    BY <1>2, <2>2, Expiry DEF ToldKept, Kept
  <2>4. Said(clients')
    BY <1>2, <2>1 DEF ToldKept
  <2> QED
    BY <1>1, <2>1, <2>3, <2>4, NothingLost
<1>3. CASE ~store.readable
  <2>1. told'.tokens = {} /\ told'.clients = None
    BY <1>3 DEF Restart
  <2>2. DOMAIN None = {}
    BY NoneTable
  <2> HIDE DEF None
  <2> QED
    BY <1>1, <2>1, <2>2 DEF ToldKept, Kept, Said
<1> QED
  BY <1>2, <1>3

LEMMA StepTells == AccessInv /\ ToldKept /\ [Next]_vars => ToldKept'
<1> SUFFICES ASSUME AccessInv, ToldKept, [Next]_vars PROVE ToldKept'
  OBVIOUS
<1>1. ASSUME NEW c \in Clients, Register(c) PROVE ToldKept'
  BY <1>1, RegisterTells
<1>2. ASSUME UNCHANGED <<now, clients, tokens, store, grants, told>> PROVE ToldKept'
  BY <1>2 DEF ToldKept, Kept, Said
<1>3. ASSUME NEW c \in Everybody, NEW k \in Codes, NEW r \in Redirects, Authorize(c, r, k) PROVE ToldKept'
  BY <1>2, <1>3 DEF Authorize
<1>4. ASSUME NEW c \in Everybody, NEW k \in Codes,
             \/ RecoveryFails(c, k)
             \/ \E checks \in BOOLEAN: InvalidGrant(c, k, checks)
             \/ \E t \in Tokens: Grant(c, k, t)
      PROVE  ToldKept'
  BY <1>4, RecoveryTells, GrantTells
<1>5. ASSUME NEW t \in Tokens, Expired(t) PROVE ToldKept'
  BY <1>5, ExpiredTells
<1>6. ASSUME NEW t \in Tokens, NEW a \in Callers, Request(t, a) PROVE ToldKept'
  BY <1>2, <1>6 DEF Request, OAuthUnchanged
<1>7. CASE Lose
  <2>1. UNCHANGED <<now, clients, tokens, grants, told>> /\ store'.readable = FALSE
    BY <1>7 DEF Lose, AccessInv, TypeOK
  <2> QED
    BY <2>1 DEF ToldKept, Kept, Said
<1>8. CASE UNCHANGED vars
  BY <1>2, <1>8 DEF vars
<1> QED
  BY <1>1, <1>3, <1>4, <1>5, <1>6, <1>7, <1>8, TickTells, RestartTells DEF Next, Everybody

\* A client that was answered is never contradicted: its token is accepted until it expires and not
\* after, its registration is there; whatever is saved, fails to be saved or is restarted.
THEOREM AnswersStand == Spec => []ToldStands
<1>1. Init => ToldKept
  <2> SUFFICES ASSUME Init PROVE ToldKept
    OBVIOUS
  <2>1. grants = {} /\ told.clients = None
    BY DEF Init
  <2>2. DOMAIN None = {}
    BY NoneTable
  <2> HIDE DEF None
  <2> QED
    BY <2>1, <2>2 DEF ToldKept, Kept, Said
<1>2. AccessInv /\ ToldKept => ToldStands
  BY ToldAsKept
<1> QED
  BY <1>1, <1>2, InitHolds, StepKeeps, StepTells, PTL DEF Spec

-----------------------------------------------------------------------------
(* The sliding window.                                                     *)

\* The requests let through from time i to time j, one by one; and the hits no older than lo.
Slots(f, i, j) == UNION {{<<m, n>>: n \in 1..f[m]}: m \in i..j}
Counted(q, lo) == {x \in 1..Len(q): q[x] >= lo}

\* A deque q that is what is needed at time t of the requests f that have been let through.
Tracks(q, f, t) ==
    /\ f \in [0..MaxTime -> Nat] /\ \A m \in 0..MaxTime: m > t => f[m] = 0
    /\ q \in Seq(0..MaxTime) /\ Len(q) <= Limit
    /\ \A x \in 1..Len(q): q[x] <= t
    /\ \A x, y \in 1..Len(q): x <= y => q[x] <= q[y]
    /\ \A i, j \in 0..MaxTime: IsFiniteSet(Slots(f, i, j))
    /\ \A lo \in 0..t: lo + Window >= t => Cardinality(Counted(q, lo)) = Cardinality(Slots(f, lo, t))
    /\ \A i \in 0..MaxTime: i + Window <= MaxTime => Cardinality(Slots(f, i, i + Window)) <= Limit

LimiterInv == served \in [Callers -> [0..MaxTime -> Nat]] /\ \A a \in Callers: Tracks(hits[a], served[a], now)

LEMMA Bounds == MaxTime \in Nat /\ Window \in Nat /\ Limit \in Nat /\ Limit > 0
BY TimeAssumption, LimitAssumption

LEMMA SlotsDef ==
    ASSUME NEW f, NEW i, NEW j
    PROVE  \A s: s \in Slots(f, i, j) <=> \E m \in i..j: \E n \in 1..f[m]: s = <<m, n>>
BY DEF Slots

LEMMA ThroughSlots ==
    ASSUME NEW a, NEW i, NEW j PROVE Through(a, i, j) = Cardinality(Slots(served[a], i, j))
<1> DEFINE at == [m \in i..j |-> {<<m, n>>: n \in 1..served[a][m]}]
<1>1. UNION {at[m]: m \in i..j} = Slots(served[a], i, j)
  BY DEF Slots
<1> QED
  BY <1>1 DEF Through

LEMMA UpTo == ASSUME NEW n \in Nat PROVE IsFiniteSet(1..n) /\ Cardinality(1..n) = n
<1>1. 1 \in Int /\ n \in Int
  OBVIOUS
<1>2. IsFiniteSet(1..n) /\ Cardinality(1..n) = IF 1 > n THEN 0 ELSE n - 1 + 1
  BY <1>1, FS_Interval
<1>3. (IF 1 > n THEN 0 ELSE n - 1 + 1) = n
  OBVIOUS
<1> QED
  BY <1>2, <1>3

LEMMA Counts ==
    ASSUME NEW q, Len(q) \in Nat, NEW lo
    PROVE  IsFiniteSet(Counted(q, lo)) /\ Cardinality(Counted(q, lo)) <= Len(q)
<1>1. Counted(q, lo) \in SUBSET (1..Len(q))
  BY DEF Counted
<1> QED
  BY <1>1, UpTo, FS_Subset

\* A set of the first numbers is as large as its greatest one.
LEMMA InitialSegment ==
    ASSUME NEW n \in Nat, NEW D \in SUBSET (1..n), \A i \in D: 1..i \subseteq D
    PROVE  \E k \in 0..n: D = 1..k /\ Cardinality(D) = k
<1>1. IsFiniteSet(D) /\ Cardinality(D) <= n /\ Cardinality(D) \in Nat
  <2>1. IsFiniteSet(1..n) /\ Cardinality(1..n) = n
    BY UpTo
  <2>2. IsFiniteSet(D) /\ Cardinality(D) <= Cardinality(1..n)
    BY <2>1, FS_Subset
  <2> QED
    BY <2>1, <2>2, FS_CardinalityType
<1>2. PICK k \in 0..n: k = Cardinality(D)
  BY <1>1
<1>3. ASSUME NEW i \in D PROVE i \in 1..k
  <2>1. i \in Nat /\ i >= 1 /\ 1..i \in SUBSET D
    OBVIOUS
  <2>2. Cardinality(1..i) = i /\ Cardinality(1..i) <= Cardinality(D)
    BY <1>1, <2>1, UpTo, FS_Subset
  <2> QED
    BY <1>2, <2>1, <2>2
<1>4. D \in SUBSET (1..k) /\ IsFiniteSet(1..k) /\ Cardinality(1..k) = k
  BY <1>2, <1>3, UpTo
<1>5. D = 1..k
  BY <1>2, <1>4, FS_Subset
<1> QED
  BY <1>2, <1>5

\* The pruning drops the hits that are too old, up to the first that is not.
LEMMA PrunedDrops ==
    ASSUME NEW S, NEW q \in Seq(S)
    PROVE  \E k \in 0..Len(q):
              /\ Pruned(q) \in Seq(S) /\ Len(Pruned(q)) = Len(q) - k
              /\ \A i \in 1..(Len(q) - k): Pruned(q)[i] = q[i + k]
              /\ \A i \in 1..k: q[i] + Window < now
              /\ k < Len(q) => ~(q[k + 1] + Window < now)
<1> DEFINE D == {i \in DOMAIN q: \A j \in 1..i: q[j] + Window < now}
<1>1. Len(q) \in Nat /\ DOMAIN q = 1..Len(q) /\ \A i \in 1..Len(q): q[i] \in S
  OBVIOUS
<1>2. D \in SUBSET (1..Len(q)) /\ \A i \in D: 1..i \subseteq D
  <2>1. D \in SUBSET (1..Len(q))
    BY <1>1
  <2>2. ASSUME NEW i \in D, NEW j \in 1..i PROVE j \in D
    <3>1. j \in 1..Len(q) /\ 1..j \subseteq 1..i
      BY <1>1, <2>1
    <3> QED
      BY <1>1, <3>1
  <2> QED
    BY <2>1, <2>2
<1>3. PICK k \in 0..Len(q): D = 1..k /\ Cardinality(D) = k
  <2> HIDE DEF D
  <2> QED
    BY <1>1, <1>2, InitialSegment
<1>4. \A i \in 1..k: q[i] + Window < now
  <2>1. SUFFICES ASSUME NEW i \in 1..k PROVE q[i] + Window < now
    OBVIOUS
  <2>2. i \in D /\ i \in 1..i
    BY <1>1, <1>3
  <2> QED
    BY <2>2
<1>5. k < Len(q) => ~(q[k + 1] + Window < now)
  <2>1. SUFFICES ASSUME k < Len(q), q[k + 1] + Window < now PROVE FALSE
    OBVIOUS
  <2>2. k \in Nat /\ k + 1 \in 1..Len(q) /\ \A j \in 1..(k + 1): j \in 1..k \/ j = k + 1
    BY <1>1, <2>1
  <2>3. \A j \in 1..(k + 1): q[j] + Window < now
    BY <1>4, <2>1, <2>2
  <2>4. k + 1 \in D
    BY <1>1, <2>2, <2>3
  <2>5. k + 1 \notin 1..k
    BY <2>2
  <2> QED
    BY <1>3, <2>4, <2>5
<1>6. Pruned(q) = SubSeq(q, 1 + k, Len(q))
  BY <1>3 DEF Pruned
<1> HIDE DEF D
<1>7. /\ 1 + k \in Int /\ Len(q) \in Int /\ (\A i \in (1 + k)..Len(q): q[i] \in S)
      /\ (IF 1 + k <= Len(q) THEN Len(q) - (1 + k) + 1 ELSE 0) = Len(q) - k
      /\ Len(q) - (1 + k) + 1 = Len(q) - k /\ \A i \in 1..(Len(q) - k): 1 + k + i - 1 = i + k
  <2>1. PICK l: l = Len(q)
    OBVIOUS
  <2>2. k \in Nat /\ l \in Nat /\ k <= l
    BY <1>1, <1>3, <2>1
  <2>3. \A i \in (1 + k)..l: i \in 1..l
    BY <2>2
  <2>4. (IF 1 + k <= l THEN l - (1 + k) + 1 ELSE 0) = l - k /\ l - (1 + k) + 1 = l - k
    BY <2>2
  <2>5. \A i \in 1..(l - k): 1 + k + i - 1 = i + k
    BY <2>2
  <2>6. 1 + k \in Int /\ Len(q) \in Int
    BY <2>1, <2>2
  <2>7. \A i \in (1 + k)..Len(q): q[i] \in S
    BY <1>1, <2>1, <2>3
  <2>8. (IF 1 + k <= Len(q) THEN Len(q) - (1 + k) + 1 ELSE 0) = Len(q) - k /\ Len(q) - (1 + k) + 1 = Len(q) - k
    BY <2>1, <2>4
  <2>9. \A i \in 1..(Len(q) - k): 1 + k + i - 1 = i + k
    BY <2>1, <2>5
  <2> QED
    BY <2>6, <2>7, <2>8, <2>9
<1>8. /\ Pruned(q) \in Seq(S) /\ Len(Pruned(q)) = Len(q) - k
      /\ \A i \in 1..(Len(q) - k): Pruned(q)[i] = q[i + k]
  <2>1. PICK m: m = 1 + k
    OBVIOUS
  <2>2. /\ Pruned(q) \in Seq(S) /\ Len(Pruned(q)) = IF m <= Len(q) THEN Len(q) - m + 1 ELSE 0
        /\ \A i \in 1..(Len(q) - m + 1): Pruned(q)[i] = q[m + i - 1]
    <3>1. m \in Int /\ Len(q) \in Int /\ \A i \in m..Len(q): q[i] \in S
      BY <1>7, <2>1
    <3>2. Pruned(q) = SubSeq(q, m, Len(q))
      BY <1>6, <2>1
    <3> QED
      BY <3>1, <3>2, SubSeqProperties
  <2> QED
    BY <1>7, <2>1, <2>2
<1> QED
  BY <1>3, <1>4, <1>5, <1>8

LEMMA TracksFacts ==
    ASSUME NEW q, NEW f, NEW t \in 0..MaxTime, Tracks(q, f, t)
    PROVE  /\ f \in [0..MaxTime -> Nat] /\ (\A m \in 0..MaxTime: m > t => f[m] = 0)
           /\ q \in Seq(0..MaxTime) /\ Len(q) \in Nat /\ Len(q) <= Limit /\ t \in Nat
           /\ \A x \in 1..Len(q): q[x] \in 0..MaxTime /\ q[x] \in Nat /\ q[x] <= t
           /\ \A x, y \in 1..Len(q): x <= y => q[x] <= q[y]
           /\ \A i, j \in 0..MaxTime: IsFiniteSet(Slots(f, i, j))
           /\ \A lo \in 0..t: lo + Window >= t => Cardinality(Counted(q, lo)) = Cardinality(Slots(f, lo, t))
           /\ \A i \in 0..MaxTime: i + Window <= MaxTime => Cardinality(Slots(f, i, i + Window)) <= Limit
<1>1. PICK S: S = 0..MaxTime
  OBVIOUS
<1>2. q \in Seq(S)
  BY <1>1 DEF Tracks
<1>3. Len(q) \in Nat /\ \A x \in 1..Len(q): q[x] \in S
  BY <1>2
<1>4. \A x \in S: x \in Nat
  BY <1>1, Bounds
<1> QED
  BY <1>1, <1>3, <1>4 DEF Tracks

\* What is pruned is in no window that reaches the present; and what is left is in the last window.
LEMMA PrunedTracks ==
    ASSUME NEW q, NEW f, now \in 0..MaxTime, Tracks(q, f, now)
    PROVE  /\ Tracks(Pruned(q), f, now)
           /\ Len(Pruned(q)) = Cardinality(Slots(f, IF now > Window THEN now - Window ELSE 0, now))
<1>1. /\ q \in Seq(0..MaxTime) /\ Len(q) \in Nat /\ Len(q) <= Limit /\ now \in Nat
      /\ \A x \in 1..Len(q): q[x] \in Nat /\ q[x] <= now
      /\ \A x, y \in 1..Len(q): x <= y => q[x] <= q[y]
  BY TracksFacts
<1>2. PICK k \in 0..Len(q):
         /\ Pruned(q) \in Seq(0..MaxTime) /\ Len(Pruned(q)) = Len(q) - k
         /\ \A i \in 1..(Len(q) - k): Pruned(q)[i] = q[i + k]
         /\ \A i \in 1..k: q[i] + Window < now
         /\ k < Len(q) => ~(q[k + 1] + Window < now)
  BY <1>1, PrunedDrops
<1>3. PICK p, l: p = Pruned(q) /\ l = Len(q) - k
  OBVIOUS
<1>4. /\ p \in Seq(0..MaxTime) /\ Len(p) = l /\ l \in Nat /\ l <= Len(q) /\ k \in Nat /\ l + k = Len(q)
      /\ \A i \in 1..l: p[i] = q[i + k] /\ i + k \in 1..Len(q)
  BY <1>1, <1>2, <1>3
<1>5. /\ \A x \in 1..Len(p): p[x] \in Nat /\ p[x] <= now
      /\ \A x, y \in 1..Len(p): x <= y => p[x] <= p[y]
  <2>1. ASSUME NEW x \in 1..l, NEW y \in 1..l, x <= y PROVE p[x] <= p[y]
    <3>1. x + k \in 1..Len(q) /\ y + k \in 1..Len(q) /\ x + k <= y + k /\ p[x] = q[x + k] /\ p[y] = q[y + k]
      BY <1>4, <2>1
    <3> QED
      BY <1>1, <3>1
  <2> QED
    BY <1>1, <1>4, <2>1
<1>6. ASSUME NEW lo \in 0..now, lo + Window >= now
      PROVE  Cardinality(Counted(p, lo)) = Cardinality(Counted(q, lo))
  <2> DEFINE F == [i \in Counted(p, lo) |-> i + k]
  <2>1. \A i \in Counted(p, lo): i \in 1..l /\ i + k \in Counted(q, lo)
    BY <1>4 DEF Counted
  <2>2. \A i, j \in Counted(p, lo): F[i] = F[j] => i = j
    BY <1>4, <2>1
  <2>3. \A y \in Counted(q, lo): \E i \in Counted(p, lo): F[i] = y
    <3>1. SUFFICES ASSUME NEW y \in Counted(q, lo) PROVE \E i \in Counted(p, lo): F[i] = y
      OBVIOUS
    <3>2. y \in 1..Len(q) /\ q[y] >= lo /\ q[y] \in Nat
      BY <1>1 DEF Counted
    <3>3. ~(y \in 1..k)
      <4>1. SUFFICES ASSUME q[y] + Window < now PROVE FALSE
        BY <1>2
      <4> QED
        BY <1>1, <1>6, <3>2, <4>1, Bounds
    <3>4. y - k \in 1..l /\ (y - k) + k = y
      BY <1>4, <3>2, <3>3
    <3>5. y - k \in Counted(p, lo)
      BY <1>4, <3>2, <3>4 DEF Counted
    <3> QED
      BY <3>4, <3>5
  <2>4. F \in [Counted(p, lo) -> Counted(q, lo)]
    BY <2>1
  <2> HIDE DEF F
  <2>5. F \in Bijection(Counted(p, lo), Counted(q, lo))
    BY <2>2, <2>3, <2>4, Fun_IsBij
  <2>6. IsFiniteSet(Counted(p, lo))
    BY <1>4, Counts
  <2> QED
    BY <2>5, <2>6, FS_Bijection, Fun_ExistsBij
<1>7. Tracks(p, f, now)
  <2>1. Len(p) <= Limit
    BY <1>1, <1>4, Bounds
  <2> QED
    BY <1>4, <1>5, <1>6, <2>1, TracksFacts DEF Tracks
<1>8. Len(p) = Cardinality(Slots(f, IF now > Window THEN now - Window ELSE 0, now))
  <2>1. PICK lo: lo = IF now > Window THEN now - Window ELSE 0
    OBVIOUS
  <2>2. lo \in 0..now /\ lo + Window >= now /\ \A v \in Nat: ~(v + Window < now) => v >= lo
    BY <1>1, <2>1, Bounds
  <2>3. \A x \in 1..Len(p): p[x] >= lo
    <3>1. SUFFICES ASSUME NEW x \in 1..l PROVE p[x] >= lo
      BY <1>4
    <3>2. k < Len(q) /\ k + 1 \in 1..Len(q) /\ x + k \in 1..Len(q) /\ k + 1 <= x + k
      BY <1>1, <1>4
    <3>3. q[k + 1] >= lo /\ q[k + 1] \in Nat
      BY <1>1, <1>2, <2>2, <3>2
    <3>4. q[k + 1] <= q[x + k] /\ q[x + k] \in Nat /\ p[x] = q[x + k]
      BY <1>1, <1>4, <3>2
    <3> QED
      BY <2>2, <3>3, <3>4
  <2>4. Counted(p, lo) = 1..Len(p)
    BY <2>3 DEF Counted
  <2>5. Cardinality(Counted(p, lo)) = Len(p)
    BY <1>4, <2>4, UpTo
  <2>6. Cardinality(Counted(p, lo)) = Cardinality(Slots(f, lo, now))
    BY <1>7, <2>2 DEF Tracks
  <2> QED
    BY <2>1, <2>5, <2>6
<1> QED
  BY <1>3, <1>7, <1>8

\* One request more is let through, now.
LEMMA AddTracks ==
    ASSUME NEW q, NEW f, NEW t \in 0..MaxTime, Tracks(q, f, t), Len(q) < Limit
    PROVE  Tracks(Append(q, t), [f EXCEPT ![t] = @ + 1], t)
<1>1. /\ f \in [0..MaxTime -> Nat] /\ (\A m \in 0..MaxTime: m > t => f[m] = 0)
      /\ q \in Seq(0..MaxTime) /\ Len(q) \in Nat /\ t \in Nat /\ Len(q) < Limit /\ Limit \in Nat
      /\ \A x \in 1..Len(q): q[x] \in Nat /\ q[x] <= t
      /\ \A x, y \in 1..Len(q): x <= y => q[x] <= q[y]
      /\ \A i, j \in 0..MaxTime: IsFiniteSet(Slots(f, i, j))
  BY TracksFacts, Bounds
<1>2. PICK l, p, g: l = Len(q) /\ p = Append(q, t) /\ g = [f EXCEPT ![t] = @ + 1]
  OBVIOUS
<1>3. /\ p \in Seq(0..MaxTime) /\ Len(p) = l + 1 /\ l \in Nat /\ l < Limit
      /\ (\A i \in 1..l: p[i] = q[i]) /\ p[l + 1] = t
  BY <1>1, <1>2, AppendProperties
<1>4. /\ g \in [0..MaxTime -> Nat] /\ g[t] = f[t] + 1 /\ f[t] \in Nat
      /\ \A m \in 0..MaxTime \ {t}: g[m] = f[m]
  BY <1>1, <1>2
<1>5. \A i \in 1..(l + 1): i \in 1..l \/ i = l + 1
  BY <1>3
<1>6. /\ \A x \in 1..Len(p): p[x] <= t
      /\ \A x, y \in 1..Len(p): x <= y => p[x] <= p[y]
  <2>1. \A x \in 1..(l + 1): p[x] \in Nat /\ p[x] <= t
    BY <1>1, <1>2, <1>3, <1>5
  <2>2. ASSUME NEW x \in 1..(l + 1), NEW y \in 1..(l + 1), x <= y PROVE p[x] <= p[y]
    <3>1. CASE y \in 1..l
      <4>1. x \in 1..l
        BY <1>3, <2>2, <3>1
      <4> QED
        BY <1>1, <1>2, <1>3, <2>2, <3>1, <4>1
    <3>2. CASE y = l + 1
      BY <1>3, <2>1, <3>2
    <3> QED
      BY <1>5, <3>1, <3>2
  <2> QED
    BY <1>3, <2>1, <2>2
<1>7. ASSUME NEW i \in 0..MaxTime, NEW j \in 0..MaxTime
      PROVE  Slots(g, i, j) = IF t \in i..j THEN Slots(f, i, j) \cup {<<t, f[t] + 1>>} ELSE Slots(f, i, j)
  <2>1. i..j \subseteq 0..MaxTime
    BY Bounds
  <2>2. \A m \in i..j: 1..g[m] = IF m = t THEN 1..f[t] \cup {f[t] + 1} ELSE 1..f[m]
    <3>1. SUFFICES ASSUME NEW m \in i..j PROVE 1..g[m] = IF m = t THEN 1..f[t] \cup {f[t] + 1} ELSE 1..f[m]
      OBVIOUS
    <3>2. CASE m = t
      <4>1. PICK v: v = f[t]
        OBVIOUS
      <4>2. v \in Nat /\ 1..(v + 1) = 1..v \cup {v + 1}
        BY <1>4, <4>1
      <4> QED
        BY <1>4, <3>2, <4>1, <4>2
    <3>3. CASE m # t
      BY <1>4, <2>1, <3>3
    <3> QED
      BY <3>2, <3>3
  <2>3. \A s: s \in Slots(g, i, j) <=> \E m \in i..j: \E n \in 1..g[m]: s = <<m, n>>
    BY SlotsDef
  <2>4. \A s: s \in Slots(f, i, j) <=> \E m \in i..j: \E n \in 1..f[m]: s = <<m, n>>
    BY SlotsDef
  <2>5. CASE t \in i..j
    <3>1. ASSUME NEW m \in i..j, NEW n \in 1..g[m] PROVE <<m, n>> \in Slots(f, i, j) \/ <<m, n>> = <<t, f[t] + 1>>
      BY <2>2, <2>4, <3>1
    <3>2. \A s: s \in Slots(f, i, j) => s \in Slots(g, i, j)
      BY <2>2, <2>3, <2>4
    <3>3. f[t] + 1 \in 1..g[t]
      BY <2>2, <2>5
    <3>4. <<t, f[t] + 1>> \in Slots(g, i, j)
      BY <2>3, <2>5, <3>3
    <3>5. \A s: s \in Slots(g, i, j) => s \in Slots(f, i, j) \/ s = <<t, f[t] + 1>>
      BY <2>3, <3>1
    <3> QED
      BY <2>5, <3>2, <3>4, <3>5
  <2>6. CASE t \notin i..j
    <3>1. \A m \in i..j: 1..g[m] = 1..f[m]
      BY <2>2, <2>6
    <3>2. \A s: s \in Slots(g, i, j) <=> s \in Slots(f, i, j)
      BY <2>3, <2>4, <3>1
    <3> QED
      BY <2>6, <3>2
  <2> QED
    BY <2>5, <2>6
<1>8. <<t, f[t] + 1>> \notin Slots(f, 0, MaxTime) /\ \A i, j \in 0..MaxTime: <<t, f[t] + 1>> \notin Slots(f, i, j)
  <2>1. f[t] + 1 \notin 1..f[t]
    BY <1>4
  <2>2. SUFFICES ASSUME NEW i, NEW j, <<t, f[t] + 1>> \in Slots(f, i, j) PROVE FALSE
    OBVIOUS
  <2>3. PICK m \in i..j: \E n \in 1..f[m]: <<t, f[t] + 1>> = <<m, n>>
    BY <2>2, SlotsDef
  <2> QED
    BY <2>1, <2>3
<1>9. ASSUME NEW i \in 0..MaxTime, NEW j \in 0..MaxTime
      PROVE  /\ IsFiniteSet(Slots(g, i, j))
             /\ Cardinality(Slots(g, i, j)) = Cardinality(Slots(f, i, j)) + (IF t \in i..j THEN 1 ELSE 0)
  <2>1. IsFiniteSet(Slots(f, i, j)) /\ <<t, f[t] + 1>> \notin Slots(f, i, j)
    BY <1>1, <1>8
  <2>2. Cardinality(Slots(f, i, j)) \in Nat
    BY <2>1, FS_CardinalityType
  <2>3. CASE t \in i..j
    <3>1. Slots(g, i, j) = Slots(f, i, j) \cup {<<t, f[t] + 1>>}
      BY <1>7, <2>3
    <3> QED
      BY <2>1, <2>3, <3>1, FS_AddElement
  <2>4. CASE t \notin i..j
    <3>1. Slots(g, i, j) = Slots(f, i, j)
      BY <1>7, <2>4
    <3> QED
      BY <2>1, <2>2, <2>4, <3>1
  <2> QED
    BY <2>3, <2>4
<1>10. ASSUME NEW lo \in 0..t, lo + Window >= t
       PROVE  Cardinality(Counted(p, lo)) = Cardinality(Slots(g, lo, t))
  <2>1. Counted(p, lo) = Counted(q, lo) \cup {l + 1}
    <3>1. l + 1 \in Counted(p, lo)
      BY <1>3 DEF Counted
    <3>2. \A x \in 1..l: x \in Counted(p, lo) <=> x \in Counted(q, lo)
      BY <1>2, <1>3 DEF Counted
    <3>3. Counted(p, lo) \subseteq 1..(l + 1) /\ Counted(q, lo) \subseteq 1..l
      BY <1>2, <1>3 DEF Counted
    <3> QED
      BY <1>5, <3>1, <3>2, <3>3
  <2>2. l + 1 \notin Counted(q, lo)
    BY <1>2, <1>3 DEF Counted
  <2>3. IsFiniteSet(Counted(q, lo))
    BY <1>1, Counts
  <2>4. Cardinality(Counted(p, lo)) = Cardinality(Counted(q, lo)) + 1
    BY <2>1, <2>2, <2>3, FS_AddElement
  <2>5. Cardinality(Counted(q, lo)) = Cardinality(Slots(f, lo, t))
    BY <1>10, TracksFacts
  <2>6. lo \in 0..MaxTime /\ t \in 0..MaxTime /\ t \in lo..t
    BY <1>1, Bounds
  <2>7. Cardinality(Slots(g, lo, t)) = Cardinality(Slots(f, lo, t)) + 1
    BY <1>9, <2>6
  <2> QED
    BY <2>4, <2>5, <2>7
<1>11. ASSUME NEW i \in 0..MaxTime, i + Window <= MaxTime PROVE Cardinality(Slots(g, i, i + Window)) <= Limit
  <2>1. i + Window \in 0..MaxTime /\ i \in Nat
    BY <1>11, Bounds
  <2>2. Cardinality(Slots(f, i, i + Window)) \in Nat /\ Cardinality(Slots(f, i, i + Window)) <= Limit
    BY <1>1, <1>11, <2>1, TracksFacts, FS_CardinalityType
  <2>3. CASE t \notin i..(i + Window)
    BY <1>9, <2>1, <2>2, <2>3
  <2>4. CASE t \in i..(i + Window)
    <3>1. i \in 0..t /\ i + Window >= t
      BY <1>1, <2>1, <2>4, Bounds
    <3>2. Slots(g, i, i + Window) = Slots(g, i, t)
      <4>1. \A m \in i..(i + Window): m \in i..t \/ (m > t /\ m \in 0..MaxTime)
        BY <1>1, <2>1, Bounds
      <4>2. \A m \in 0..MaxTime: m > t => g[m] = 0
        BY <1>1, <1>4, Bounds
      <4>3. \A m \in i..(i + Window): m \in i..t \/ 1..g[m] = {}
        BY <4>1, <4>2
      <4>4. i..t \subseteq i..(i + Window)
        BY <1>1, <2>1, <3>1
      <4>5. \A s: s \in Slots(g, i, i + Window) <=> \E m \in i..(i + Window): \E n \in 1..g[m]: s = <<m, n>>
        BY SlotsDef
      <4>6. \A s: s \in Slots(g, i, t) <=> \E m \in i..t: \E n \in 1..g[m]: s = <<m, n>>
        BY SlotsDef
      <4> QED
        BY <4>3, <4>4, <4>5, <4>6
    <3>3. Cardinality(Slots(g, i, t)) = Cardinality(Counted(p, i))
      BY <1>10, <3>1
    <3>4. Cardinality(Counted(p, i)) <= l + 1 /\ IsFiniteSet(Counted(p, i))
      BY <1>3, Counts
    <3>5. Cardinality(Counted(p, i)) \in Nat
      BY <3>4, FS_CardinalityType
    <3> QED
      BY <1>1, <1>3, <3>2, <3>3, <3>4, <3>5
  <2> QED
    BY <2>3, <2>4
<1>12. Len(p) <= Limit
  BY <1>1, <1>3
<1>13. \A m \in 0..MaxTime: m > t => g[m] = 0
  BY <1>1, <1>4, Bounds
<1>14. Tracks(p, g, t)
  BY <1>3, <1>4, <1>6, <1>9, <1>10, <1>11, <1>12, <1>13 DEF Tracks
<1> QED
  BY <1>2, <1>14

\* The clock moves on.
LEMMA TickTracks ==
    ASSUME NEW q, NEW f, NEW t \in 0..MaxTime, Tracks(q, f, t), t + 1 \in 0..MaxTime
    PROVE  Tracks(q, f, t + 1)
<1>1. /\ f \in [0..MaxTime -> Nat] /\ (\A m \in 0..MaxTime: m > t => f[m] = 0)
      /\ q \in Seq(0..MaxTime) /\ Len(q) \in Nat /\ t \in Nat
      /\ \A x \in 1..Len(q): q[x] \in Nat /\ q[x] <= t
  BY TracksFacts
<1>2. (\A m \in 0..MaxTime: m > t + 1 => f[m] = 0) /\ (\A x \in 1..Len(q): q[x] <= t + 1) /\ 1..f[t + 1] = {}
  BY <1>1, Bounds
<1>3. ASSUME NEW lo \in 0..(t + 1), lo + Window >= t + 1
      PROVE  Cardinality(Counted(q, lo)) = Cardinality(Slots(f, lo, t + 1))
  <2>1. \A s: s \in Slots(f, lo, t + 1) <=> \E m \in lo..(t + 1): \E n \in 1..f[m]: s = <<m, n>>
    BY SlotsDef
  <2>2. CASE lo = t + 1
    <3>1. Counted(q, lo) = {}
      BY <1>1, <2>2 DEF Counted
    <3>2. \A m \in lo..(t + 1): m = t + 1
      BY <1>1, <2>2
    <3>3. Slots(f, lo, t + 1) = {}
      BY <1>2, <2>1, <3>2
    <3> QED
      BY <3>1, <3>3
  <2>3. CASE lo # t + 1
    <3>1. lo \in 0..t /\ lo + Window >= t
      BY <1>1, <1>3, <2>3, Bounds
    <3>2. \A m \in lo..(t + 1): m \in lo..t \/ m = t + 1
      BY <1>1
    <3>3. lo..t \subseteq lo..(t + 1)
      BY <1>1
    <3>4. \A s: s \in Slots(f, lo, t) <=> \E m \in lo..t: \E n \in 1..f[m]: s = <<m, n>>
      BY SlotsDef
    <3>5. Slots(f, lo, t + 1) = Slots(f, lo, t)
      BY <1>2, <2>1, <3>2, <3>3, <3>4
    <3> QED
      BY <3>1, <3>5, TracksFacts
  <2> QED
    BY <2>2, <2>3
<1> QED
  BY <1>1, <1>2, <1>3, TracksFacts DEF Tracks

\* Nothing has been let through.
LEMMA EmptyTracks ==
    ASSUME NEW t \in 0..MaxTime PROVE Tracks(<<>>, [i \in 0..MaxTime |-> 0], t)
<1>1. PICK f: f = [i \in 0..MaxTime |-> 0]
  OBVIOUS
<1>2. f \in [0..MaxTime -> Nat] /\ \A m \in 0..MaxTime: f[m] = 0 /\ 1..f[m] = {}
  BY <1>1
<1>3. \A i, j \in 0..MaxTime: Slots(f, i, j) = {}
  <2>1. SUFFICES ASSUME NEW i \in 0..MaxTime, NEW j \in 0..MaxTime PROVE Slots(f, i, j) = {}
    OBVIOUS
  <2>2. i..j \subseteq 0..MaxTime
    BY Bounds
  <2> QED
    BY <1>2, <2>2, SlotsDef
<1>4. IsFiniteSet({}) /\ Cardinality({}) = 0
  BY FS_EmptySet
<1>5. Len(<<>>) = 0 /\ 1..0 = {} /\ <<>> \in Seq(0..MaxTime)
  OBVIOUS
<1>6. \A lo: Counted(<<>>, lo) = {}
  BY <1>5 DEF Counted
<1>7. \A i \in 0..MaxTime: i + Window <= MaxTime => i + Window \in 0..MaxTime
  BY Bounds
<1>8. \A lo \in 0..t: lo \in 0..MaxTime
  BY Bounds
<1>9. 0 <= Limit
  BY Bounds
<1> QED
  BY <1>1, <1>2, <1>3, <1>4, <1>5, <1>6, <1>7, <1>8, <1>9 DEF Tracks

LEMMA WindowFull ==
    ASSUME AccessInv, LimiterInv PROVE WindowExact
<1> SUFFICES ASSUME NEW a \in Callers
             PROVE  /\ \A i \in 0..MaxTime: i + Window <= MaxTime => Through(a, i, i + Window) <= Limit
                    /\ Refuses(a) <=> Through(a, IF now > Window THEN now - Window ELSE 0, now) >= Limit
  BY DEF WindowExact
<1>1. now \in 0..MaxTime /\ Tracks(hits[a], served[a], now)
  BY DEF AccessInv, TypeOK, LimiterInv
<1>2. \A i \in 0..MaxTime: i + Window <= MaxTime => Through(a, i, i + Window) <= Limit
  BY <1>1, ThroughSlots DEF Tracks
<1>3. Len(Pruned(hits[a])) = Through(a, IF now > Window THEN now - Window ELSE 0, now)
  BY <1>1, PrunedTracks, ThroughSlots
<1> QED
  BY <1>2, <1>3 DEF Refuses

LEMMA Limits == AccessInv /\ LimiterInv /\ [Next]_vars => LimiterInv'
<1> SUFFICES ASSUME AccessInv, LimiterInv, [Next]_vars PROVE LimiterInv'
  OBVIOUS
<1>1. /\ now \in 0..MaxTime /\ served \in [Callers -> [0..MaxTime -> Nat]]
      /\ \A a \in Callers: Tracks(hits[a], served[a], now)
      /\ hits \in [Callers -> Seq(0..MaxTime)]
  BY DEF AccessInv, TypeOK, LimiterInv
<1>2. ASSUME UNCHANGED <<now, hits, served>> PROVE LimiterInv'
  BY <1>1, <1>2 DEF LimiterInv
<1>3. ASSUME NEW t \in Tokens, NEW a \in Callers, Request(t, a) PROVE LimiterInv'
  <2>1. PICK q, f: q = hits[a] /\ f = served[a]
    OBVIOUS
  <2>2. Tracks(q, f, now) /\ now' = now
    BY <1>1, <1>3, <2>1 DEF Request
  <2>3. PICK p: p = Pruned(q)
    OBVIOUS
  <2>4. Tracks(p, f, now)
    BY <1>1, <2>2, <2>3, PrunedTracks
  <2>5. CASE hits' = [hits EXCEPT ![a] = p] /\ served' = served
    <3>1. \A b \in Callers: hits'[b] = (IF b = a THEN p ELSE hits[b]) /\ served'[b] = served[b]
      BY <1>1, <2>5
    <3>2. \A b \in Callers: Tracks(hits'[b], served'[b], now')
      BY <1>1, <2>1, <2>2, <2>4, <3>1
    <3> QED
      BY <1>1, <2>5, <3>2 DEF LimiterInv
  <2>6. CASE /\ ~(Len(p) >= Limit) /\ hits' = [hits EXCEPT ![a] = Append(p, now)]
             /\ served' = [served EXCEPT ![a] = [f EXCEPT ![now] = @ + 1]]
    <3>1. PICK r, g: r = Append(p, now) /\ g = [f EXCEPT ![now] = @ + 1]
      OBVIOUS
    <3>2. Len(p) < Limit
      BY <1>1, <2>4, <2>6, Bounds, TracksFacts
    <3>3. Tracks(r, g, now)
      BY <1>1, <2>4, <3>1, <3>2, AddTracks
    <3>4. \A b \in Callers: /\ hits'[b] = (IF b = a THEN r ELSE hits[b])
                            /\ served'[b] = (IF b = a THEN g ELSE served[b])
      BY <1>1, <2>6, <3>1
    <3>5. \A b \in Callers: Tracks(hits'[b], served'[b], now')
      BY <1>1, <2>2, <3>3, <3>4
    <3>6. g \in [0..MaxTime -> Nat]
      BY <3>3 DEF Tracks
    <3>7. served' = [served EXCEPT ![a] = g]
      BY <2>6, <3>1
    <3>8. served' \in [Callers -> [0..MaxTime -> Nat]]
      BY <1>1, <3>6, <3>7
    <3> QED
      BY <3>5, <3>8 DEF LimiterInv
  <2>7. \/ hits' = [hits EXCEPT ![a] = p] /\ served' = served
        \/ /\ ~(Len(p) >= Limit) /\ hits' = [hits EXCEPT ![a] = Append(p, now)]
           /\ served' = [served EXCEPT ![a] = [f EXCEPT ![now] = @ + 1]]
    BY <1>3, <2>1, <2>3 DEF Request, Refuses
  <2> QED
    BY <2>5, <2>6, <2>7
<1>4. CASE Tick
  <2>1. UNCHANGED <<hits, served>> /\ now' = now + 1 /\ now + 1 \in 0..MaxTime
    BY <1>1, <1>4, Bounds DEF Tick
  <2>2. \A a \in Callers: Tracks(hits[a], served[a], now + 1)
    BY <1>1, <2>1, TickTracks
  <2> QED
    BY <1>1, <2>1, <2>2 DEF LimiterInv
<1>5. CASE Restart
  <2>1. PICK f: f = [i \in 0..MaxTime |-> 0]
    OBVIOUS
  <2>2. now' = now /\ hits' = [a \in Callers |-> <<>>] /\ served' = [a \in Callers |-> f]
    BY <1>5, <2>1 DEF Restart
  <2>3. Tracks(<<>>, f, now) /\ f \in [0..MaxTime -> Nat]
    BY <1>1, <2>1, EmptyTracks DEF Tracks
  <2>4. \A a \in Callers: Tracks(hits'[a], served'[a], now')
    BY <2>2, <2>3
  <2> QED
    BY <2>2, <2>3, <2>4 DEF LimiterInv
<1>6. ASSUME NEW c, NEW k, NEW r, NEW t, NEW checks,
             \/ Register(c) \/ Authorize(c, r, k) \/ RecoveryFails(c, k) \/ InvalidGrant(c, k, checks)
             \/ Grant(c, k, t) \/ Expired(t) \/ Lose
      PROVE  LimiterInv'
  BY <1>2, <1>6 DEF Register, Authorize, RecoveryFails, InvalidGrant, Grant, Expired, Lose
<1>7. CASE UNCHANGED vars
  BY <1>2, <1>7 DEF vars
<1> QED
  BY <1>3, <1>4, <1>5, <1>6, <1>7 DEF Next

\* In no window, its ends included, are more than Limit requests of an address let through, and one is
\* refused only when the last window is full: what the deque has lost is never needed again.
THEOREM WindowsHold == Spec => []WindowExact
<1>1. Init => LimiterInv
  <2> SUFFICES ASSUME Init PROVE LimiterInv
    OBVIOUS
  <2>1. PICK f: f = [i \in 0..MaxTime |-> 0]
    OBVIOUS
  <2>2. now = 0 /\ hits = [a \in Callers |-> <<>>] /\ served = [a \in Callers |-> f]
    BY <2>1 DEF Init
  <2>3. now \in 0..MaxTime
    BY <2>2, Bounds
  <2>4. Tracks(<<>>, f, now) /\ f \in [0..MaxTime -> Nat]
    BY <2>1, <2>3, EmptyTracks DEF Tracks
  <2> QED
    BY <2>2, <2>4 DEF LimiterInv
<1> QED
  BY <1>1, InitHolds, StepKeeps, Limits, WindowFull, PTL DEF Spec
=============================================================================
