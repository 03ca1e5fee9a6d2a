------------------------------- MODULE Access -------------------------------
(***************************************************************************)
(* Who may call the tools: the authorization-code flow of oauth.py, the    *)
(* part of it that oauth_store.json keeps, and the check main.py makes of  *)
(* every request to /mcp, the bearer token first and then the sliding      *)
(* window of security.py.  All of it runs on the event loop, and after its *)
(* body is read a handler awaits nothing; so a handler is one action, and  *)
(* what can come between its steps is the end of the process or a failing  *)
(* disk.                                                                   *)
(***************************************************************************)
EXTENDS Naturals, Sequences, FiniteSets

CONSTANTS
    Base,          \* the client of the environment variables
    Clients,       \* the other client ids
    Codes, Tokens, \* random strings, used once
    Callers,       \* x-forwarded-for addresses
    CodeTTL, TokenTTL,
    Window, Limit, \* of the rate limiter
    MaxTime,       \* bound: the clock
    MaxLosses      \* bound: times the store becomes unreadable

ASSUME BaseAssumption == Base \notin Clients
ASSUME TimeAssumption == {CodeTTL, TokenTTL, Window, MaxTime, MaxLosses} \subseteq Nat
ASSUME LimitAssumption == Limit \in Nat \ {0}

VARIABLES
    now,
    clients,   \* _dynamic_clients: the redirect URIs of each
    codes,     \* _auth_codes
    tokens,    \* _tokens
    store,     \* oauth_store.json
    hits,      \* the limiter's deque of each address
    losses,
    \* History, read by the properties only.
    registered, \* client ids given out
    approved,  \* codes: what the person who gave the password was asked, and when
    grants,    \* tokens that were issued, for which code, when
    told,      \* what has been answered to clients since the store was last lost
    served     \* served[a][i]: requests of a let through at time i, in this life of the process

vars == <<now, clients, codes, tokens, store, hits, losses, registered, approved, grants, told, served>>

-----------------------------------------------------------------------------
\* A redirect URI is in ChatGPT's callback namespace, on localhost, or neither.
Redirects == {"chatgpt", "localhost", "site"}

None == [x \in {} |-> x]

With(f, x, v)  == [y \in DOMAIN f \cup {x} |-> IF y = x THEN v ELSE f[y]]
Without(f, x)  == [y \in DOMAIN f \ {x} |-> f[y]]
Live(f)        == [t \in {x \in DOMAIN f: f[x].expires >= now} |-> f[t]]

Init ==
    /\ now = 0
    /\ clients = None /\ codes = None /\ tokens = None
    /\ store = [readable |-> TRUE, tokens |-> None, clients |-> None]
    /\ hits = [a \in Callers |-> <<>>]
    /\ losses = 0
    /\ registered = {} /\ approved = None /\ grants = {}
    /\ told = [tokens |-> {}, clients |-> None]
    /\ served = [a \in Callers |-> [i \in 0..MaxTime |-> 0]]

OAuthUnchanged == UNCHANGED <<clients, codes, tokens, store, registered, approved, grants, told>>

-----------------------------------------------------------------------------
(* The store: written to a file beside it that then replaces it.           *)

Snapshot == [readable |-> TRUE, tokens |-> tokens, clients |-> clients]

Save == store' = Snapshot'

\* The write raises, before the replacement or, at the chmod, after it; or the process ends before
\* the answer is sent.  The client is told nothing.
SaveFails == store' \in {store, Snapshot'} /\ UNCHANGED told

-----------------------------------------------------------------------------
(* Registration and authorization.                                         *)

Known(c) == c = Base \/ c \in DOMAIN clients

Uris(c) == IF c = Base THEN {"site"} ELSE clients[c]

\* _verify_client: of a client it does not know it accepts ChatGPT's redirect, to recover it later.
Verified(c, r) == IF Known(c) THEN r = "localhost" \/ r \in Uris(c) ELSE r = "chatgpt"

\* secrets.token_urlsafe gives no client id a second time.
NewClient(c) == c \notin registered /\ \A k \in DOMAIN approved: approved[k].client # c

Register(c) ==
    /\ NewClient(c)
    /\ registered' = registered \cup {c}
    /\ \E r \in {"chatgpt", "site"}: clients' = With(clients, c, {r})
    /\ UNCHANGED <<now, codes, tokens, hits, losses, approved, grants, served>>
    /\ \/ Save /\ told' = [told EXCEPT !.clients = With(@, c, clients'[c])]
       \/ SaveFails

\* The password was right: a wrong one changes nothing.
Authorize(c, r, k) ==
    /\ Verified(c, r)
    /\ k \notin DOMAIN approved
    /\ codes' = With(codes, k, [client |-> c, redirect |-> r, expires |-> now + CodeTTL])
    /\ approved' = With(approved, k, [client |-> c, redirect |-> r, at |-> now])
    /\ UNCHANGED <<now, clients, tokens, store, hits, losses, registered, grants, told, served>>

-----------------------------------------------------------------------------
(* The exchange of a code for a token.                                     *)

\* A client that has a code but is unknown by now is taken for registered, if it names the redirect
\* the code was given for and that is ChatGPT's.
Recoverable(c, k) ==
    /\ ~Known(c)
    /\ k \in DOMAIN codes
    /\ codes[k].expires >= now /\ codes[k].client = c /\ codes[k].redirect = "chatgpt"

Recovers(c) == clients' = IF Known(c) THEN clients ELSE With(clients, c, {"chatgpt"})

\* The new record cannot be saved: it stays in memory, and so does the code.
RecoveryFails(c, k) ==
    /\ Recoverable(c, k)
    /\ Recovers(c)
    /\ UNCHANGED <<now, codes, tokens, hits, losses, registered, approved, grants, served>>
    /\ SaveFails

\* The client has shown its secret; without it nothing happens.
Authenticated(c, k) == Known(c) \/ Recoverable(c, k)

\* Mutant: the code is looked up, not taken.
SpendKept(k) == codes' = codes

\* _auth_codes.pop, before anything about the code is checked.
Spend(k) == codes' = Without(codes, k)

Honoured(c, k) == k \in DOMAIN codes /\ codes[k].expires >= now /\ codes[k].client = c

\* checks: whether code_verifier and resource are what the authorization said.
InvalidGrant(c, k, checks) ==
    /\ Authenticated(c, k)
    /\ ~(Honoured(c, k) /\ checks)
    /\ Recovers(c)
    /\ UNCHANGED <<now, tokens, hits, losses, registered, approved, grants, told, served>>
    /\ IF Known(c) THEN store' = store ELSE Save
    /\ Spend(k)

NewToken(t) == \A g \in grants: g.token # t

Grant(c, k, t) ==
    /\ Authenticated(c, k)
    /\ Honoured(c, k)
    /\ NewToken(t)
    /\ Recovers(c)
    /\ Spend(k)
    /\ tokens' = With(tokens, t, [client |-> c, expires |-> now + TokenTTL])
    /\ \/ Save /\ told' = [told EXCEPT !.tokens = @ \cup {t}]
       \/ IF Known(c) THEN SaveFails
          ELSE /\ store' \in {[store EXCEPT !.readable = TRUE, !.tokens = tokens, !.clients = clients'],
                              Snapshot'}
               /\ UNCHANGED told
    /\ grants' = grants \cup {[token |-> t, code |-> k, client |-> c, at |-> now]}
    /\ UNCHANGED <<now, hits, losses, registered, approved, served>>

-----------------------------------------------------------------------------
(* A request to /mcp: verify_token, then limiter.check.                    *)

Accepts(t) == t \in DOMAIN tokens /\ tokens[t].expires >= now

\* An expired token is forgotten, in the store too unless that fails.
Expired(t) ==
    /\ t \in DOMAIN tokens /\ ~Accepts(t)
    /\ tokens' = Without(tokens, t)
    /\ UNCHANGED <<now, clients, codes, hits, losses, registered, approved, grants, served>>
    /\ (Save /\ UNCHANGED told) \/ SaveFails

\* Mutant: a hit as old as the window is dropped.
PrunedEarly(q) ==
    SubSeq(q, 1 + Cardinality({i \in DOMAIN q: \A j \in 1..i: q[j] + Window <= now}), Len(q))

\* Hits leave the deque from the left, while the leftmost is older than the window.
Pruned(q) ==
    SubSeq(q, 1 + Cardinality({i \in DOMAIN q: \A j \in 1..i: q[j] + Window < now}), Len(q))

Refuses(a) == Len(Pruned(hits[a])) >= Limit

\* A caller past its limit gets 429, and the deque keeps what is left of it.
Request(t, a) ==
    /\ Accepts(t)
    /\ \/ /\ Refuses(a)
          /\ hits' = [hits EXCEPT ![a] = Pruned(@)]
          /\ served' = served
       \/ /\ ~Refuses(a)
          /\ hits' = [hits EXCEPT ![a] = Append(Pruned(@), now)]
          /\ served' = [served EXCEPT ![a][now] = @ + 1]
    /\ UNCHANGED <<now, losses>> /\ OAuthUnchanged

-----------------------------------------------------------------------------
(* Time, the disk, the process.                                            *)

Tick ==
    /\ now < MaxTime /\ now' = now + 1
    /\ UNCHANGED <<hits, losses, served>> /\ OAuthUnchanged

\* oauth_store.json becomes unreadable; the next save writes it anew.
Lose ==
    /\ losses < MaxLosses /\ losses' = losses + 1
    /\ store' = [store EXCEPT !.readable = FALSE]
    /\ UNCHANGED <<now, clients, codes, tokens, hits, registered, approved, grants, told, served>>

\* Mutant: a token that expires this very moment is not loaded.
LoadedStrictly ==
    IF store.readable
    THEN [tokens |-> [t \in {x \in DOMAIN store.tokens: store.tokens[x].expires > now} |-> store.tokens[t]],
          clients |-> store.clients]
    ELSE [tokens |-> None, clients |-> None]

\* _load_store, when the module is imported: an unreadable store must not keep the server down.
Loaded ==
    IF store.readable THEN [tokens |-> Live(store.tokens), clients |-> store.clients]
                      ELSE [tokens |-> None, clients |-> None]

Restart ==
    /\ tokens' = Loaded.tokens /\ clients' = Loaded.clients
    /\ codes' = None
    /\ hits' = [a \in Callers |-> <<>>]
    /\ served' = [a \in Callers |-> [i \in 0..MaxTime |-> 0]]
    /\ told' = IF store.readable THEN told ELSE [tokens |-> {}, clients |-> None]
    /\ UNCHANGED <<now, store, losses, registered, approved, grants>>

-----------------------------------------------------------------------------
Next ==
    \/ \E c \in Clients: Register(c)
    \/ \E c \in Clients \cup {Base}, k \in Codes:
          \/ \E r \in Redirects: Authorize(c, r, k)
          \/ RecoveryFails(c, k)
          \/ \E checks \in BOOLEAN: InvalidGrant(c, k, checks)
          \/ \E t \in Tokens: Grant(c, k, t)
    \/ \E t \in Tokens: Expired(t) \/ \E a \in Callers: Request(t, a)
    \/ Tick \/ Lose \/ Restart

Spec == Init /\ [][Next]_vars

-----------------------------------------------------------------------------
Everybody == Clients \cup {Base}
Approval == [client: Everybody, redirect: Redirects, at: 0..MaxTime]

ClientTables   == UNION {[C -> SUBSET Redirects]: C \in SUBSET Clients}
TokenTables    == UNION {[T -> [client: Everybody, expires: 0..(MaxTime + TokenTTL)]]: T \in SUBSET Tokens}
ApprovalTables == UNION {[K -> Approval]: K \in SUBSET Codes}

\* Types; and no deque is longer than the limit.
TypeOK ==
    /\ now \in 0..MaxTime /\ losses \in 0..MaxLosses
    /\ clients \in ClientTables /\ tokens \in TokenTables
    /\ store \in [readable: BOOLEAN, tokens: TokenTables, clients: ClientTables]
    /\ registered \subseteq Clients
    /\ approved \in ApprovalTables
    /\ grants \subseteq [token: Tokens, code: Codes, client: Everybody, at: 0..MaxTime]
    /\ told \in [tokens: SUBSET Tokens, clients: ClientTables]
    /\ hits \in [Callers -> Seq(0..MaxTime)]
    /\ \A a \in Callers: Len(hits[a]) <= Limit

\* A code is what was approved, and is not yet spent.
CodesApproved ==
    /\ \A k \in DOMAIN codes:
          /\ k \in DOMAIN approved /\ approved[k].at <= now
          /\ codes[k] = [client |-> approved[k].client, redirect |-> approved[k].redirect,
                         expires |-> approved[k].at + CodeTTL]
    /\ \A g \in grants: g.code \notin DOMAIN codes

\* A token stands for one approval: of its code, for its client, no longer ago than a code is valid;
\* no two tokens stand for the same.  Neither a refused attempt, a recovered client, a save that
\* failed nor a restart gives a second token for a code.
GrantsApproved ==
    /\ \A g \in grants:
          /\ g.code \in DOMAIN approved
          /\ approved[g.code].client = g.client
          /\ g.at \in approved[g.code].at .. approved[g.code].at + CodeTTL
    /\ \A g, h \in grants: g.code = h.code => g = h

\* A client nobody registered is known only if the password was given for it, with ChatGPT's
\* redirect.
ClientsApproved ==
    \A c \in (DOMAIN clients \cup DOMAIN store.clients) \ registered:
        \E k \in DOMAIN approved: approved[k].client = c /\ approved[k].redirect = "chatgpt"

\* A token that is accepted, or would be after a restart, was granted, and lasts as long as was said.
Granted(f) ==
    \A t \in DOMAIN f: \E g \in grants: g.token = t /\ f[t] = [client |-> g.client, expires |-> g.at + TokenTTL]

TokensGranted ==
    /\ Granted(tokens) /\ Granted(store.tokens)
    /\ \A g, h \in grants: g.token = h.token => g = h

\* Only what was given is told.
ToldGranted ==
    /\ told.tokens \subseteq {g.token: g \in grants}
    /\ DOMAIN told.clients \subseteq registered

AccessInv ==
    TypeOK /\ CodesApproved /\ GrantsApproved /\ ClientsApproved /\ TokensGranted /\ ToldGranted

\* What a client has been told stays so, whatever is saved, fails to be saved or is restarted: its
\* token is accepted until it expires and not after, its registration is there; and the store, unless
\* it is lost, would give them back.
ToldStands ==
    /\ \A g \in grants:
          g.token \in told.tokens =>
             /\ Accepts(g.token) <=> g.at + TokenTTL >= now
             /\ store.readable /\ g.at + TokenTTL >= now => g.token \in DOMAIN store.tokens
    /\ \A c \in DOMAIN told.clients:
          /\ c \in DOMAIN clients /\ clients[c] = told.clients[c]
          /\ store.readable => c \in DOMAIN store.clients /\ store.clients[c] = told.clients[c]

\* Sum of the requests of a let through from time i to time j.
Through(a, i, j) ==
    LET at == [m \in i..j |-> {<<m, n>>: n \in 1..served[a][m]}]
    IN  Cardinality(UNION {at[m]: m \in i..j})

\* In no window, both of its ends included, are more than Limit requests of an address let through;
\* and one is refused only when the last window is full.
WindowExact ==
    \A a \in Callers:
        /\ \A i \in 0..MaxTime: i + Window <= MaxTime => Through(a, i, i + Window) <= Limit
        /\ Refuses(a) <=> Through(a, IF now > Window THEN now - Window ELSE 0, now) >= Limit
=============================================================================
