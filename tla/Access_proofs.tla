---------------------------- MODULE Access_proofs ----------------------------
(***************************************************************************)
(* What Access promises for every number of accounts, workspaces, tokens   *)
(* and requests, and for every mix of events.                              *)
(***************************************************************************)
EXTENDS Access, FiniteSetTheorems, TLAPS

-----------------------------------------------------------------------------
(* What is so of every row and of every request *)

\* A row is in an open cooperative, or is not there.
UserKnown(u) ==
  IF Exists(u) THEN user[u].coop \in Coops /\ coop[user[u].coop].open ELSE user[u] = NoUser

CoopKnown(c) ==
  coop[c].open \/ (coop[c].org = Nothing /\ coop[c].paid_by = Nothing /\ c \notin founded)

TokenKnown(t) ==
  /\ token[t].state # "none" => token[t].user \in Users /\ Exists(token[t].user)
  /\ token[t].state = "rotated" => t \in exchanged

\* What a request at a place has read.
RequestKnown(q) ==
  /\ q.at # "idle" => q.by \in Users
  /\ q.at \notin {"idle", "opening"} => Exists(q.by)
  /\ q.at = "opening" => q.on \in Checkouts \cup {Nothing}
  /\ q.at \in {"adding", "inviting"} => q.on \in Users /\ q.want.role # "keep"
  /\ q.at \in {"waiting", "deciding"} => q.on \in Users /\ Exists(q.on)
  /\ q.at \in {"adding", "inviting", "waiting", "deciding", "founding", "switching"} =>
       q.seat \in Coops /\ coop[q.seat].open
  /\ q.at \in {"exchanging", "retiring", "revoking", "ending"} => q.on \in Tokens /\ ~Unused(q.on)
  /\ q.at = "revoking" => q.on \in exchanged
  /\ q.at = "switching" => q.on \in Coops /\ coop[q.on].open

RowsKnown ==
  /\ \A u \in Users : UserKnown(u)
  /\ \A c \in Coops : CoopKnown(c)
  /\ \A t \in Tokens : TokenKnown(t)

RequestsKnown == \A r \in Requests : RequestKnown(req[r])

Known == TypeOK /\ RowsKnown /\ RequestsKnown

\* Accounts and workspaces stay, and so does what is remembered of them.
Grows ==
  /\ \A u \in Users : Exists(u) => Exists(u)'
  /\ \A c \in Coops : coop[c].open => coop'[c].open
  /\ \A t \in Tokens : Unused(t)' => Unused(t)
  /\ founded \subseteq founded' /\ left \subseteq left' /\ exchanged \subseteq exchanged'

\* A request that arrives is the only thing that changes.
Arrived(r, q) ==
  /\ req[r].at = "idle"
  /\ req' = [req EXCEPT ![r] = q]
  /\ UNCHANGED <<user, coop, checkout, token, founded, left, exchanged, env>>

RequestRow == [at : Places, by : Users \cup {Nothing}, on : Subjects,
               seat : Coops \cup {Nothing}, want : Change]

\* What it has just read is so.
Fresh(q) ==
  /\ q.at # "deciding"
  /\ q.at = "opening" /\ q.on \in Checkouts => checkout[q.on] = "paid" /\ ~CheckoutLocked(q.on)
  /\ q.at \in {"founding", "switching"} => user[q.by].coop = q.seat
  /\ q.at = "switching" => user[q.by].org # Nothing /\ coop[q.on].org = user[q.by].org
  /\ q.at \in {"session", "exchanging", "changing", "switching"} => user[q.by].active

LEMMA ArrivesKnown ==
  ASSUME Known, NEW r \in Requests, Arrives(r)
  PROVE  \E q \in RequestRow : Arrived(r, q) /\ RequestKnown(q) /\ Fresh(q)
<1>0. TypeOK /\ RowsKnown
  BY DEF Known
<1>1. Keep \in Change /\ (\A role \in {"admin", "staff"} : [Keep EXCEPT !.role = role] \in Change)
      /\ Changes \subseteq Change
  BY ChangesAssumption DEF Keep, Change
<1>2. ASSUME NEW u \in Users, NEW k \in Checkouts \cup {Nothing}, Signup(r, u, k)
      PROVE \E q \in RequestRow : Arrived(r, q) /\ RequestKnown(q) /\ Fresh(q)
  <2> DEFINE q == [at |-> "opening", by |-> u, on |-> k, seat |-> Nothing, want |-> Keep]
  <2>1. q \in RequestRow /\ RequestKnown(q) /\ Fresh(q)
    BY <1>1, <1>2, NothingAssumption DEF RequestRow, RequestKnown, Fresh, Signup, Places, Subjects
  <2>2. Arrived(r, q)
    BY <1>2 DEF Signup, Arrived, Enter, Free, Unchanged
  <2>3. QED
    BY <2>1, <2>2
<1>3. ASSUME NEW u \in Users, NEW v \in Users, NEW place \in {"adding", "inviting"},
             NEW role \in {"admin", "staff"}, Add(r, u, v, place, role)
      PROVE \E q \in RequestRow : Arrived(r, q) /\ RequestKnown(q) /\ Fresh(q)
  <2> DEFINE q == [at |-> place, by |-> u, on |-> v, seat |-> user[u].coop, want |-> [Keep EXCEPT !.role = role]]
  <2>1. user[u].coop \in Coops /\ coop[user[u].coop].open /\ Exists(u)
    BY <1>0, <1>3 DEF Add, Admin, SignedIn, RowsKnown, UserKnown
  <2>2. q \in RequestRow /\ RequestKnown(q) /\ Fresh(q)
    BY <1>1, <2>1 DEF RequestRow, RequestKnown, Fresh, Places, Subjects, Keep
  <2>3. Arrived(r, q)
    BY <1>3 DEF Add, Arrived, Enter, Free, Unchanged
  <2>4. QED
    BY <2>2, <2>3
<1>4. ASSUME NEW u \in Users, NEW v \in Users, NEW w \in Changes, UpdateUser(r, u, v, w)
      PROVE \E q \in RequestRow : Arrived(r, q) /\ RequestKnown(q) /\ Fresh(q)
  <2> DEFINE q == [at |-> "waiting", by |-> u, on |-> v, seat |-> user[u].coop, want |-> w]
  <2>1. user[u].coop \in Coops /\ coop[user[u].coop].open /\ Exists(u) /\ Exists(v)
    BY <1>0, <1>4 DEF UpdateUser, Admin, SignedIn, RowsKnown, UserKnown
  <2>2. q \in RequestRow /\ RequestKnown(q) /\ Fresh(q)
    BY <1>1, <2>1 DEF RequestRow, RequestKnown, Fresh, Places, Subjects
  <2>3. Arrived(r, q)
    BY <1>4 DEF UpdateUser, Arrived, Enter, Free, Unchanged
  <2>4. QED
    BY <2>2, <2>3
<1>5. ASSUME NEW u \in Users, AcceptInvite(r, u) \/ Login(r, u) \/ PasswordReset(r, u) \/ ChangePassword(r, u)
      PROVE \E q \in RequestRow : Arrived(r, q) /\ RequestKnown(q) /\ Fresh(q)
  <2> DEFINE q(place) == [at |-> place, by |-> u, on |-> Nothing, seat |-> Nothing, want |-> Keep]
  <2>1. Exists(u)
    BY <1>0, <1>5 DEF AcceptInvite, Login, PasswordReset, ChangePassword, RowsKnown, UserKnown, NoUser
  <2>2. \A place \in {"accepting", "session", "resetting", "changing"} :
          q(place) \in RequestRow /\ RequestKnown(q(place))
    BY <1>1, <2>1 DEF RequestRow, RequestKnown, Places, Subjects
  <2>3. \E place \in {"accepting", "session", "resetting", "changing"} : Arrived(r, q(place)) /\ Fresh(q(place))
    BY <1>5 DEF AcceptInvite, Login, PasswordReset, ChangePassword, Fresh, Arrived, Enter, Free, Unchanged
  <2>4. QED
    BY <2>2, <2>3
<1>6. ASSUME NEW u \in Users, CreateOrganization(r, u)
      PROVE \E q \in RequestRow : Arrived(r, q) /\ RequestKnown(q) /\ Fresh(q)
  <2> DEFINE q == [at |-> "founding", by |-> u, on |-> Nothing, seat |-> user[u].coop, want |-> Keep]
  <2>1. user[u].coop \in Coops /\ coop[user[u].coop].open /\ Exists(u)
    BY <1>0, <1>6 DEF CreateOrganization, Admin, SignedIn, RowsKnown, UserKnown
  <2>2. q \in RequestRow /\ RequestKnown(q) /\ Fresh(q)
    BY <1>1, <2>1 DEF RequestRow, RequestKnown, Fresh, Places, Subjects
  <2>3. Arrived(r, q)
    BY <1>6 DEF CreateOrganization, Arrived, Enter, Free, Unchanged
  <2>4. QED
    BY <2>2, <2>3
<1>7. ASSUME NEW u \in Users, NEW c \in Coops, SwitchActiveCooperative(r, u, c)
      PROVE \E q \in RequestRow : Arrived(r, q) /\ RequestKnown(q) /\ Fresh(q)
  <2> DEFINE q == [at |-> "switching", by |-> u, on |-> c, seat |-> user[u].coop, want |-> Keep]
  <2>1. user[u].coop \in Coops /\ coop[user[u].coop].open /\ Exists(u) /\ coop[c].open
        /\ user[u].active /\ user[u].org # Nothing /\ coop[c].org = user[u].org
    BY <1>0, <1>7 DEF SwitchActiveCooperative, SignedIn, RowsKnown, UserKnown, CoopKnown
  <2>2. q \in RequestRow /\ RequestKnown(q) /\ Fresh(q)
    BY <1>1, <2>1 DEF RequestRow, RequestKnown, Fresh, Places, Subjects
  <2>3. Arrived(r, q)
    BY <1>7 DEF SwitchActiveCooperative, Arrived, Enter, Free, Unchanged
  <2>4. QED
    BY <2>2, <2>3
<1>8. ASSUME NEW t \in Tokens, Refresh(r, t) \/ Logout(r, t)
      PROVE \E q \in RequestRow : Arrived(r, q) /\ RequestKnown(q) /\ Fresh(q)
  <2> DEFINE q(place) == [at |-> place, by |-> token[t].user, on |-> t, seat |-> Nothing, want |-> Keep]
  <2>1. token[t].user \in Users /\ Exists(token[t].user) /\ ~Unused(t)
    BY <1>0, <1>8 DEF Refresh, Logout, RowsKnown, TokenKnown, Unused
  <2>2. \A place \in {"exchanging", "retiring", "ending"} : q(place) \in RequestRow /\ RequestKnown(q(place))
    BY <1>1, <2>1 DEF RequestRow, RequestKnown, Places, Subjects
  <2>3. t \in exchanged => q("revoking") \in RequestRow /\ RequestKnown(q("revoking"))
    BY <1>1, <2>1 DEF RequestRow, RequestKnown, Places, Subjects
  <2>4. \/ \E place \in {"exchanging", "retiring", "ending"} : Arrived(r, q(place)) /\ Fresh(q(place))
        \/ token[t].state = "rotated" /\ Arrived(r, q("revoking")) /\ Fresh(q("revoking"))
    BY <1>8 DEF Fresh, Refresh, Logout, Arrived, Enter, Free, Unchanged
  <2>5. token[t].state = "rotated" => t \in exchanged
    BY <1>0 DEF RowsKnown, TokenKnown
  <2>6. QED
    BY <2>2, <2>3, <2>4, <2>5
<1>9. QED
  BY <1>2, <1>3, <1>4, <1>5, <1>6, <1>7, <1>8 DEF Arrives, Register, InviteUser

\* Requests that are done, or stay where they are, know what they knew.
LEMMA RequestsStay ==
  ASSUME RequestsKnown, Grows, req \in [Requests -> RequestRow],
         \A p \in Requests : req'[p] = req[p] \/ req'[p] = Idle \/ RequestKnown(req[p])'
  PROVE  RequestsKnown'
<1>1. RequestKnown(Idle)'
  BY DEF RequestKnown, Idle
<1>2. ASSUME NEW p \in Requests PROVE RequestKnown(req[p])'
  <2>1. CASE req'[p] = req[p]
    <3>1. RequestKnown(req[p])
      BY DEF RequestsKnown
    <3>2. req[p].by \in Users \cup {Nothing}
      BY DEF RequestRow
    <3>3. QED
      BY <2>1, <3>1, <3>2 DEF RequestKnown, Grows
  <2>2. CASE req'[p] = Idle
    BY <1>1, <2>2 DEF RequestKnown
  <2>3. QED
    BY <2>1, <2>2
<1>3. QED
  BY <1>2 DEF RequestsKnown

LEMMA KnownInit == Init => Known
  BY NothingAssumption DEF Init, Known, TypeOK, RowsKnown, RequestsKnown, UserKnown, CoopKnown, TokenKnown,
     RequestKnown, Exists, UserRow, NoUser, CoopRow, CheckoutStatus, TokenRow, Idle, Places, Subjects,
     Keep, Change

\* One lemma for each step that writes: what is known stays known.
\* A sign-up that is taken back, or that opens its workspace.
LEMMA SignupCommitKnown ==
  ASSUME Known, NEW r \in Requests, NEW c \in Coops, SignupCommit(r, c)
  PROVE  Known' /\ Grows
<1>0. /\ TypeOK /\ RowsKnown /\ RequestsKnown
  BY DEF Known
<1>1. /\ req[r].at = "opening" /\ req[r].by \in Users /\ req[r].on \in Checkouts \cup {Nothing}
      /\ ~coop[c].open
  BY <1>0 DEF SignupCommit, RequestsKnown, RequestKnown, Unopened
<1> DEFINE u == req[r].by
           k == req[r].on
           idle == [req EXCEPT ![r] = Idle]
           signed == [req EXCEPT ![r] = [at |-> "session", by |-> u, on |-> Nothing, seat |-> Nothing, want |-> Keep]]
<1>2. /\ Idle \in RequestRow
      /\ [at |-> "session", by |-> u, on |-> Nothing, seat |-> Nothing, want |-> Keep] \in RequestRow
  BY <1>1 DEF RequestRow, Idle, Places, Subjects, Keep, Change
<1>3. CASE Exists(u)
  <2>1. req' = idle /\ UNCHANGED <<user, coop, checkout, token, founded, left, exchanged, env>>
    BY <1>3 DEF SignupCommit, Leave
  <2>2. TypeOK'
    BY <1>0, <1>2, <2>1 DEF TypeOK, RequestRow
  <2>3. Grows
    BY <2>1 DEF Grows, Exists, Unused
  <2>4. RowsKnown'
    BY <1>0, <2>1 DEF RowsKnown, UserKnown, CoopKnown, TokenKnown, Exists
  <2>5. \A p \in Requests : req'[p] = req[p] \/ req'[p] = Idle
    BY <1>0, <2>1 DEF TypeOK
  <2>6. RequestsKnown'
    BY <1>0, <2>3, <2>5, RequestsStay DEF TypeOK, RequestRow
  <2>7. QED
    BY <2>2, <2>3, <2>4, <2>6 DEF Known
<1>4. CASE ~Exists(u)
  <2> DEFINE row == [NewUser EXCEPT !.role = "admin", !.coop = c, !.password = TRUE]
             opened == [open |-> TRUE, org |-> Nothing, paid_by |-> k]
  <2>1. /\ user' = [user EXCEPT ![u] = row] /\ coop' = [coop EXCEPT ![c] = opened]
        /\ checkout' = IF k = Nothing THEN checkout ELSE [checkout EXCEPT ![k] = "consumed"]
        /\ founded' = founded \cup {c} /\ req' = signed /\ UNCHANGED <<token, left, exchanged, env>>
    BY <1>4 DEF SignupCommit, Enter
  <2>2. row \in UserRow /\ row.role = "admin" /\ row.coop = c /\ opened \in CoopRow /\ opened.open
    BY <1>1 DEF UserRow, NewUser, NoUser, CoopRow
  <2>3. /\ user' \in [Users -> UserRow] /\ coop' \in [Coops -> CoopRow]
        /\ checkout' \in [Checkouts -> CheckoutStatus]
    BY <1>0, <1>1, <2>1, <2>2 DEF TypeOK, CheckoutStatus
  <2>4. TypeOK'
    BY <1>0, <1>2, <2>1, <2>3 DEF TypeOK, RequestRow
  <2>5. Grows
    BY <1>0, <1>1, <2>1, <2>2 DEF Grows, Exists, TypeOK, Unused
  <2>6. RowsKnown'
    <3>1. ASSUME NEW v \in Users PROVE UserKnown(v)'
      BY <1>0, <1>1, <2>1, <2>2, <2>5 DEF TypeOK, RowsKnown, UserKnown, Exists, Grows
    <3>2. ASSUME NEW d \in Coops PROVE CoopKnown(d)'
      BY <1>0, <1>1, <2>1, <2>2 DEF TypeOK, RowsKnown, CoopKnown
    <3>3. ASSUME NEW t \in Tokens PROVE TokenKnown(t)'
      BY <1>0, <2>1, <2>5 DEF RowsKnown, TokenKnown, Grows
    <3>4. QED
      BY <3>1, <3>2, <3>3 DEF RowsKnown
  <2>7. ASSUME NEW p \in Requests PROVE req'[p] = req[p] \/ RequestKnown(req[p])'
    <3>1. Exists(u)'
      BY <1>0, <1>1, <2>1, <2>2 DEF Exists, TypeOK
    <3>2. p = r => req'[p] = [at |-> "session", by |-> u, on |-> Nothing, seat |-> Nothing, want |-> Keep]
      BY <1>0, <2>1 DEF TypeOK
    <3>3. p = r => RequestKnown(req[p])'
      BY <1>1, <3>1, <3>2 DEF RequestKnown, Exists
    <3>4. QED
      BY <1>0, <2>1, <3>3 DEF TypeOK
  <2>8. RequestsKnown'
    BY <1>0, <2>5, <2>7, RequestsStay DEF TypeOK, RequestRow
  <2>9. QED
    BY <2>4, <2>5, <2>6, <2>8 DEF Known
<1>5. QED
  BY <1>3, <1>4

\* Requests after one of them is done.
LEMMA LeaveKnown ==
  ASSUME Known, Grows, NEW r \in Requests, Leave(r)
  PROVE  RequestsKnown' /\ req' \in [Requests -> RequestRow]
<1>1. req \in [Requests -> RequestRow] /\ RequestsKnown
  BY DEF Known, TypeOK, RequestRow
<1>2. Idle \in RequestRow
  BY DEF RequestRow, Idle, Places, Subjects, Keep, Change
<1>3. \A p \in Requests : req'[p] = req[p] \/ req'[p] = Idle
  BY <1>1 DEF Leave
<1>4. QED
  BY <1>1, <1>2, <1>3, RequestsStay DEF Leave

\* Steps that write only tokens, and of people what says nothing of where they
\* are: every token that changes is ended, or issued to somebody who is there,
\* or is remembered as exchanged.
LEMMA TokensKnown ==
  ASSUME Known, token' \in [Tokens -> TokenRow], user' \in [Users -> UserRow],
         UNCHANGED <<coop, checkout, founded, left, env>>, exchanged' \subseteq Tokens, exchanged \subseteq exchanged',
         \A u \in Users : user'[u] = user[u] \/ (Exists(u) /\ user'[u].role # "none" /\ user'[u].coop = user[u].coop),
         \A t \in Tokens : \/ token'[t] = token[t]
                           \/ token'[t].user \in Users /\ Exists(token'[t].user) /\ token'[t].state \in {"live", "ended"}
                           \/ token'[t].user = token[t].user /\ token[t].state # "none" /\ token'[t].state = "rotated" /\ t \in exchanged'
                           \/ token'[t].user = token[t].user /\ token[t].state # "none" /\ token'[t].state \in {"live", "ended"}
  PROVE  Grows /\ RowsKnown' /\ (req' \in [Requests -> RequestRow] => TypeOK')
<1>0. TypeOK /\ RowsKnown
  BY DEF Known
<1>1. Grows
  BY <1>0 DEF Grows, Exists, Unused
<1>2. ASSUME NEW u \in Users PROVE UserKnown(u)'
  BY <1>0 DEF RowsKnown, UserKnown, Exists
<1>3. ASSUME NEW c \in Coops PROVE CoopKnown(c)'
  BY <1>0 DEF RowsKnown, CoopKnown
<1>4. ASSUME NEW t \in Tokens PROVE TokenKnown(t)'
  BY <1>0, <1>1 DEF RowsKnown, TokenKnown, Grows
<1>5. req' \in [Requests -> RequestRow] => TypeOK'
  BY <1>0 DEF TypeOK, RequestRow
<1>6. QED
  BY <1>1, <1>2, <1>3, <1>4, <1>5 DEF RowsKnown

LEMMA RevokedRows ==
  ASSUME TypeOK, NEW u \in Users
  PROVE  /\ Revoked(u) \in [Tokens -> TokenRow]
         /\ \A t \in Tokens : \/ Revoked(u)[t] = token[t]
                              \/ /\ token[t] = [user |-> u, state |-> "live"]
                                 /\ Revoked(u)[t] = [user |-> u, state |-> "ended"]
         /\ \A t \in Tokens : Revoked(u)[t] # [user |-> u, state |-> "live"]
<1>1. \A t \in Tokens : token[t] \in TokenRow
  BY DEF TypeOK
<1>2. \A t \in Tokens : t \in Live(u) => Revoked(u)[t] = [user |-> u, state |-> "ended"]
  BY <1>1 DEF Revoked, Live, TokenRow
<1>3. \A t \in Tokens : t \notin Live(u) => Revoked(u)[t] = token[t]
  BY DEF Revoked
<1>4. \A t \in Tokens : t \in Live(u) <=> token[t] = [user |-> u, state |-> "live"]
  BY DEF Live
<1>5. \A t \in Tokens : [user |-> u, state |-> "ended"] # [user |-> u, state |-> "live"]
                        /\ [user |-> u, state |-> "ended"] \in TokenRow
  BY DEF TokenRow
<1>6. \A t \in Tokens : Revoked(u)[t] \in TokenRow
  BY <1>1, <1>2, <1>3, <1>5
<1>7. Revoked(u) \in [Tokens -> TokenRow]
  BY <1>6 DEF Revoked
<1>8. QED
  BY <1>2, <1>3, <1>4, <1>5, <1>7

LEMMA IssueSessionKnown ==
  ASSUME Known, NEW r \in Requests, NEW t \in Tokens, IssueSession(r, t)
  PROVE  Known' /\ Grows
<1>0. TypeOK /\ RequestKnown(req[r]) /\ Leave(r)
  BY DEF Known, RequestsKnown, IssueSession
<1>1. req[r].by \in Users /\ Exists(req[r].by) /\ token' = [token EXCEPT ![t] = [user |-> req[r].by, state |-> "live"]]
  BY <1>0 DEF RequestKnown, IssueSession, Issue
<1>2. token' \in [Tokens -> TokenRow] /\ UNCHANGED <<user, coop, checkout, founded, left, exchanged, env>>
  BY <1>0, <1>1 DEF TypeOK, TokenRow, IssueSession, Unchanged
<1>3. Grows /\ RowsKnown' /\ (req' \in [Requests -> RequestRow] => TypeOK')
  BY <1>0, <1>1, <1>2, TokensKnown DEF TypeOK
<1>4. QED
  BY <1>0, <1>3, LeaveKnown DEF Known

LEMMA ExchangeCommitKnown ==
  ASSUME Known, NEW r \in Requests, NEW t \in Tokens, ExchangeCommit(r, t)
  PROVE  Known' /\ Grows
<1>0. TypeOK /\ RequestKnown(req[r]) /\ Leave(r)
  BY DEF Known, RequestsKnown, ExchangeCommit
<1> DEFINE old == req[r].on
<1>1. req[r].by \in Users /\ Exists(req[r].by) /\ old \in Tokens /\ ~Unused(old)
  BY <1>0 DEF RequestKnown, ExchangeCommit
<1>2. /\ token' = [[token EXCEPT ![old].state = "rotated"] EXCEPT ![t] = [user |-> req[r].by, state |-> "live"]]
      /\ exchanged' = exchanged \cup {old} /\ UNCHANGED <<user, coop, checkout, founded, left, env>>
  BY DEF ExchangeCommit, Issue
<1>3. token' \in [Tokens -> TokenRow]
  BY <1>0, <1>1, <1>2 DEF TypeOK, TokenRow
<1>4. \A s \in Tokens : \/ token'[s] = token[s]
                        \/ token'[s] = [user |-> req[r].by, state |-> "live"]
                        \/ s = old /\ token'[s].user = token[s].user /\ token'[s].state = "rotated"
  BY <1>0, <1>1, <1>2 DEF TypeOK, TokenRow
<1>5. old \in exchanged' /\ exchanged' \subseteq Tokens
  BY <1>0, <1>1, <1>2 DEF TypeOK
<1>6. Grows /\ RowsKnown' /\ (req' \in [Requests -> RequestRow] => TypeOK')
  BY <1>0, <1>1, <1>2, <1>3, <1>4, <1>5, TokensKnown DEF TypeOK, Unused
<1>7. QED
  BY <1>0, <1>6, LeaveKnown DEF Known

LEMMA EndCommitKnown ==
  ASSUME Known, NEW r \in Requests, EndCommit(r)
  PROVE  Known' /\ Grows
<1>0. TypeOK /\ RequestKnown(req[r]) /\ Leave(r)
  BY DEF Known, RequestsKnown, EndCommit
<1> DEFINE old == req[r].on
<1>1. old \in Tokens /\ ~Unused(old)
  BY <1>0 DEF RequestKnown, EndCommit
<1>2. token' = End(old) /\ UNCHANGED <<user, coop, checkout, founded, left, exchanged, env>>
  BY DEF EndCommit, Unchanged
<1>3. token' \in [Tokens -> TokenRow]
  BY <1>0, <1>1, <1>2 DEF TypeOK, TokenRow, End
<1>4. \A s \in Tokens : \/ token'[s] = token[s]
                        \/ s = old /\ token'[s].user = token[s].user /\ token'[s].state = "ended"
  BY <1>0, <1>1, <1>2 DEF TypeOK, TokenRow, End
<1>5. Grows /\ RowsKnown' /\ (req' \in [Requests -> RequestRow] => TypeOK')
  BY <1>0, <1>1, <1>2, <1>3, <1>4, TokensKnown DEF TypeOK, Unused
<1>6. QED
  BY <1>0, <1>5, LeaveKnown DEF Known

\* A step that ends every session of one user, and may change his links and password.
LEMMA RevokedKnown ==
  ASSUME Known, NEW u \in Users, Exists(u), UNCHANGED <<coop, checkout, founded, left, exchanged, env>>,
         user' \in [Users -> UserRow],
         \A v \in Users : user'[v] = user[v] \/ (Exists(v) /\ user'[v].role # "none" /\ user'[v].coop = user[v].coop),
         \/ token' = Revoked(u)
         \/ \E t \in Tokens : token' = [Revoked(u) EXCEPT ![t] = [user |-> u, state |-> "live"]]
  PROVE  Grows /\ RowsKnown' /\ (req' \in [Requests -> RequestRow] => TypeOK')
<1>0. TypeOK
  BY DEF Known
<1>1. /\ [user |-> u, state |-> "live"] \in TokenRow
      /\ Revoked(u) \in [Tokens -> TokenRow]
      /\ \A t \in Tokens : \/ Revoked(u)[t] = token[t]
                           \/ /\ token[t] = [user |-> u, state |-> "live"]
                              /\ Revoked(u)[t] = [user |-> u, state |-> "ended"]
  BY <1>0, RevokedRows DEF TokenRow
<1>2. token' \in [Tokens -> TokenRow]
  BY <1>1
<1>3. \A t \in Tokens : \/ token'[t] = token[t]
                        \/ token'[t].user \in Users /\ Exists(token'[t].user) /\ token'[t].state \in {"live", "ended"}
  BY <1>1
<1>4. exchanged' \subseteq Tokens
  BY <1>0 DEF TypeOK
<1>5. QED
  BY <1>2, <1>3, <1>4, TokensKnown

LEMMA RevokeCommitKnown ==
  ASSUME Known, NEW r \in Requests, RevokeCommit(r)
  PROVE  Known' /\ Grows
<1>0. TypeOK /\ RequestKnown(req[r]) /\ Leave(r)
  BY DEF Known, RequestsKnown, RevokeCommit
<1>1. req[r].by \in Users /\ Exists(req[r].by)
  BY <1>0 DEF RequestKnown, RevokeCommit
<1>2. token' = Revoked(req[r].by) /\ UNCHANGED <<user, coop, checkout, founded, left, exchanged, env>>
  BY DEF RevokeCommit, Unchanged
<1>3. Grows /\ RowsKnown' /\ (req' \in [Requests -> RequestRow] => TypeOK')
  BY <1>0, <1>1, <1>2, RevokedKnown DEF TypeOK
<1>4. QED
  BY <1>0, <1>3, LeaveKnown DEF Known

LEMMA LogoutAllKnown ==
  ASSUME Known, NEW u \in Users, LogoutAll(u)
  PROVE  Known' /\ Grows
<1>0. TypeOK /\ RequestsKnown /\ req \in [Requests -> RequestRow]
  BY DEF Known, TypeOK, RequestRow
<1>1. token' = Revoked(u) /\ Exists(u) /\ UNCHANGED <<user, coop, checkout, req, founded, left, exchanged, env>>
  BY DEF LogoutAll, Unchanged
<1>2. Grows /\ RowsKnown' /\ (req' \in [Requests -> RequestRow] => TypeOK')
  BY <1>0, <1>1, RevokedKnown DEF TypeOK
<1>3. RequestsKnown'
  BY <1>0, <1>1, <1>2, RequestsStay
<1>4. QED
  BY <1>0, <1>1, <1>2, <1>3 DEF Known

\* What a password or a link writes leaves a person where he is.
LEMMA LinksRow ==
  ASSUME user \in [Users -> UserRow], NEW u \in Users,
         \/ user' = [user EXCEPT ![u].password = TRUE, ![u].must_change = FALSE, ![u].reset = FALSE]
         \/ user' = [user EXCEPT ![u].password = TRUE, ![u].invite = FALSE, ![u].must_change = FALSE]
         \/ user' = [user EXCEPT ![u].invite = FALSE, ![u].reset = FALSE]
         \/ user' = [user EXCEPT ![u].must_change = FALSE]
         \/ user' = [user EXCEPT ![u].reset = TRUE]
  PROVE  /\ user' \in [Users -> UserRow]
         /\ \A v \in Users : v # u => user'[v] = user[v]
         /\ \A v \in Users : /\ user'[v].role = user[v].role /\ user'[v].coop = user[v].coop
                             /\ user'[v].org = user[v].org /\ user'[v].active = user[v].active
<1>1. user[u] \in UserRow
  OBVIOUS
<1>2. \E row \in UserRow : /\ user' = [user EXCEPT ![u] = row] /\ row.role = user[u].role /\ row.coop = user[u].coop
                           /\ row.org = user[u].org /\ row.active = user[u].active
  <2>1. CASE user' = [user EXCEPT ![u].password = TRUE, ![u].must_change = FALSE, ![u].reset = FALSE]
    <3> DEFINE row == [user[u] EXCEPT !.password = TRUE, !.must_change = FALSE, !.reset = FALSE]
    <3>1. row \in UserRow
      BY <1>1 DEF UserRow
    <3>2. user' = [user EXCEPT ![u] = row]
      BY <2>1
    <3>3. row.role = user[u].role /\ row.coop = user[u].coop /\ row.org = user[u].org /\ row.active = user[u].active
      BY <1>1 DEF UserRow
    <3>4. QED
      BY <3>1, <3>2, <3>3
  <2>2. CASE user' = [user EXCEPT ![u].password = TRUE, ![u].invite = FALSE, ![u].must_change = FALSE]
    <3> DEFINE row == [user[u] EXCEPT !.password = TRUE, !.invite = FALSE, !.must_change = FALSE]
    <3>1. row \in UserRow
      BY <1>1 DEF UserRow
    <3>2. user' = [user EXCEPT ![u] = row]
      BY <2>2
    <3>3. row.role = user[u].role /\ row.coop = user[u].coop /\ row.org = user[u].org /\ row.active = user[u].active
      BY <1>1 DEF UserRow
    <3>4. QED
      BY <3>1, <3>2, <3>3
  <2>3. CASE user' = [user EXCEPT ![u].invite = FALSE, ![u].reset = FALSE]
    <3> DEFINE row == [user[u] EXCEPT !.invite = FALSE, !.reset = FALSE]
    <3>1. row \in UserRow
      BY <1>1 DEF UserRow
    <3>2. user' = [user EXCEPT ![u] = row]
      BY <2>3
    <3>3. row.role = user[u].role /\ row.coop = user[u].coop /\ row.org = user[u].org /\ row.active = user[u].active
      BY <1>1 DEF UserRow
    <3>4. QED
      BY <3>1, <3>2, <3>3
  <2>4. CASE user' = [user EXCEPT ![u].must_change = FALSE]
    <3> DEFINE row == [user[u] EXCEPT !.must_change = FALSE]
    <3>1. row \in UserRow
      BY <1>1 DEF UserRow
    <3>2. user' = [user EXCEPT ![u] = row]
      BY <2>4
    <3>3. row.role = user[u].role /\ row.coop = user[u].coop /\ row.org = user[u].org /\ row.active = user[u].active
      BY <1>1 DEF UserRow
    <3>4. QED
      BY <3>1, <3>2, <3>3
  <2>5. CASE user' = [user EXCEPT ![u].reset = TRUE]
    <3> DEFINE row == [user[u] EXCEPT !.reset = TRUE]
    <3>1. row \in UserRow
      BY <1>1 DEF UserRow
    <3>2. user' = [user EXCEPT ![u] = row]
      BY <2>5
    <3>3. row.role = user[u].role /\ row.coop = user[u].coop /\ row.org = user[u].org /\ row.active = user[u].active
      BY <1>1 DEF UserRow
    <3>4. QED
      BY <3>1, <3>2, <3>3
  <2>6. QED
    BY <2>1, <2>2, <2>3, <2>4, <2>5
<1>3. QED
  BY <1>2

LEMMA PasswordCommitKnown ==
  ASSUME Known, NEW r \in Requests, NEW t \in Tokens, PasswordCommit(r, t)
  PROVE  Known' /\ Grows
<1>0. TypeOK /\ RequestKnown(req[r]) /\ Leave(r)
  BY DEF Known, RequestsKnown, PasswordCommit
<1> DEFINE u == req[r].by
<1>1. u \in Users /\ Exists(u)
  BY <1>0 DEF RequestKnown, PasswordCommit
<1>2. /\ \/ token' = Revoked(u)
         \/ token' = [Revoked(u) EXCEPT ![t] = [user |-> u, state |-> "live"]]
      /\ \/ user' = [user EXCEPT ![u].password = TRUE, ![u].must_change = FALSE, ![u].reset = FALSE]
         \/ user' = [user EXCEPT ![u].must_change = FALSE]
      /\ UNCHANGED <<coop, checkout, founded, left, exchanged, env>>
  BY DEF PasswordCommit, Unchanged, Issue
<1>3. /\ user' \in [Users -> UserRow]
      /\ \A v \in Users : user'[v].role = user[v].role /\ user'[v].coop = user[v].coop /\ (v # u => user'[v] = user[v])
  BY <1>0, <1>1, <1>2, LinksRow DEF TypeOK
<1>4. \A v \in Users : user'[v] = user[v] \/ (Exists(v) /\ user'[v].role # "none" /\ user'[v].coop = user[v].coop)
  BY <1>1, <1>3 DEF Exists
<1>5. Grows /\ RowsKnown' /\ (req' \in [Requests -> RequestRow] => TypeOK')
  BY <1>1, <1>2, <1>3, <1>4, RevokedKnown
<1>6. QED
  BY <1>0, <1>5, LeaveKnown DEF Known

LEMMA ExpireKnown ==
  ASSUME Known, Expire
  PROVE  Known' /\ Grows
<1>0. TypeOK /\ RowsKnown /\ RequestsKnown /\ req \in [Requests -> RequestRow]
  BY DEF Known, TypeOK, RequestRow
<1>1. UNCHANGED <<coop, checkout, req, founded, left, exchanged, env>>
  BY DEF Expire, Unchanged
<1>2. /\ user' \in [Users -> UserRow]
      /\ \A v \in Users : user'[v] = user[v] \/ (Exists(v) /\ user'[v].role # "none" /\ user'[v].coop = user[v].coop)
  <2>1. CASE UNCHANGED user
    BY <1>0, <2>1 DEF TypeOK
  <2>2. ASSUME NEW u \in Users, user[u].invite \/ user[u].reset,
               user' = [user EXCEPT ![u].invite = FALSE, ![u].reset = FALSE]
        PROVE  /\ user' \in [Users -> UserRow]
               /\ \A v \in Users : user'[v] = user[v] \/ (Exists(v) /\ user'[v].role # "none" /\ user'[v].coop = user[v].coop)
    <3>1. Exists(u)
      BY <1>0, <2>2 DEF RowsKnown, UserKnown, NoUser
    <3>2. QED
      BY <1>0, <2>2, <3>1, LinksRow DEF TypeOK, Exists
  <2>3. QED
    BY <2>1, <2>2 DEF Expire
<1>3. /\ token' \in [Tokens -> TokenRow]
      /\ \A t \in Tokens : \/ token'[t] = token[t]
                           \/ token'[t].user = token[t].user /\ token[t].state # "none" /\ token'[t].state = "ended"
  <2>1. CASE UNCHANGED token
    BY <1>0, <2>1 DEF TypeOK
  <2>2. ASSUME NEW t \in Tokens, token[t].state = "live", token' = [token EXCEPT ![t].state = "ended"]
        PROVE  /\ token' \in [Tokens -> TokenRow]
               /\ \A s \in Tokens : token'[s] = token[s] \/ s = t
               /\ token'[t].user = token[t].user /\ token'[t].state = "ended"
    BY <1>0, <2>2 DEF TypeOK, TokenRow
  <2>3. QED
    BY <2>1, <2>2 DEF Expire
<1>4. Grows /\ RowsKnown' /\ (req' \in [Requests -> RequestRow] => TypeOK')
  BY <1>0, <1>1, <1>2, <1>3, TokensKnown DEF TypeOK
<1>5. RequestsKnown'
  BY <1>0, <1>1, <1>4, RequestsStay
<1>6. QED
  BY <1>0, <1>1, <1>4, <1>5 DEF Known

\* Steps that write people, each to be in an open cooperative, and cooperatives,
\* each to be open.
LEMMA PeopleKnown ==
  ASSUME Known, UNCHANGED <<token, checkout, founded, exchanged, env>>,
         user' \in [Users -> UserRow], coop' \in [Coops -> CoopRow], left \subseteq left', left' \subseteq Coops,
         \A u \in Users : \/ user'[u] = user[u]
                          \/ /\ user'[u].role # "none" /\ user'[u].coop \in Coops
                             /\ coop[user'[u].coop].open,
         \A c \in Coops : coop'[c] = coop[c] \/ coop'[c].open
  PROVE  Grows /\ RowsKnown' /\ (req' \in [Requests -> RequestRow] => TypeOK')
<1>0. TypeOK /\ RowsKnown
  BY DEF Known
<1>1. Grows
  BY DEF Grows, Exists, Unused
<1>2. ASSUME NEW u \in Users PROVE UserKnown(u)'
  BY <1>0 DEF RowsKnown, UserKnown, Exists
<1>3. ASSUME NEW c \in Coops PROVE CoopKnown(c)'
  BY <1>0 DEF RowsKnown, CoopKnown
<1>4. ASSUME NEW t \in Tokens PROVE TokenKnown(t)'
  BY <1>0, <1>1 DEF RowsKnown, TokenKnown, Grows
<1>5. req' \in [Requests -> RequestRow] => TypeOK'
  BY <1>0 DEF TypeOK, RequestRow
<1>6. QED
  BY <1>1, <1>2, <1>3, <1>4, <1>5 DEF RowsKnown

LEMMA AddCommitKnown ==
  ASSUME Known, NEW r \in Requests, AddCommit(r)
  PROVE  Known' /\ Grows
<1>0. TypeOK /\ RequestKnown(req[r]) /\ Leave(r) /\ req[r].want \in Change
  BY DEF Known, RequestsKnown, AddCommit, TypeOK
<1> DEFINE v == req[r].on
           invited == req[r].at = "inviting"
           row == [NewUser EXCEPT !.role = req[r].want.role, !.coop = req[r].seat,
                                  !.password = ~invited, !.must_change = TRUE, !.invite = invited]
<1>1. v \in Users /\ req[r].want.role \in {"admin", "staff"} /\ req[r].seat \in Coops /\ coop[req[r].seat].open
  BY <1>0 DEF RequestKnown, AddCommit, Change
<1>2. user' = (IF Exists(v) THEN user ELSE [user EXCEPT ![v] = row])
      /\ UNCHANGED <<coop, checkout, token, founded, left, exchanged, env>>
  BY DEF AddCommit, Unchanged
<1>3. row \in UserRow /\ row.role # "none" /\ row.coop = req[r].seat
  BY <1>1 DEF UserRow, NewUser, NoUser
<1>4. /\ user' \in [Users -> UserRow]
      /\ \A u \in Users : user'[u] = user[u] \/ user'[u] = row
  BY <1>0, <1>1, <1>2, <1>3 DEF TypeOK
<1>5. Grows /\ RowsKnown' /\ (req' \in [Requests -> RequestRow] => TypeOK')
  BY <1>0, <1>1, <1>2, <1>3, <1>4, PeopleKnown DEF TypeOK
<1>6. QED
  BY <1>0, <1>5, LeaveKnown DEF Known

\* A step in which a person takes a password or a link.
LEMMA LinksKnown ==
  ASSUME Known, NEW u \in Users, Exists(u), UNCHANGED <<coop, checkout, token, founded, left, exchanged, env>>,
         \/ user' = [user EXCEPT ![u].password = TRUE, ![u].invite = FALSE, ![u].must_change = FALSE]
         \/ user' = [user EXCEPT ![u].reset = TRUE]
  PROVE  Grows /\ RowsKnown' /\ (req' \in [Requests -> RequestRow] => TypeOK')
<1>0. TypeOK /\ RowsKnown
  BY DEF Known
<1>1. /\ user' \in [Users -> UserRow]
      /\ \A v \in Users : v # u => user'[v] = user[v]
      /\ user'[u].role = user[u].role /\ user'[u].coop = user[u].coop
  BY <1>0, LinksRow DEF TypeOK
<1>2. \A v \in Users : \/ user'[v] = user[v]
                       \/ user'[v].role # "none" /\ user'[v].coop \in Coops /\ coop[user'[v].coop].open
  BY <1>0, <1>1 DEF Exists, RowsKnown, UserKnown
<1>3. QED
  BY <1>0, <1>1, <1>2, PeopleKnown DEF TypeOK

LEMMA AcceptCommitKnown ==
  ASSUME Known, NEW r \in Requests, AcceptCommit(r)
  PROVE  Known' /\ Grows
<1>0. RequestKnown(req[r]) /\ Leave(r)
  BY DEF Known, RequestsKnown, AcceptCommit
<1>1. req[r].by \in Users /\ Exists(req[r].by)
  BY <1>0 DEF RequestKnown, AcceptCommit
<1>2. Grows /\ RowsKnown' /\ (req' \in [Requests -> RequestRow] => TypeOK')
  BY <1>1, LinksKnown DEF AcceptCommit, Unchanged
<1>3. QED
  BY <1>0, <1>2, LeaveKnown DEF Known

LEMMA PasswordResetRequestKnown ==
  ASSUME Known, NEW u \in Users, PasswordResetRequest(u)
  PROVE  Known' /\ Grows
<1>0. RequestsKnown /\ req \in [Requests -> RequestRow]
  BY DEF Known, TypeOK, RequestRow
<1>1. UNCHANGED req /\ Grows /\ RowsKnown' /\ (req' \in [Requests -> RequestRow] => TypeOK')
  BY LinksKnown DEF PasswordResetRequest, Unchanged
<1>2. RequestsKnown'
  BY <1>0, <1>1, RequestsStay
<1>3. QED
  BY <1>0, <1>1, <1>2 DEF Known

\* What update_user writes: the role and the activity of the subject only.
LEMMA UpdateRow ==
  ASSUME TypeOK, NEW r \in Requests, UpdateCommit(r), req[r].on \in Users
  PROVE  LET v == req[r].on
             w == req[r].want
             own == v = req[r].by
         IN  /\ user' \in [Users -> UserRow]
             /\ \A x \in Users : x # v => user'[x] = user[x]
             /\ \A x \in Users : user'[x].coop = user[x].coop /\ user'[x].org = user[x].org
             /\ user'[v].role = IF w.role = "keep" \/ (own /\ w.role = "admin") THEN user[v].role ELSE w.role
             /\ user'[v].active = IF w.active = "keep" \/ own THEN user[v].active ELSE w.active = "on"
<1> DEFINE v == req[r].on
           w == req[r].want
           own == v = req[r].by
           role == IF w.role = "keep" \/ (own /\ w.role = "admin") THEN user[v].role ELSE w.role
           active == IF w.active = "keep" \/ own THEN user[v].active ELSE w.active = "on"
           row == [user[v] EXCEPT !.role = role, !.active = active]
<1>1. user[v] \in UserRow /\ w.role \in {"keep", "admin", "staff"} /\ user \in [Users -> UserRow]
  BY DEF TypeOK, Change
<1>2. role \in {"none", "admin", "staff"} /\ active \in BOOLEAN
  BY <1>1 DEF UserRow
<1>3. /\ row \in UserRow /\ row.role = role /\ row.active = active
      /\ row.coop = user[v].coop /\ row.org = user[v].org
  <2> HIDE DEF role, active
  <2> QED
    BY <1>1, <1>2 DEF UserRow
<1>4. user' = [user EXCEPT ![v].role = role, ![v].active = active]
  BY <1>1 DEF UpdateCommit
<1>5. user' = [user EXCEPT ![v] = row]
  <2> HIDE DEF role, active
  <2> QED
    BY <1>1, <1>4
<1>6. QED
  <2> HIDE DEF row
  <2>1. /\ user' \in [Users -> UserRow] /\ user'[v] = row
        /\ \A x \in Users : x # v => user'[x] = user[x]
    BY <1>1, <1>3, <1>5
  <2>2. QED
    BY <1>3, <2>1

LEMMA UpdateCommitKnown ==
  ASSUME Known, NEW r \in Requests, UpdateCommit(r)
  PROVE  Known' /\ Grows
<1>0. TypeOK /\ RowsKnown /\ RequestKnown(req[r]) /\ Leave(r)
  BY DEF Known, RequestsKnown, UpdateCommit
<1> DEFINE v == req[r].on
<1>1. v \in Users /\ Exists(v)
  BY <1>0 DEF RequestKnown, UpdateCommit
<1>2. /\ user' \in [Users -> UserRow]
      /\ \A x \in Users : x # v => user'[x] = user[x]
      /\ user'[v].coop = user[v].coop
      /\ user'[v].role = user[v].role \/ user'[v].role \in {"admin", "staff"}
  BY <1>0, <1>1, UpdateRow DEF TypeOK, Change
<1>3. token' = Revoked(v) \/ UNCHANGED token
  BY DEF UpdateCommit
<1>4. UNCHANGED <<coop, checkout, founded, left, exchanged, env>>
  BY DEF UpdateCommit, Unchanged
<1>5. /\ token' \in [Tokens -> TokenRow]
      /\ \A t \in Tokens : \/ token'[t] = token[t]
                           \/ token'[t] = [user |-> v, state |-> "ended"]
  BY <1>0, <1>1, <1>3, RevokedRows DEF TypeOK
<1>6. \A x \in Users : user'[x] = user[x] \/ (Exists(x) /\ user'[x].role # "none" /\ user'[x].coop = user[x].coop)
  BY <1>1, <1>2 DEF Exists
<1>7. Grows /\ RowsKnown' /\ (req' \in [Requests -> RequestRow] => TypeOK')
  BY <1>0, <1>1, <1>2, <1>4, <1>5, <1>6, TokensKnown DEF TypeOK
<1>8. QED
  BY <1>0, <1>7, LeaveKnown DEF Known

LEMMA OrganizationCommitKnown ==
  ASSUME Known, NEW r \in Requests, NEW o \in Orgs, OrganizationCommit(r, o)
  PROVE  Known' /\ Grows
<1>0. TypeOK /\ RowsKnown /\ RequestKnown(req[r]) /\ Leave(r)
  BY DEF Known, RequestsKnown, OrganizationCommit
<1> DEFINE u == req[r].by
           c == req[r].seat
<1>1. u \in Users /\ Exists(u) /\ c \in Coops /\ coop[c].open
  BY <1>0 DEF RequestKnown, OrganizationCommit
<1>2. /\ user' = [user EXCEPT ![u].org = o] /\ coop' = [coop EXCEPT ![c].org = o]
      /\ UNCHANGED <<checkout, token, founded, left, exchanged, env>>
  BY DEF OrganizationCommit, Unchanged
<1>3. /\ user' \in [Users -> UserRow] /\ user'[u].role = user[u].role /\ user'[u].coop = user[u].coop
      /\ \A v \in Users : v # u => user'[v] = user[v]
  BY <1>0, <1>1, <1>2 DEF TypeOK, UserRow
<1>4. /\ coop' \in [Coops -> CoopRow] /\ coop'[c].open
      /\ \A d \in Coops : d # c => coop'[d] = coop[d]
  BY <1>0, <1>1, <1>2 DEF TypeOK, CoopRow
<1>5. user[u].coop \in Coops /\ coop[user[u].coop].open /\ user[u].role # "none"
  BY <1>0, <1>1 DEF Exists, RowsKnown, UserKnown
<1>6. Grows /\ RowsKnown' /\ (req' \in [Requests -> RequestRow] => TypeOK')
  BY <1>0, <1>2, <1>3, <1>4, <1>5, PeopleKnown DEF TypeOK
<1>7. QED
  BY <1>0, <1>6, LeaveKnown DEF Known

LEMMA CreateOrganizationCooperativeKnown ==
  ASSUME Known, NEW u \in Users, NEW c \in Coops, CreateOrganizationCooperative(u, c)
  PROVE  Known' /\ Grows
<1>0. TypeOK /\ RowsKnown /\ RequestsKnown /\ req \in [Requests -> RequestRow]
  BY DEF Known, TypeOK, RequestRow
<1>1. /\ coop' = [coop EXCEPT ![c] = [open |-> TRUE, org |-> user[u].org, paid_by |-> Nothing]]
      /\ UNCHANGED <<user, checkout, token, req, founded, left, exchanged, env>>
  BY DEF CreateOrganizationCooperative, Unchanged
<1>2. user[u].org \in Orgs \cup {Nothing}
  BY <1>0 DEF TypeOK, UserRow
<1>3. /\ coop' \in [Coops -> CoopRow]
      /\ \A d \in Coops : coop'[d] = coop[d] \/ coop'[d].open
  BY <1>0, <1>1, <1>2 DEF TypeOK, CoopRow
<1>4. Grows /\ RowsKnown' /\ (req' \in [Requests -> RequestRow] => TypeOK')
  BY <1>0, <1>1, <1>3, PeopleKnown DEF TypeOK
<1>5. RequestsKnown'
  BY <1>0, <1>1, <1>4, RequestsStay
<1>6. QED
  BY <1>0, <1>1, <1>4, <1>5 DEF Known

LEMMA SwitchCommitKnown ==
  ASSUME Known, NEW r \in Requests, SwitchCommit(r)
  PROVE  Known' /\ Grows
<1>0. TypeOK /\ RowsKnown /\ RequestsKnown /\ RequestKnown(req[r]) /\ req \in [Requests -> RequestRow]
  BY DEF Known, RequestsKnown, TypeOK, RequestRow
<1> DEFINE u == req[r].by
           c == req[r].on
           signed == [at |-> "session", by |-> u, on |-> Nothing, seat |-> Nothing, want |-> Keep]
<1>1. u \in Users /\ Exists(u) /\ c \in Coops /\ coop[c].open
  BY <1>0 DEF RequestKnown, SwitchCommit
<1>2. /\ UNCHANGED <<user, left>> \/ (user' = [user EXCEPT ![u].coop = c] /\ left' = left \cup {user[u].coop})
      /\ req' = [req EXCEPT ![r] = signed]
      /\ UNCHANGED <<coop, checkout, token, founded, exchanged, env>>
  BY DEF SwitchCommit, Enter
<1>3. user[u].coop \in Coops /\ user[u].role # "none"
  BY <1>0, <1>1 DEF Exists, RowsKnown, UserKnown
<1>4. /\ user' \in [Users -> UserRow] /\ left \subseteq left' /\ left' \subseteq Coops
      /\ \A v \in Users : \/ user'[v] = user[v]
                          \/ user'[v].role # "none" /\ user'[v].coop = c
  BY <1>0, <1>1, <1>2, <1>3 DEF TypeOK, UserRow
<1>5. Grows /\ RowsKnown' /\ (req' \in [Requests -> RequestRow] => TypeOK')
  BY <1>0, <1>1, <1>2, <1>4, PeopleKnown DEF TypeOK
<1>6. signed \in RequestRow
  BY <1>1 DEF RequestRow, Places, Subjects, Keep, Change
<1>7. req'[r] = signed /\ RequestKnown(req[r])'
  BY <1>0, <1>1, <1>2, <1>5 DEF RequestKnown, Grows, Exists
<1>8. \A p \in Requests : req'[p] = req[p] \/ RequestKnown(req[p])'
  BY <1>0, <1>2, <1>7
<1>9. RequestsKnown'
  BY <1>0, <1>5, <1>8, RequestsStay
<1>10. QED
  BY <1>0, <1>2, <1>5, <1>6, <1>9 DEF Known

LEMMA UpdateLockKnown ==
  ASSUME Known, NEW r \in Requests, UpdateLock(r)
  PROVE  Known' /\ Grows
<1>0. TypeOK /\ RowsKnown /\ RequestsKnown /\ RequestKnown(req[r]) /\ req \in [Requests -> RequestRow]
  BY DEF Known, RequestsKnown, TypeOK, RequestRow
<1>1. /\ req[r].at = "waiting" /\ UNCHANGED <<user, coop, checkout, token, founded, left, exchanged, env>>
      /\ req' = [req EXCEPT ![r] = Idle] \/ req' = [req EXCEPT ![r].at = "deciding"]
  BY DEF UpdateLock, Leave, Unchanged
<1>2. Grows /\ RowsKnown' /\ (req' \in [Requests -> RequestRow] => TypeOK')
  BY <1>0, <1>1, PeopleKnown DEF TypeOK
<1>3. Idle \in RequestRow /\ [req[r] EXCEPT !.at = "deciding"] \in RequestRow
  BY <1>0 DEF RequestRow, Idle, Places, Subjects, Keep, Change
<1>4. req'[r] = Idle \/ RequestKnown(req[r])'
  <2>1. \/ req'[r] = Idle
        \/ /\ req'[r].at = "deciding" /\ req'[r].by = req[r].by
           /\ req'[r].on = req[r].on /\ req'[r].seat = req[r].seat
    BY <1>0, <1>1 DEF RequestRow
  <2>2. QED
    BY <1>0, <1>1, <2>1 DEF RequestKnown, Exists
<1>5. req' \in [Requests -> RequestRow] /\ \A p \in Requests : p # r => req'[p] = req[p]
  BY <1>0, <1>1, <1>3
<1>6. RequestsKnown'
  BY <1>0, <1>2, <1>4, <1>5, RequestsStay
<1>7. QED
  BY <1>2, <1>5, <1>6 DEF Known

\* What the provider tells of a checkout.
LEMMA CheckoutKnown ==
  ASSUME Known, UNCHANGED <<user, coop, token, req, founded, left, exchanged, env>>,
         checkout' \in [Checkouts -> CheckoutStatus]
  PROVE  Known' /\ Grows
<1>1. RequestsKnown /\ req \in [Requests -> RequestRow] /\ Grows
  BY DEF Known, TypeOK, RequestRow, Grows, Exists, Unused
<1>2. RequestsKnown'
  BY <1>1, RequestsStay
<1>3. RowsKnown'
  BY DEF Known, RowsKnown, UserKnown, CoopKnown, TokenKnown, Exists
<1>4. TypeOK'
  BY DEF Known, TypeOK
<1>5. QED
  BY <1>1, <1>2, <1>3, <1>4 DEF Known

\* A request that arrives, or that dies.
LEMMA RequestChanges ==
  ASSUME Known, NEW r \in Requests, UNCHANGED <<user, coop, checkout, token, founded, left, exchanged, env>>,
         NEW q \in RequestRow, RequestKnown(q), req' = [req EXCEPT ![r] = q]
  PROVE  Known' /\ Grows
<1>1. RequestsKnown /\ req \in [Requests -> RequestRow] /\ Grows
  BY DEF Known, TypeOK, RequestRow, Grows, Exists, Unused
<1>2. req' \in [Requests -> RequestRow] /\ \A p \in Requests : req'[p] = req[p] \/ req'[p] = q
  BY <1>1
<1>3. RequestKnown(q) => \A p \in Requests : req'[p] = q => RequestKnown(req[p])'
  BY DEF RequestKnown, Exists, Unused
<1>4. RequestsKnown'
  BY <1>1, <1>2, <1>3, RequestsStay
<1>5. RowsKnown'
  BY DEF Known, RowsKnown, UserKnown, CoopKnown, TokenKnown, Exists
<1>6. TypeOK'
  BY <1>2 DEF Known, TypeOK, RequestRow
<1>7. QED
  BY <1>1, <1>4, <1>5, <1>6 DEF Known

LEMMA KnownStep == ASSUME Known, [Next]_vars PROVE Known' /\ Grows
<1>0. TypeOK
  BY DEF Known
<1>1. ASSUME NEW k \in Checkouts, PreCheckout(k) \/ ProcessPreCheckout(k) PROVE Known' /\ Grows
  <2>1. checkout' \in [Checkouts -> CheckoutStatus]
    BY <1>0, <1>1 DEF PreCheckout, ProcessPreCheckout, TypeOK, CheckoutStatus
  <2>2. QED
    BY <1>1, <2>1, CheckoutKnown DEF PreCheckout, ProcessPreCheckout, Unchanged
<1>2. ASSUME NEW r \in Requests, Arrives(r) PROVE Known' /\ Grows
  BY <1>2, ArrivesKnown, RequestChanges DEF Arrived
<1>3. ASSUME NEW r \in Requests, Crash(r) PROVE Known' /\ Grows
  <2>1. Idle \in RequestRow /\ RequestKnown(Idle)
    BY DEF RequestRow, Idle, Places, Subjects, Keep, Change, RequestKnown
  <2>2. QED
    BY <1>3, <2>1, RequestChanges DEF Crash, Leave, Unchanged
<1>4. ASSUME NEW r \in Requests, Proceeds(r) PROVE Known' /\ Grows
  BY <1>4, SignupCommitKnown, IssueSessionKnown, ExchangeCommitKnown, PasswordCommitKnown,
     OrganizationCommitKnown, AddCommitKnown, AcceptCommitKnown, UpdateLockKnown, UpdateCommitKnown,
     EndCommitKnown, RevokeCommitKnown, SwitchCommitKnown DEF Proceeds
<1>5. CASE UNCHANGED vars
  <2>1. checkout' \in [Checkouts -> CheckoutStatus]
    BY <1>0, <1>5 DEF vars, TypeOK
  <2>2. QED
    BY <1>5, <2>1, CheckoutKnown DEF vars
<1>6. QED
  BY <1>1, <1>2, <1>3, <1>4, <1>5, LogoutAllKnown, PasswordResetRequestKnown,
     CreateOrganizationCooperativeKnown, ExpireKnown DEF Next

\* Every row of people, cooperatives and tokens, and every request, has the
\* values the columns and the handlers give it; accounts are in open
\* cooperatives, and a request names people, tokens and places that are there.
THEOREM AccessKnown == Spec => []Known
<1>1. Init => Known
  BY KnownInit
<1>2. Known /\ [Next]_vars => Known'
  BY KnownStep
<1>3. QED
  BY <1>1, <1>2, PTL DEF Spec

THEOREM AccessTypes == Spec => []TypeOK
<1>1. Known => TypeOK
  BY DEF Known
<1>2. QED
  BY <1>1, AccessKnown, PTL

\* Only the replay of a token for which a successor was handed out ends a
\* user's other sessions.
THEOREM ReplayIsOfExchanged == Spec => ReplayNeedsSuccessor
<1>1. Known => \A r \in Requests : req[r].at = "revoking" => req[r].on \in exchanged
  BY DEF Known, RequestsKnown, RequestKnown
<1>2. QED
  BY <1>1, AccessKnown, PTL DEF ReplayNeedsSuccessor

-----------------------------------------------------------------------------
(* A paid checkout opens one workspace *)

\* The status a sign-up under way has read is still that of its checkout, which
\* no other sign-up uses; a consumed checkout is that of one workspace.
Paid ==
  /\ \A r \in Requests : req[r].at = "opening" /\ req[r].on \in Checkouts => checkout[req[r].on] = "paid"
  /\ \A r, q \in Requests : /\ req[r].at = "opening" /\ req[q].at = "opening"
                            /\ req[r].on = req[q].on /\ req[r].on \in Checkouts
                            => r = q
  /\ \A k \in Checkouts : checkout[k] = "consumed" <=> \E c \in Coops : coop[c].paid_by = k
  /\ \A c, d \in Coops : coop[c].paid_by = coop[d].paid_by /\ coop[c].paid_by \in Checkouts => c = d

\* Steps that are not about checkouts.
LEMMA PaidStays ==
  ASSUME Paid, UNCHANGED checkout, \A c \in Coops : coop'[c].paid_by = coop[c].paid_by,
         \A r \in Requests : req'[r].at = "opening" => req'[r] = req[r]
  PROVE  Paid'
  BY DEF Paid

LEMMA SignupCommitPaid ==
  ASSUME Known, Paid, NEW r \in Requests, NEW c \in Coops, SignupCommit(r, c)
  PROVE  Paid'
<1>0. TypeOK /\ RowsKnown /\ RequestKnown(req[r])
  BY DEF Known, RequestsKnown
<1> DEFINE k == req[r].on
<1>1. /\ req[r].at = "opening" /\ k \in Checkouts \cup {Nothing} /\ c \notin founded /\ coop[c].paid_by = Nothing
  BY <1>0 DEF SignupCommit, RequestKnown, Unopened, RowsKnown, CoopKnown
<1>2. \A q \in Requests : q # r => req'[q] = req[q]
  BY <1>0 DEF SignupCommit, Enter, Leave, TypeOK
<1>3. req'[r].at # "opening"
  BY <1>0 DEF SignupCommit, Enter, Leave, TypeOK, Idle
<1>4. CASE Exists(req[r].by)
  BY <1>2, <1>3, <1>4, PaidStays DEF SignupCommit
<1>5. CASE ~Exists(req[r].by)
  <2>1. /\ checkout' = IF k = Nothing THEN checkout ELSE [checkout EXCEPT ![k] = "consumed"]
        /\ coop'[c].paid_by = k /\ \A d \in Coops : d # c => coop'[d] = coop[d]
    BY <1>0, <1>5 DEF SignupCommit, TypeOK
  <2>2. CASE k = Nothing
    <3>1. \A d \in Coops : coop'[d].paid_by = coop[d].paid_by
      BY <1>1, <2>1, <2>2
    <3>2. QED
      BY <1>2, <1>3, <2>1, <2>2, <3>1, PaidStays
  <2>3. CASE k \in Checkouts
    <3>1. checkout[k] = "paid" /\ \A d \in Coops : coop[d].paid_by # k
      BY <1>1, <2>3 DEF Paid
    <3>2. checkout'[k] = "consumed" /\ \A j \in Checkouts : j # k => checkout'[j] = checkout[j]
      BY <1>0, <2>1, <2>3, NothingAssumption DEF TypeOK
    <3>3. \A q \in Requests : q # r /\ req[q].at = "opening" => req[q].on # k
      BY <1>1, <2>3 DEF Paid
    <3>4. \A q \in Requests : req'[q].at = "opening" /\ req'[q].on \in Checkouts =>
            q # r /\ req'[q] = req[q] /\ checkout'[req'[q].on] = "paid"
      BY <1>2, <1>3, <3>2, <3>3 DEF Paid
    <3>5. \A p, q \in Requests : /\ req'[p].at = "opening" /\ req'[q].at = "opening"
                                 /\ req'[p].on = req'[q].on /\ req'[p].on \in Checkouts
                                 => p = q
      BY <3>4 DEF Paid
    <3>6. \A j \in Checkouts : checkout'[j] = "consumed" <=> \E d \in Coops : coop'[d].paid_by = j
      BY <1>1, <2>1, <2>3, <3>2, NothingAssumption DEF Paid
    <3>7. \A d, e \in Coops : coop'[d].paid_by = coop'[e].paid_by /\ coop'[d].paid_by \in Checkouts => d = e
      BY <2>1, <3>1 DEF Paid
    <3>8. QED
      BY <3>4, <3>5, <3>6, <3>7 DEF Paid
  <2>4. QED
    BY <1>1, <2>2, <2>3
<1>6. QED
  BY <1>4, <1>5

LEMMA ArrivesPaid ==
  ASSUME Known, Paid, NEW r \in Requests, Arrives(r)
  PROVE  Paid'
<1>1. PICK q \in RequestRow : Arrived(r, q) /\ RequestKnown(q) /\ Fresh(q)
  BY ArrivesKnown
<1>2. /\ req'[r] = q /\ \A p \in Requests : p # r => req'[p] = req[p]
      /\ UNCHANGED <<coop, checkout>>
  BY <1>1 DEF Arrived, Known, TypeOK
<1>3. CASE q.at # "opening"
  BY <1>2, <1>3, PaidStays
<1>4. CASE q.at = "opening" /\ q.on \in Checkouts
  <2>1. checkout[q.on] = "paid" /\ \A p \in Requests : req[p].at = "opening" => req[p].on # q.on
    BY <1>1, <1>4 DEF Fresh, CheckoutLocked
  <2>2. QED
    BY <1>2, <2>1 DEF Paid
<1>5. CASE q.at = "opening" /\ q.on \notin Checkouts
  BY <1>2, <1>5 DEF Paid
<1>6. QED
  BY <1>3, <1>4, <1>5

LEMMA PaidStep == ASSUME Known, Paid, [Next]_vars PROVE Paid'
<1>0. TypeOK /\ RowsKnown /\ req \in [Requests -> RequestRow] /\ RequestsKnown
  BY DEF Known, TypeOK, RequestRow
<1>1. ASSUME NEW k \in Checkouts, PreCheckout(k) PROVE Paid'
  <2>1. /\ checkout[k] = "none" /\ checkout'[k] = "pending" /\ \A j \in Checkouts : j # k => checkout'[j] = checkout[j]
        /\ UNCHANGED <<coop, req>>
    BY <1>0, <1>1 DEF PreCheckout, Unchanged, TypeOK
  <2>2. QED
    BY <2>1 DEF Paid
<1>2. ASSUME NEW k \in Checkouts, ProcessPreCheckout(k) PROVE Paid'
  <2>1. /\ checkout[k] = "pending" /\ checkout'[k] = "paid" /\ \A j \in Checkouts : j # k => checkout'[j] = checkout[j]
        /\ UNCHANGED <<coop, req>>
    BY <1>0, <1>2 DEF ProcessPreCheckout, Unchanged, TypeOK
  <2>2. QED
    BY <2>1 DEF Paid
<1>3. ASSUME NEW u \in Users, NEW c \in Coops, CreateOrganizationCooperative(u, c) PROVE Paid'
  <2>1. coop[c].paid_by = Nothing
    BY <1>0, <1>3 DEF CreateOrganizationCooperative, Unopened, RowsKnown, CoopKnown
  <2>2. UNCHANGED <<checkout, req>> /\ \A d \in Coops : coop'[d].paid_by = coop[d].paid_by
    BY <1>0, <1>3, <2>1 DEF CreateOrganizationCooperative, Unchanged, TypeOK
  <2>3. QED
    BY <2>2, PaidStays
<1>4. ASSUME NEW u \in Users, LogoutAll(u) \/ PasswordResetRequest(u) PROVE Paid'
  <2>1. UNCHANGED <<coop, checkout, req>>
    BY <1>4 DEF LogoutAll, PasswordResetRequest, Unchanged
  <2>2. QED
    BY <2>1, PaidStays
<1>5. CASE Expire \/ UNCHANGED vars
  <2>1. UNCHANGED <<coop, checkout, req>>
    BY <1>5 DEF Expire, Unchanged, vars
  <2>2. QED
    BY <2>1, PaidStays
<1>6. ASSUME NEW r \in Requests, Crash(r) \/ (Proceeds(r) /\ ~\E c \in Coops : SignupCommit(r, c)) PROVE Paid'
  <2>1. \A q \in Requests : q # r => req'[q] = req[q]
    BY <1>0, <1>6 DEF Crash, Proceeds, IssueSession, ExchangeCommit, PasswordCommit, OrganizationCommit, AddCommit,
       AcceptCommit, UpdateLock, UpdateCommit, EndCommit, RevokeCommit, SwitchCommit, Leave, Enter
  <2>2. req'[r].at # "opening"
    <3>1. CASE UpdateLock(r)
      BY <1>0, <3>1 DEF UpdateLock, Leave, Idle, RequestRow
    <3>2. CASE SwitchCommit(r)
      BY <1>0, <3>2 DEF SwitchCommit, Enter
    <3>3. CASE ~UpdateLock(r) /\ ~SwitchCommit(r)
      <4>1. Leave(r)
        BY <1>6, <3>3 DEF Crash, Proceeds, IssueSession, ExchangeCommit, PasswordCommit, OrganizationCommit,
           AddCommit, AcceptCommit, UpdateCommit, EndCommit, RevokeCommit
      <4>2. QED
        BY <1>0, <4>1 DEF Leave, Idle
    <3>4. QED
      BY <3>1, <3>2, <3>3
  <2>3. UNCHANGED checkout
    BY <1>6 DEF Crash, Proceeds, IssueSession, ExchangeCommit, PasswordCommit, OrganizationCommit, AddCommit,
       AcceptCommit, UpdateLock, UpdateCommit, EndCommit, RevokeCommit, SwitchCommit, Unchanged
  <2>4. \A c \in Coops : coop'[c].paid_by = coop[c].paid_by
    <3>1. CASE \E o \in Orgs : OrganizationCommit(r, o)
      BY <1>0, <3>1 DEF OrganizationCommit, TypeOK, CoopRow
    <3>2. CASE ~\E o \in Orgs : OrganizationCommit(r, o)
      BY <1>6, <3>2 DEF Crash, Proceeds, IssueSession, ExchangeCommit, PasswordCommit, AddCommit,
         AcceptCommit, UpdateLock, UpdateCommit, EndCommit, RevokeCommit, SwitchCommit, Unchanged
    <3>3. QED
      BY <3>1, <3>2
  <2>5. QED
    BY <2>1, <2>2, <2>3, <2>4, PaidStays
<1>7. QED
  BY <1>1, <1>2, <1>3, <1>4, <1>5, <1>6, SignupCommitPaid, ArrivesPaid DEF Next

LEMMA PaidOnce == ASSUME Known, Paid PROVE PaidOpensOne
<1>1. ASSUME NEW k \in Checkouts PROVE Cardinality({c \in Coops : coop[c].paid_by = k}) <= 1
  <2> DEFINE opened == {c \in Coops : coop[c].paid_by = k}
  <2>1. CASE opened = {}
    BY <2>1, FS_EmptySet
  <2>2. ASSUME NEW c \in opened PROVE Cardinality(opened) <= 1
    <3>1. opened = {c}
      BY <1>1 DEF Paid
    <3>2. Cardinality({c}) = 1
      BY FS_Singleton
    <3>3. QED
      BY <3>1, <3>2
  <2>3. QED
    BY <2>1, <2>2
<1>2. QED
  BY <1>1 DEF Paid, PaidOpensOne

LEMMA PaidInit == Init => Paid
  BY NothingAssumption DEF Init, Paid, Idle

\* A paid checkout opens one workspace: a sign-up holds its row from the check
\* of its status, over the provider's call, to the commit that consumes it.
THEOREM CheckoutOpensOne == Spec => []PaidOpensOne
<1>1. Init => Paid
  BY PaidInit
<1>2. Known /\ Paid /\ [Next]_vars => Paid'
  BY PaidStep
<1>3. Known /\ Paid => PaidOpensOne
  BY PaidOnce
<1>4. QED
  BY <1>1, <1>2, <1>3, AccessKnown, PTL DEF Spec

-----------------------------------------------------------------------------
(* Deactivation ends sessions *)

\* Requests of a user that will still issue him a token.
Issuing(u) == {r \in Requests : req[r].by = u /\ req[r].at \in {"session", "exchanging", "changing", "switching"}}

Inactive(u) == Exists(u) /\ ~user[u].active

\* The sessions of an inactive user, and those that are being begun for him,
\* are fewer than the requests: the one that deactivated him began none.
SessionsCounted ==
  \A u \in Users : Inactive(u) => Cardinality(Live(u)) + Cardinality(Issuing(u)) < Cardinality(Requests)

\* A step begins no session for an inactive user but from a request that was
\* under way, and a step that makes him inactive ends what there is.
SessionsFewer(u) ==
  \/ Inactive(u) /\ Live(u)' \subseteq Live(u) /\ Issuing(u)' \subseteq Issuing(u)
  \/ Inactive(u) /\ \E t \in Tokens, r \in Issuing(u) :
       Live(u)' \subseteq Live(u) \cup {t} /\ Issuing(u)' \subseteq Issuing(u) \ {r}
  \/ Live(u)' = {} /\ \E r \in Requests : r \notin Issuing(u)'

LEMMA CountsFinite ==
  ASSUME NEW u \in Users
  PROVE  /\ IsFiniteSet(Live(u)) /\ IsFiniteSet(Issuing(u))
         /\ Cardinality(Live(u)) \in Nat /\ Cardinality(Issuing(u)) \in Nat /\ Cardinality(Requests) \in Nat
<1>1. Live(u) \subseteq Tokens /\ Issuing(u) \subseteq Requests
  BY DEF Live, Issuing
<1>2. QED
  BY <1>1, FiniteAssumption, FS_Subset, FS_CardinalityType

LEMMA FewerSessions ==
  ASSUME SessionsCounted, \A u \in Users : Inactive(u)' => SessionsFewer(u)
  PROVE  SessionsCounted'
<1> SUFFICES ASSUME NEW u \in Users, Inactive(u)'
             PROVE  Cardinality(Live(u)') + Cardinality(Issuing(u)') < Cardinality(Requests)
  BY DEF SessionsCounted
<1> DEFINE L == Live(u)
           I == Issuing(u)
           M == Live(u)'
           J == Issuing(u)'
           R == Cardinality(Requests)
<1>1. /\ IsFiniteSet(L) /\ IsFiniteSet(I) /\ Cardinality(L) \in Nat /\ Cardinality(I) \in Nat /\ R \in Nat
  BY CountsFinite
<1>2. M \subseteq Tokens /\ J \subseteq Requests
  BY DEF Live, Issuing
<1>3. IsFiniteSet(M) /\ IsFiniteSet(J) /\ Cardinality(M) \in Nat /\ Cardinality(J) \in Nat
  BY <1>2, FiniteAssumption, FS_Subset, FS_CardinalityType
<1>4. Inactive(u) => Cardinality(L) + Cardinality(I) < R
  BY DEF SessionsCounted
<1>5. SessionsFewer(u)
  OBVIOUS
<1> HIDE DEF L, I, M, J, R
<1>6. CASE Inactive(u) /\ M \subseteq L /\ J \subseteq I
  <2>1. Cardinality(M) <= Cardinality(L) /\ Cardinality(J) <= Cardinality(I)
    BY <1>1, <1>6, FS_Subset
  <2>2. QED
    BY <1>1, <1>3, <1>4, <1>6, <2>1 DEF M, J, R
<1>7. ASSUME NEW t \in Tokens, NEW r \in I, Inactive(u), M \subseteq L \cup {t}, J \subseteq I \ {r}
      PROVE  Cardinality(M) + Cardinality(J) < R
  <2>1. IsFiniteSet(L \cup {t}) /\ Cardinality(L \cup {t}) <= Cardinality(L) + 1
    <3>1. /\ IsFiniteSet(L \cup {t})
          /\ Cardinality(L \cup {t}) = Cardinality(L) \/ Cardinality(L \cup {t}) = Cardinality(L) + 1
      BY <1>1, FS_AddElement
    <3>2. QED
      BY <1>1, <3>1
  <2>2. IsFiniteSet(I \ {r}) /\ Cardinality(I \ {r}) = Cardinality(I) - 1
    BY <1>1, FS_RemoveElement
  <2>3. Cardinality(M) <= Cardinality(L \cup {t}) /\ Cardinality(J) <= Cardinality(I \ {r})
    BY <1>7, <2>1, <2>2, FS_Subset
  <2>4. Cardinality(L \cup {t}) \in Nat
    BY <2>1, FS_CardinalityType
  <2>5. QED
    BY <1>1, <1>3, <1>4, <1>7, <2>1, <2>2, <2>3, <2>4
<1>8. ASSUME NEW r \in Requests, M = {}, r \notin J
      PROVE  Cardinality(M) + Cardinality(J) < R
  <2>1. Cardinality(M) = 0
    BY <1>8, FS_EmptySet
  <2>2. J \subseteq Requests \ {r}
    BY <1>2, <1>8
  <2>3. IsFiniteSet(Requests \ {r}) /\ Cardinality(Requests \ {r}) = Cardinality(Requests) - 1
    BY FiniteAssumption, FS_RemoveElement
  <2>4. Cardinality(J) <= Cardinality(Requests \ {r})
    BY <2>2, <2>3, FS_Subset
  <2>5. QED
    BY <1>1, <1>3, <2>1, <2>3, <2>4 DEF R
<1>9. QED
  BY <1>5, <1>6, <1>7, <1>8 DEF SessionsFewer, L, I, M, J, R

\* Steps that issue no token and begin no session.
LEMMA NoSession ==
  ASSUME Known, NEW u \in Users, Inactive(u),
         \A t \in Tokens : token'[t] = token[t] \/ token'[t].state # "live",
         \A r \in Requests : \/ req'[r] = req[r]
                             \/ req'[r].at \notin {"session", "exchanging", "changing", "switching"}
                             \/ req'[r].by # u
                             \/ r \in Issuing(u)
  PROVE  SessionsFewer(u)
<1>1. Live(u)' \subseteq Live(u)
  BY DEF Live
<1>2. Issuing(u)' \subseteq Issuing(u)
  BY DEF Issuing
<1>3. QED
  BY <1>1, <1>2 DEF SessionsFewer

\* A commit that issues one token, to the user whose request it is.
LEMMA OneSession ==
  ASSUME Known, NEW u \in Users, Inactive(u), NEW r \in Requests, NEW t \in Tokens, Leave(r),
         req[r].at \in {"session", "exchanging", "changing", "switching"},
         token'[t] = [user |-> req[r].by, state |-> "live"],
         \A s \in Tokens : s # t => token'[s] = token[s] \/ token'[s].state # "live"
  PROVE  SessionsFewer(u)
<1>0. req \in [Requests -> RequestRow]
  BY DEF Known, TypeOK, RequestRow
<1>1. req'[r].at = "idle" /\ \A p \in Requests : p # r => req'[p] = req[p]
  BY <1>0 DEF Leave, Idle
<1>2. Issuing(u)' \subseteq Issuing(u) \ {r}
  BY <1>1 DEF Issuing
<1>3. CASE req[r].by = u
  <2>1. r \in Issuing(u)
    BY <1>3 DEF Issuing
  <2>2. Live(u)' \subseteq Live(u) \cup {t}
    BY DEF Live
  <2>3. QED
    BY <1>2, <2>1, <2>2 DEF SessionsFewer
<1>4. CASE req[r].by # u
  <2>1. Live(u)' \subseteq Live(u)
    BY <1>4 DEF Live
  <2>2. QED
    BY <1>2, <2>1 DEF SessionsFewer
<1>5. QED
  BY <1>3, <1>4

LEMMA UpdateCommitSessions ==
  ASSUME Known, NEW r \in Requests, UpdateCommit(r), NEW u \in Users, Inactive(u)'
  PROVE  SessionsFewer(u)
<1>0. TypeOK /\ RequestKnown(req[r]) /\ req \in [Requests -> RequestRow] /\ req[r].want \in Change
  BY DEF Known, TypeOK, RequestsKnown, RequestRow
<1> DEFINE v == req[r].on
           w == req[r].want
           own == v = req[r].by
<1>1. v \in Users /\ Exists(v) /\ Leave(r) /\ token' = IF w.active = "off" THEN Revoked(v) ELSE token
  BY <1>0 DEF RequestKnown, UpdateCommit
<1>2. /\ \A x \in Users : x # v => user'[x] = user[x]
      /\ user'[v].active = IF w.active = "keep" \/ own THEN user[v].active ELSE w.active = "on"
  BY <1>0, <1>1, UpdateRow
<1>3. req'[r] = Idle /\ \A p \in Requests : p # r => req'[p] = req[p]
  BY <1>0, <1>1 DEF Leave
<1>4. \A t \in Tokens : token'[t] = token[t] \/ token'[t].state # "live"
  <2>1. \A t \in Tokens : Revoked(v)[t] = token[t] \/ Revoked(v)[t] = [user |-> v, state |-> "ended"]
    BY <1>0, <1>1, RevokedRows
  <2>2. token' = Revoked(v) \/ token' = token
    BY <1>1
  <2>3. QED
    BY <2>1, <2>2
<1>5. CASE Inactive(u)
  BY <1>3, <1>4, <1>5, NoSession DEF Idle
<1>6. CASE ~Inactive(u)
  <2>1. u = v /\ w.active # "keep" /\ w.active # "on"
    BY <1>1, <1>2, <1>6 DEF Inactive, Exists
  <2>2. token' = Revoked(u)
    BY <1>0, <1>1, <2>1 DEF Change
  <2>3. Live(u)' = {}
    BY <1>0, <2>2, RevokedRows DEF Live
  <2>4. r \notin Issuing(u)'
    BY <1>3 DEF Issuing, Idle
  <2>5. QED
    BY <2>3, <2>4 DEF SessionsFewer
<1>7. QED
  BY <1>5, <1>6

\* No other step makes a person inactive.
LEMMA ActivityStays ==
  ASSUME Known, [Next]_vars, \A r \in Requests : ~UpdateCommit(r), NEW u \in Users, Inactive(u)'
  PROVE  Inactive(u)
<1>0. TypeOK /\ RequestsKnown /\ user \in [Users -> UserRow]
  BY DEF Known, TypeOK
<1>1. CASE UNCHANGED user
  BY <1>1 DEF Inactive, Exists
<1>2. ASSUME NEW r \in Requests, NEW c \in Coops, SignupCommit(r, c) PROVE Inactive(u)
  <2>1. req[r].by \in Users
    BY <1>0, <1>2 DEF SignupCommit, RequestsKnown, RequestKnown
  <2>2. UNCHANGED user \/ (user'[req[r].by].active /\ \A v \in Users : v # req[r].by => user'[v] = user[v])
    BY <1>0, <1>2, <2>1 DEF SignupCommit, NewUser, NoUser
  <2>3. QED
    BY <2>2 DEF Inactive, Exists
<1>3. ASSUME NEW r \in Requests, AddCommit(r) PROVE Inactive(u)
  <2>1. req[r].on \in Users
    BY <1>0, <1>3 DEF AddCommit, RequestsKnown, RequestKnown
  <2>2. UNCHANGED user \/ (user'[req[r].on].active /\ \A v \in Users : v # req[r].on => user'[v] = user[v])
    BY <1>0, <1>3, <2>1 DEF AddCommit, NewUser, NoUser
  <2>3. QED
    BY <2>2 DEF Inactive, Exists
<1>4. ASSUME NEW r \in Requests, AcceptCommit(r) PROVE Inactive(u)
  <2>1. req[r].by \in Users
    BY <1>0, <1>4 DEF AcceptCommit, RequestsKnown, RequestKnown
  <2>2. user'[u].role = user[u].role /\ user'[u].active = user[u].active
    BY <1>0, <1>4, <2>1, LinksRow DEF AcceptCommit
  <2>3. QED
    BY <2>2 DEF Inactive, Exists
<1>5. ASSUME NEW r \in Requests, NEW t \in Tokens, PasswordCommit(r, t) PROVE Inactive(u)
  <2>1. req[r].by \in Users
    BY <1>0, <1>5 DEF PasswordCommit, RequestsKnown, RequestKnown
  <2>2. user'[u].role = user[u].role /\ user'[u].active = user[u].active
    BY <1>0, <1>5, <2>1, LinksRow DEF PasswordCommit
  <2>3. QED
    BY <2>2 DEF Inactive, Exists
<1>6. ASSUME NEW r \in Requests, NEW o \in Orgs, OrganizationCommit(r, o) PROVE Inactive(u)
  <2>1. user'[u].role = user[u].role /\ user'[u].active = user[u].active
    BY <1>0, <1>6 DEF OrganizationCommit, UserRow
  <2>2. QED
    BY <2>1 DEF Inactive, Exists
<1>7. ASSUME NEW r \in Requests, SwitchCommit(r) PROVE Inactive(u)
  <2>1. user'[u].role = user[u].role /\ user'[u].active = user[u].active
    BY <1>0, <1>7 DEF SwitchCommit, UserRow
  <2>2. QED
    BY <2>1 DEF Inactive, Exists
<1>8. ASSUME NEW v \in Users, PasswordResetRequest(v) PROVE Inactive(u)
  <2>1. user'[u].role = user[u].role /\ user'[u].active = user[u].active
    BY <1>0, <1>8, LinksRow DEF PasswordResetRequest
  <2>2. QED
    BY <2>1 DEF Inactive, Exists
<1>9. CASE Expire
  <2>1. CASE UNCHANGED user
    BY <1>1, <2>1
  <2>2. ASSUME NEW v \in Users, user' = [user EXCEPT ![v].invite = FALSE, ![v].reset = FALSE] PROVE Inactive(u)
    <3>1. user'[u].role = user[u].role /\ user'[u].active = user[u].active
      BY <1>0, <2>2, LinksRow
    <3>2. QED
      BY <3>1 DEF Inactive, Exists
  <2>3. QED
    BY <1>9, <2>1, <2>2 DEF Expire
<1>10. ASSUME NEW r \in Requests, Arrives(r) PROVE Inactive(u)
  BY <1>1, <1>10, ArrivesKnown DEF Arrived
<1>11. ASSUME NEW r \in Requests, Proceeds(r) PROVE Inactive(u)
  <2>1. CASE (\E t \in Tokens : IssueSession(r, t) \/ ExchangeCommit(r, t)) \/ UpdateLock(r) \/ EndCommit(r) \/ RevokeCommit(r)
    BY <1>1, <2>1 DEF IssueSession, ExchangeCommit, UpdateLock, EndCommit, RevokeCommit, Unchanged
  <2>2. QED
    BY <1>2, <1>3, <1>4, <1>5, <1>6, <1>7, <1>11, <2>1 DEF Proceeds
<1>12. CASE \/ \E k \in Checkouts : PreCheckout(k) \/ ProcessPreCheckout(k)
            \/ \E v \in Users : LogoutAll(v) \/ \E c \in Coops : CreateOrganizationCooperative(v, c)
            \/ \E r \in Requests : Crash(r)
            \/ UNCHANGED vars
  BY <1>1, <1>12 DEF PreCheckout, ProcessPreCheckout, LogoutAll, CreateOrganizationCooperative, Crash, Unchanged, vars
<1>13. QED
  BY <1>8, <1>9, <1>10, <1>11, <1>12 DEF Next

LEMMA CommitSessions ==
  ASSUME Known, NEW u \in Users, Inactive(u), NEW r \in Requests, Proceeds(r), ~UpdateCommit(r)
  PROVE  SessionsFewer(u)
<1>0. TypeOK /\ req \in [Requests -> RequestRow] /\ RequestKnown(req[r])
  BY DEF Known, TypeOK, RequestsKnown, RequestRow
<1>1. Leave(r) => req'[r].at = "idle" /\ \A q \in Requests : q # r => req'[q] = req[q]
  BY <1>0 DEF Leave, Idle
<1>2. ASSUME NEW c \in Coops, SignupCommit(r, c) PROVE SessionsFewer(u)
  <2>1. \A q \in Requests : q # r => req'[q] = req[q]
    BY <1>0, <1>2 DEF SignupCommit, Enter, Leave
  <2>2. req'[r].at = "idle" \/ (req'[r].by = req[r].by /\ ~Exists(req[r].by))
    BY <1>0, <1>2 DEF SignupCommit, Enter, Leave, Idle
  <2>3. req'[r].at = "idle" \/ req'[r].by # u
    BY <2>2 DEF Inactive
  <2>4. UNCHANGED token
    BY <1>2 DEF SignupCommit
  <2>5. QED
    BY <2>1, <2>3, <2>4, NoSession
<1>3. ASSUME NEW t \in Tokens, IssueSession(r, t) PROVE SessionsFewer(u)
  <2>1. /\ token'[t] = [user |-> req[r].by, state |-> "live"] /\ \A s \in Tokens : s # t => token'[s] = token[s]
        /\ Leave(r) /\ req[r].at = "session"
    BY <1>0, <1>3 DEF IssueSession, Issue, TypeOK
  <2>2. QED
    BY <2>1, OneSession
<1>4. ASSUME NEW t \in Tokens, ExchangeCommit(r, t) PROVE SessionsFewer(u)
  <2>1. /\ token'[t] = [user |-> req[r].by, state |-> "live"]
        /\ \A s \in Tokens : s # t => token'[s] = token[s] \/ token'[s].state # "live"
        /\ Leave(r) /\ req[r].at = "exchanging"
    BY <1>0, <1>4 DEF ExchangeCommit, Issue, TypeOK, TokenRow
  <2>2. QED
    BY <2>1, OneSession
<1>5. ASSUME NEW t \in Tokens, PasswordCommit(r, t) PROVE SessionsFewer(u)
  <2> DEFINE v == req[r].by
  <2>0. v \in Users /\ Leave(r)
    BY <1>0, <1>5 DEF PasswordCommit, RequestKnown
  <2>1. \A s \in Tokens : Revoked(v)[s] = token[s] \/ Revoked(v)[s].state # "live"
    <3>1. \A s \in Tokens : Revoked(v)[s] = token[s] \/ Revoked(v)[s] = [user |-> v, state |-> "ended"]
      BY <1>0, <2>0, RevokedRows
    <3>2. QED
      BY <3>1
  <2>2. CASE token' = Revoked(v)
    BY <1>1, <2>0, <2>1, <2>2, NoSession
  <2>3. CASE req[r].at = "changing" /\ token' = [Revoked(v) EXCEPT ![t] = [user |-> v, state |-> "live"]]
    <3>1. token'[t] = [user |-> v, state |-> "live"] /\ \A s \in Tokens : s # t => token'[s] = Revoked(v)[s]
      BY <1>0, <2>0, <2>3, RevokedRows
    <3>2. QED
      BY <2>0, <2>1, <2>3, <3>1, OneSession
  <2>4. QED
    BY <1>5, <2>2, <2>3 DEF PasswordCommit, Issue
<1>6. ASSUME (\E o \in Orgs : OrganizationCommit(r, o)) \/ AddCommit(r) \/ AcceptCommit(r) PROVE SessionsFewer(u)
  <2>1. UNCHANGED token /\ Leave(r)
    BY <1>6 DEF OrganizationCommit, AddCommit, AcceptCommit, Unchanged
  <2>2. QED
    BY <1>1, <2>1, NoSession
<1>7. ASSUME UpdateLock(r) PROVE SessionsFewer(u)
  <2>1. UNCHANGED token /\ \A q \in Requests : q # r => req'[q] = req[q]
    BY <1>0, <1>7 DEF UpdateLock, Leave, Unchanged
  <2>2. req'[r].at \in {"idle", "deciding"}
    BY <1>0, <1>7 DEF UpdateLock, Leave, Idle, RequestRow
  <2>3. QED
    BY <2>1, <2>2, NoSession
<1>8. ASSUME EndCommit(r) PROVE SessionsFewer(u)
  <2>1. req[r].on \in Tokens /\ Leave(r) /\ token' = End(req[r].on)
    BY <1>0, <1>8 DEF EndCommit, RequestKnown
  <2>2. \A s \in Tokens : token'[s] = token[s] \/ token'[s].state # "live"
    BY <1>0, <2>1 DEF End, TypeOK, TokenRow
  <2>3. QED
    BY <1>1, <2>1, <2>2, NoSession
<1>9. ASSUME RevokeCommit(r) PROVE SessionsFewer(u)
  <2>1. req[r].by \in Users /\ Leave(r) /\ token' = Revoked(req[r].by)
    BY <1>0, <1>9 DEF RevokeCommit, RequestKnown
  <2>2. \A s \in Tokens : token'[s] = token[s] \/ token'[s] = [user |-> req[r].by, state |-> "ended"]
    BY <1>0, <2>1, RevokedRows
  <2>3. QED
    BY <1>1, <2>1, <2>2, NoSession
<1>10. ASSUME SwitchCommit(r) PROVE SessionsFewer(u)
  <2>1. UNCHANGED token /\ \A q \in Requests : q # r => req'[q] = req[q]
    BY <1>0, <1>10 DEF SwitchCommit, Enter
  <2>2. req'[r].by = req[r].by /\ req[r].at = "switching"
    BY <1>0, <1>10 DEF SwitchCommit, Enter
  <2>3. req'[r].by # u \/ r \in Issuing(u)
    BY <2>2 DEF Issuing
  <2>4. QED
    BY <2>1, <2>3, NoSession
<1>11. QED
  BY <1>2, <1>3, <1>4, <1>5, <1>6, <1>7, <1>8, <1>9, <1>10 DEF Proceeds

LEMMA SessionsStep == ASSUME Known, SessionsCounted, [Next]_vars PROVE SessionsCounted'
<1>0. TypeOK /\ req \in [Requests -> RequestRow]
  BY DEF Known, TypeOK, RequestRow
<1> SUFFICES ASSUME NEW u \in Users, Inactive(u)' PROVE SessionsFewer(u)
  BY FewerSessions
<1>1. CASE \E r \in Requests : UpdateCommit(r)
  BY <1>1, UpdateCommitSessions
<1>2. CASE \A r \in Requests : ~UpdateCommit(r)
  <2>1. Inactive(u)
    BY <1>2, ActivityStays
  <2>2. ASSUME NEW r \in Requests, Arrives(r) PROVE SessionsFewer(u)
    <3>1. PICK q \in RequestRow : Arrived(r, q) /\ RequestKnown(q) /\ Fresh(q)
      BY <2>2, ArrivesKnown
    <3>2. UNCHANGED token /\ req'[r] = q /\ \A p \in Requests : p # r => req'[p] = req[p]
      BY <1>0, <3>1 DEF Arrived
    <3>3. q.at \notin {"session", "exchanging", "changing", "switching"} \/ q.by # u
      BY <2>1, <3>1 DEF Fresh, Inactive
    <3>4. QED
      BY <2>1, <3>2, <3>3, NoSession
  <2>3. ASSUME NEW r \in Requests, Proceeds(r) PROVE SessionsFewer(u)
    BY <1>2, <2>1, <2>3, CommitSessions
  <2>4. ASSUME NEW r \in Requests, Crash(r) PROVE SessionsFewer(u)
    <3>1. UNCHANGED token /\ \A p \in Requests : req'[p] = req[p] \/ req'[p].at = "idle"
      BY <1>0, <2>4 DEF Crash, Leave, Idle, Unchanged
    <3>2. QED
      BY <2>1, <3>1, NoSession
  <2>5. ASSUME NEW v \in Users, LogoutAll(v) PROVE SessionsFewer(u)
    <3>1. token' = Revoked(v) /\ UNCHANGED req
      BY <2>5 DEF LogoutAll, Unchanged
    <3>2. \A s \in Tokens : token'[s] = token[s] \/ token'[s] = [user |-> v, state |-> "ended"]
      BY <1>0, <3>1, RevokedRows
    <3>3. QED
      BY <2>1, <3>1, <3>2, NoSession
  <2>6. CASE Expire
    <3>1. UNCHANGED req /\ \A s \in Tokens : token'[s] = token[s] \/ token'[s].state # "live"
      <4>1. ASSUME NEW t \in Tokens, token' = [token EXCEPT ![t].state = "ended"]
            PROVE  \A s \in Tokens : token'[s] = token[s] \/ token'[s].state # "live"
        BY <1>0, <4>1 DEF TypeOK, TokenRow
      <4>2. QED
        BY <2>6, <4>1 DEF Expire, Unchanged
    <3>2. QED
      BY <2>1, <3>1, NoSession
  <2>7. CASE \/ \E k \in Checkouts : PreCheckout(k) \/ ProcessPreCheckout(k)
             \/ \E v \in Users : PasswordResetRequest(v) \/ \E c \in Coops : CreateOrganizationCooperative(v, c)
             \/ UNCHANGED vars
    <3>1. UNCHANGED <<token, req>>
      BY <2>7 DEF PreCheckout, ProcessPreCheckout, PasswordResetRequest, CreateOrganizationCooperative, Unchanged, vars
    <3>2. QED
      BY <2>1, <3>1, NoSession
  <2>8. QED
    BY <2>2, <2>3, <2>4, <2>5, <2>6, <2>7 DEF Next
<1>3. QED
  BY <1>1, <1>2

\* Deactivating a user ends his sessions: all that can be left are those of
\* requests that were under way, which read him as active.
THEOREM InactiveSessions == Spec => []DeactivationEndsSessions
<1>1. Init => SessionsCounted
  BY DEF Init, SessionsCounted, Inactive, Exists, NoUser
<1>2. Known /\ SessionsCounted /\ [Next]_vars => SessionsCounted'
  BY SessionsStep
<1>3. SessionsCounted => DeactivationEndsSessions
  <2>1. \A u \in Users : Cardinality(Live(u)) \in Nat /\ Cardinality(Issuing(u)) \in Nat /\ Cardinality(Requests) \in Nat
    BY CountsFinite
  <2>2. QED
    BY <2>1 DEF SessionsCounted, DeactivationEndsSessions, Inactive
<1>4. QED
  BY <1>1, <1>2, <1>3, AccessKnown, PTL DEF Spec

-----------------------------------------------------------------------------
(* A workspace keeps an administrator *)

\* Founded workspaces that nobody has switched away from.
Kept == founded \ left

\* Whoever has the organization of a founded workspace is in it, or it was left.
OrgHome ==
  \A u \in Users, c \in founded :
    user[u].org # Nothing /\ coop[c].org = user[u].org /\ user[u].coop # c => c \in left

FoundingHome ==
  \A r \in Requests : req[r].at = "founding" => user[req[r].by].coop = req[r].seat \/ req[r].seat \in left

\* Nobody moves into a founded workspace that nobody has left.
SwitchingAway ==
  \A r \in Requests : req[r].at = "switching" /\ req[r].on \in Kept => req[r].on = req[r].seat

\* A change that is decided concerns a person of the locked cooperative, and no
\* other change of that cooperative is being decided.
DecidingHome ==
  \A r \in Requests : req[r].at = "deciding" =>
    /\ user[req[r].on].coop \in Kept => user[req[r].on].coop = req[r].seat
    /\ req[r].seat \in Kept => user[req[r].on].coop = req[r].seat
DecidingAlone ==
  \A r, q \in Requests : req[r].at = "deciding" /\ req[q].at = "deciding" /\ req[r].seat = req[q].seat => r = q

\* What was counted under the lock is still so.
DecidingCounted ==
  \A r \in Requests : req[r].at = "deciding" /\ req[r].seat \in Kept /\ Removing(req[r].on, req[r].want) =>
    \E u \in ActiveAdmins(req[r].seat) : u # req[r].on

Governed ==
  /\ OrgHome /\ FoundingHome /\ SwitchingAway
  /\ DecidingHome /\ DecidingAlone /\ DecidingCounted
  /\ AdminKept

\* The places whose requests Governed is about.
Governing == {"founding", "switching", "deciding"}

\* Steps that move nobody and change nobody's role or activity.
LEMMA GovernedStays ==
  ASSUME Known, Governed, UNCHANGED <<founded, left>>,
         \A v \in Users : /\ user'[v].role = user[v].role /\ user'[v].active = user[v].active
                          /\ user'[v].coop = user[v].coop /\ user'[v].org = user[v].org,
         \A c \in founded : coop'[c].org = coop[c].org,
         \A r \in Requests : req'[r].at \in Governing => req'[r] = req[r]
  PROVE  Governed'
<1>0. RequestsKnown
  BY DEF Known
<1>1. \A c \in Coops : ActiveAdmins(c)' = ActiveAdmins(c)
  BY DEF ActiveAdmins
<1>2. OrgHome'
  BY DEF Governed, OrgHome
<1>3. FoundingHome'
  BY <1>0 DEF Governed, FoundingHome, Governing, RequestsKnown, RequestKnown
<1>4. SwitchingAway'
  BY DEF Governed, SwitchingAway, Governing, Kept
<1>5. ASSUME NEW r \in Requests, req'[r].at = "deciding"
      PROVE  /\ req'[r] = req[r] /\ req[r].at = "deciding" /\ req[r].on \in Users /\ req[r].seat \in Coops
             /\ Removing(req[r].on, req[r].want)' <=> Removing(req[r].on, req[r].want)
  <2>1. req'[r] = req[r] /\ req[r].at = "deciding"
    BY <1>5 DEF Governing
  <2>2. req[r].on \in Users /\ req[r].seat \in Coops
    BY <1>0, <2>1 DEF RequestsKnown, RequestKnown
  <2>3. QED
    BY <2>1, <2>2 DEF Removing
<1>6. DecidingHome'
  BY <1>5 DEF Governed, DecidingHome, Kept
<1>7. DecidingAlone'
  BY <1>5 DEF Governed, DecidingAlone
<1>8. DecidingCounted'
  BY <1>1, <1>5 DEF Governed, DecidingCounted, Kept
<1>9. AdminKept'
  BY <1>1 DEF Governed, AdminKept, Known, TypeOK
<1>10. QED
  BY <1>2, <1>3, <1>4, <1>6, <1>7, <1>8, <1>9 DEF Governed

LEMMA ArrivesGoverned ==
  ASSUME Known, Governed, NEW r \in Requests, Arrives(r)
  PROVE  Governed'
<1>0. TypeOK /\ RowsKnown
  BY DEF Known
<1>1. PICK q \in RequestRow : Arrived(r, q) /\ RequestKnown(q) /\ Fresh(q)
  BY ArrivesKnown
<1>2. /\ req'[r] = q /\ \A p \in Requests : p # r => req'[p] = req[p]
      /\ UNCHANGED <<user, coop, founded, left>>
  BY <1>0, <1>1 DEF Arrived, TypeOK
<1>3. CASE q.at \notin {"founding", "switching"}
  BY <1>1, <1>2, <1>3, GovernedStays DEF Fresh, Governing
<1>4. CASE q.at \in {"founding", "switching"}
  <2>1. user[q.by].coop = q.seat /\ q.by \in Users /\ q.at # "deciding"
    BY <1>1, <1>4 DEF Fresh, RequestKnown
  <2>2. q.at = "switching" /\ q.on \in Kept => q.on = q.seat
    BY <1>1, <2>1 DEF Fresh, Governed, OrgHome, Kept
  <2>3. \A p \in Requests : req'[p].at = "deciding" => p # r /\ req'[p] = req[p]
    BY <1>2, <2>1
  <2>4. OrgHome' /\ AdminKept'
    BY <1>2 DEF Governed, OrgHome, AdminKept, ActiveAdmins
  <2>5. FoundingHome'
    BY <1>2, <2>1 DEF Governed, FoundingHome
  <2>6. SwitchingAway'
    BY <1>2, <2>2 DEF Governed, SwitchingAway, Kept
  <2>7. DecidingHome' /\ DecidingAlone' /\ DecidingCounted'
    BY <1>2, <2>3 DEF Governed, DecidingHome, DecidingAlone, DecidingCounted, Kept, Removing, ActiveAdmins
  <2>8. QED
    BY <2>4, <2>5, <2>6, <2>7 DEF Governed
<1>5. QED
  BY <1>3, <1>4

\* A person is added: nobody else changes, and he was nowhere.
LEMMA AddedGoverned ==
  ASSUME Known, Governed, NEW u \in Users, ~Exists(u), UNCHANGED left,
         user'[u].org = Nothing, \A v \in Users : v # u => user'[v] = user[v],
         \/ UNCHANGED founded
         \/ \E c \in Coops : /\ ~coop[c].open /\ coop'[c].org = Nothing /\ founded' = founded \cup {c}
                             /\ user'[u].coop = c /\ user'[u].role = "admin" /\ user'[u].active,
         \A c \in founded : coop'[c].org = coop[c].org,
         \A r \in Requests : req'[r].at \in Governing => req'[r] = req[r]
  PROVE  Governed'
<1>0. TypeOK /\ RowsKnown /\ RequestsKnown
  BY DEF Known
<1>1. \A c \in Coops : ActiveAdmins(c) \subseteq ActiveAdmins(c)'
  BY DEF ActiveAdmins, Exists
<1>2. \A c \in Kept' : c \in Kept \/ (~coop[c].open /\ u \in ActiveAdmins(c)')
  BY DEF Kept, ActiveAdmins
<1>3. ASSUME NEW r \in Requests, req'[r].at \in Governing
      PROVE  /\ req'[r] = req[r] /\ req[r].by # u /\ req[r].by \in Users
             /\ req[r].at = "deciding" => /\ req[r].on # u /\ req[r].on \in Users
                                          /\ req[r].seat \in Coops /\ coop[req[r].seat].open
             /\ req[r].at = "switching" => req[r].on \in Coops /\ coop[req[r].on].open
  BY <1>0, <1>3 DEF RequestsKnown, RequestKnown, Governing
<1>4. OrgHome'
  <2>1. ASSUME NEW v \in Users, NEW c \in founded', user'[v].org # Nothing, coop'[c].org = user'[v].org, user'[v].coop # c
        PROVE  c \in left
    <3>1. v # u /\ user'[v] = user[v]
      BY <2>1
    <3>2. CASE c \in founded
      BY <2>1, <3>1, <3>2 DEF Governed, OrgHome
    <3>3. CASE c \notin founded
      BY <2>1, <3>1, <3>3
    <3>4. QED
      BY <3>2, <3>3
  <2>2. QED
    BY <2>1 DEF OrgHome
<1>5. FoundingHome'
  BY <1>3 DEF Governed, FoundingHome, Governing
<1>6. SwitchingAway'
  BY <1>2, <1>3 DEF Governed, SwitchingAway, Governing
<1>7. \A v \in Users : v # u /\ user[v].coop \in Kept' => user[v].coop \in Kept
  BY <1>0, <1>2, NothingAssumption DEF RowsKnown, UserKnown, NoUser, Kept, TypeOK
<1>8. DecidingHome'
  BY <1>2, <1>3, <1>7 DEF Governed, DecidingHome, Governing
<1>9. DecidingAlone'
  BY <1>3 DEF Governed, DecidingAlone, Governing
<1>10. DecidingCounted'
  BY <1>1, <1>2, <1>3 DEF Governed, DecidingCounted, Governing, Removing
<1>11. AdminKept'
  BY <1>0, <1>1, <1>2 DEF Governed, AdminKept, Kept, TypeOK
<1>12. QED
  BY <1>4, <1>5, <1>6, <1>8, <1>9, <1>10, <1>11 DEF Governed

LEMMA SignupCommitGoverned ==
  ASSUME Known, Governed, NEW r \in Requests, NEW c \in Coops, SignupCommit(r, c)
  PROVE  Governed'
<1>0. TypeOK /\ req[r].by \in Users /\ req[r].on \in Checkouts \cup {Nothing} /\ req \in [Requests -> RequestRow]
  BY DEF Known, TypeOK, RequestRow, RequestsKnown, RequestKnown, SignupCommit
<1> DEFINE u == req[r].by
<1>1. \A p \in Requests : req'[p].at \in Governing => req'[p] = req[p]
  BY <1>0 DEF SignupCommit, Enter, Leave, Idle, Governing
<1>2. CASE Exists(u)
  BY <1>1, <1>2, GovernedStays DEF SignupCommit
<1>3. CASE ~Exists(u)
  <2> DEFINE row == [NewUser EXCEPT !.role = "admin", !.coop = c, !.password = TRUE]
             new == [open |-> TRUE, org |-> Nothing, paid_by |-> req[r].on]
  <2>1. /\ ~coop[c].open /\ user' = [user EXCEPT ![u] = row] /\ coop' = [coop EXCEPT ![c] = new]
        /\ founded' = founded \cup {c} /\ UNCHANGED left
    BY <1>3 DEF SignupCommit, Unopened
  <2>2. row.role = "admin" /\ row.coop = c /\ row.org = Nothing /\ row.active
    BY DEF NewUser, NoUser
  <2>3. user'[u] = row /\ \A v \in Users : v # u => user'[v] = user[v]
    BY <1>0, <2>1 DEF TypeOK
  <2>4. coop'[c].org = Nothing /\ \A d \in Coops : d # c => coop'[d] = coop[d]
    BY <1>0, <2>1 DEF TypeOK
  <2>5. c \notin founded /\ founded \subseteq Coops
    BY <1>0, <2>1 DEF Known, RowsKnown, CoopKnown, TypeOK
  <2>6. QED
    BY <1>0, <1>1, <1>3, <2>1, <2>2, <2>3, <2>4, <2>5, AddedGoverned
<1>4. QED
  BY <1>2, <1>3

LEMMA AddCommitGoverned ==
  ASSUME Known, Governed, NEW r \in Requests, AddCommit(r)
  PROVE  Governed'
<1>0. TypeOK /\ req[r].on \in Users /\ req \in [Requests -> RequestRow]
  BY DEF Known, TypeOK, RequestRow, RequestsKnown, RequestKnown, AddCommit
<1> DEFINE v == req[r].on
<1>1. /\ \A p \in Requests : req'[p].at \in Governing => req'[p] = req[p]
      /\ UNCHANGED <<coop, founded, left>>
  BY <1>0 DEF AddCommit, Leave, Idle, Governing, Unchanged
<1>2. CASE Exists(v)
  BY <1>1, <1>2, GovernedStays DEF AddCommit
<1>3. CASE ~Exists(v)
  <2>1. user'[v].org = Nothing /\ \A u \in Users : u # v => user'[u] = user[u]
    BY <1>0, <1>3 DEF AddCommit, NewUser, NoUser, TypeOK
  <2>2. QED
    BY <1>0, <1>1, <1>3, <2>1, AddedGoverned
<1>4. QED
  BY <1>2, <1>3

LEMMA UpdateLockGoverned ==
  ASSUME Known, Governed, NEW r \in Requests, UpdateLock(r)
  PROVE  Governed'
<1>0. /\ TypeOK /\ req \in [Requests -> RequestRow] /\ req[r].at = "waiting"
      /\ req[r].on \in Users /\ req[r].seat \in Coops
  BY DEF Known, TypeOK, RequestRow, RequestsKnown, RequestKnown, UpdateLock
<1> DEFINE v == req[r].on
           w == req[r].want
           c == req[r].seat
<1>1. UNCHANGED <<user, coop, founded, left>> /\ \A p \in Requests : p # r => req'[p] = req[p]
  BY <1>0 DEF UpdateLock, Leave, Unchanged
<1>2. CASE ~Allowed(r)
  BY <1>0, <1>1, <1>2, GovernedStays DEF UpdateLock, Leave, Idle, Governing
<1>3. CASE Allowed(r)
  <2>1. req'[r].at = "deciding" /\ req'[r].on = v /\ req'[r].seat = c /\ req'[r].want = w
    BY <1>0, <1>3 DEF UpdateLock, RequestRow
  <2>2. user[v].coop = c /\ \A p \in Requests : req[p].at = "deciding" => req[p].seat # c
    BY <1>3 DEF UpdateLock, Allowed, CoopLocked
  <2>3. Removing(v, w) => \E u \in ActiveAdmins(c) : u # v
    <3>1. CASE ActiveAdmins(c) \subseteq {v}
      <4>1. Cardinality({v}) = 1 /\ IsFiniteSet({v})
        BY FS_Singleton
      <4>2. Cardinality(ActiveAdmins(c)) <= 1 /\ Cardinality(ActiveAdmins(c)) \in Nat
        BY <3>1, <4>1, FS_Subset, FS_CardinalityType
      <4>3. QED
        BY <1>3, <4>2 DEF Allowed
    <3>2. QED
      BY <3>1
  <2>4. OrgHome' /\ AdminKept'
    BY <1>1 DEF Governed, OrgHome, AdminKept, ActiveAdmins
  <2>5. FoundingHome' /\ SwitchingAway'
    BY <1>1, <2>1 DEF Governed, FoundingHome, SwitchingAway, Kept
  <2>6. DecidingHome'
    BY <1>1, <2>1, <2>2 DEF Governed, DecidingHome, Kept
  <2>7. DecidingAlone'
    BY <1>1, <2>1, <2>2 DEF Governed, DecidingAlone
  <2>8. DecidingCounted'
    <3>1. ASSUME NEW p \in Requests, req'[p].at = "deciding", req'[p].seat \in Kept, Removing(req[p].on, req[p].want)'
          PROVE  \E u \in ActiveAdmins(req'[p].seat) : u # req'[p].on
      <4>1. CASE p = r
        BY <1>1, <2>1, <2>3, <3>1, <4>1 DEF Removing
      <4>2. CASE p # r
        BY <1>1, <3>1, <4>2 DEF Governed, DecidingCounted, Removing
      <4>3. QED
        BY <4>1, <4>2
    <3>2. QED
      BY <1>1, <3>1 DEF DecidingCounted, Kept, ActiveAdmins
  <2>9. QED
    BY <2>4, <2>5, <2>6, <2>7, <2>8 DEF Governed
<1>4. QED
  BY <1>2, <1>3

\* The commit of a change: the only step that may take an administrator away
\* from a workspace that nobody has left.
LEMMA UpdateCommitGoverned ==
  ASSUME Known, Governed, NEW r \in Requests, UpdateCommit(r)
  PROVE  Governed'
<1>0. /\ TypeOK /\ RequestsKnown /\ req \in [Requests -> RequestRow] /\ req[r].at = "deciding"
      /\ req[r].on \in Users /\ req[r].seat \in Coops /\ req[r].want \in Change
  BY DEF Known, TypeOK, RequestRow, RequestsKnown, RequestKnown, UpdateCommit
<1> DEFINE v == req[r].on
           w == req[r].want
           c == req[r].seat
<1>1. /\ \A x \in Users : x # v => user'[x] = user[x]
      /\ \A x \in Users : user'[x].coop = user[x].coop /\ user'[x].org = user[x].org
      /\ ~Removing(v, w) /\ user[v].role = "admin" => user'[v].role = "admin" /\ (user[v].active => user'[v].active)
  BY <1>0, UpdateRow DEF Removing, Change
<1>2. UNCHANGED <<coop, founded, left>> /\ req'[r] = Idle /\ \A p \in Requests : p # r => req'[p] = req[p]
  BY <1>0 DEF UpdateCommit, Leave, Unchanged
<1>3. OrgHome'
  BY <1>1, <1>2 DEF Governed, OrgHome
<1>4. FoundingHome' /\ SwitchingAway'
  BY <1>0, <1>1, <1>2 DEF Governed, FoundingHome, SwitchingAway, Kept, Idle, RequestsKnown, RequestKnown
<1>5. \A p \in Requests : req'[p].at = "deciding" => /\ p # r /\ req'[p] = req[p] /\ req[p].seat # c
                                                      /\ req[p].on \in Users /\ req[p].seat \in Coops
  BY <1>0, <1>2 DEF Idle, Governed, DecidingAlone, RequestsKnown, RequestKnown
<1>6. DecidingHome' /\ DecidingAlone'
  BY <1>1, <1>2, <1>5 DEF Governed, DecidingHome, DecidingAlone, Kept
<1>7. user[v].coop \in Kept => user[v].coop = c
  BY <1>0 DEF Governed, DecidingHome
<1>8. DecidingCounted'
  <2> SUFFICES ASSUME NEW p \in Requests, req'[p].at = "deciding", req'[p].seat \in Kept',
                      Removing(req[p].on, req[p].want)'
               PROVE  \E u \in ActiveAdmins(req[p].seat)' : u # req'[p].on
    BY DEF DecidingCounted
  <2>1. /\ req'[p] = req[p] /\ req[p].at = "deciding" /\ req[p].seat # c /\ req[p].seat \in Kept
        /\ req[p].on \in Users /\ user[req[p].on].coop = req[p].seat
    BY <1>2, <1>5 DEF Kept, Governed, DecidingHome
  <2>2. req[p].on # v /\ user'[req[p].on] = user[req[p].on]
    BY <1>1, <1>7, <2>1
  <2>3. PICK u \in ActiveAdmins(req[p].seat) : u # req[p].on
    BY <2>1, <2>2 DEF Governed, DecidingCounted, Removing
  <2>4. u # v
    BY <1>7, <2>1, <2>3 DEF ActiveAdmins
  <2>5. QED
    BY <1>1, <2>1, <2>3, <2>4 DEF ActiveAdmins
<1>9. AdminKept'
  <2> SUFFICES ASSUME NEW d \in Kept PROVE ActiveAdmins(d)' # {}
    BY <1>2 DEF AdminKept, Kept
  <2>1. PICK u \in ActiveAdmins(d) : TRUE
    BY DEF Governed, AdminKept, Kept
  <2>2. CASE u # v
    BY <1>1, <2>1, <2>2 DEF ActiveAdmins
  <2>3. CASE u = v /\ ~Removing(v, w)
    BY <1>1, <2>1, <2>3 DEF ActiveAdmins
  <2>4. CASE u = v /\ Removing(v, w)
    <3>1. d = c
      BY <1>7, <2>1, <2>4 DEF ActiveAdmins
    <3>2. PICK x \in ActiveAdmins(c) : x # v
      BY <1>0, <2>4, <3>1 DEF Governed, DecidingCounted
    <3>3. QED
      BY <1>1, <3>1, <3>2 DEF ActiveAdmins
  <2>5. QED
    BY <2>2, <2>3, <2>4
<1>10. QED
  BY <1>3, <1>4, <1>6, <1>8, <1>9 DEF Governed

LEMMA OrganizationCommitGoverned ==
  ASSUME Known, Governed, NEW r \in Requests, NEW o \in Orgs, OrganizationCommit(r, o)
  PROVE  Governed'
<1>0. /\ TypeOK /\ RequestsKnown /\ req \in [Requests -> RequestRow] /\ req[r].at = "founding" /\ founded \subseteq Coops
      /\ req[r].by \in Users /\ req[r].seat \in Coops
  BY DEF Known, TypeOK, RequestRow, RequestsKnown, RequestKnown, OrganizationCommit
<1> DEFINE u == req[r].by
           c == req[r].seat
<1>1. /\ user' = [user EXCEPT ![u].org = o] /\ coop' = [coop EXCEPT ![c].org = o] /\ UNCHANGED <<founded, left>>
      /\ (\A v \in Users : user[v].org # o) /\ (\A d \in Coops : coop[d].org # o)
  BY DEF OrganizationCommit, Unchanged, Unnamed
<1>2. /\ user'[u].org = o /\ \A v \in Users : v # u => user'[v] = user[v]
      /\ \A v \in Users : /\ user'[v].role = user[v].role /\ user'[v].active = user[v].active
                          /\ user'[v].coop = user[v].coop
  BY <1>0, <1>1 DEF TypeOK, UserRow
<1>3. coop'[c].org = o /\ \A d \in Coops : d # c => coop'[d] = coop[d]
  BY <1>0, <1>1 DEF TypeOK, CoopRow
<1>4. \A p \in Requests : req'[p].at \in Governing => req'[p] = req[p]
  BY <1>0 DEF OrganizationCommit, Leave, Idle, Governing
<1>5. OrgHome'
  <2> SUFFICES ASSUME NEW v \in Users, NEW d \in founded, user'[v].org # Nothing, coop'[d].org = user'[v].org,
                      user'[v].coop # d
               PROVE  d \in left
    BY <1>1 DEF OrgHome
  <2>1. CASE v = u
    <3>1. d = c
      BY <1>0, <1>1, <1>2, <1>3, <2>1
    <3>2. user[u].coop = c \/ c \in left
      BY <1>0 DEF Governed, FoundingHome
    <3>3. QED
      BY <1>2, <2>1, <3>1, <3>2
  <2>2. CASE v # u
    <3>1. user'[v] = user[v] /\ d # c
      BY <1>1, <1>2, <1>3, <2>2
    <3>2. QED
      BY <1>0, <1>3, <3>1 DEF Governed, OrgHome
  <2>3. QED
    BY <2>1, <2>2
<1>6. \A d \in Coops : ActiveAdmins(d)' = ActiveAdmins(d)
  BY <1>2 DEF ActiveAdmins
<1>7. ASSUME NEW p \in Requests, req'[p].at \in Governing
      PROVE  /\ req'[p] = req[p] /\ req[p].at \in Governing /\ req[p].by \in Users /\ req[p].seat \in Coops
             /\ req[p].at = "deciding" => req[p].on \in Users
  BY <1>0, <1>4, <1>7 DEF Governing, RequestsKnown, RequestKnown
<1>8. FoundingHome' /\ SwitchingAway'
  BY <1>1, <1>2, <1>7 DEF Governed, FoundingHome, SwitchingAway, Kept, Governing
<1>9. DecidingHome' /\ DecidingAlone'
  BY <1>1, <1>2, <1>7 DEF Governed, DecidingHome, DecidingAlone, Kept, Governing
<1>10. DecidingCounted'
  <2> SUFFICES ASSUME NEW p \in Requests, req'[p].at = "deciding", req'[p].seat \in Kept',
                      Removing(req[p].on, req[p].want)'
               PROVE  \E x \in ActiveAdmins(req[p].seat)' : x # req'[p].on
    BY DEF DecidingCounted
  <2>1. /\ req'[p] = req[p] /\ req[p].at = "deciding" /\ req[p].on \in Users /\ req[p].seat \in Coops
        /\ req[p].seat \in Kept
    BY <1>1, <1>7 DEF Governing, Kept
  <2>2. \E x \in ActiveAdmins(req[p].seat) : x # req[p].on
    BY <1>2, <2>1 DEF Governed, DecidingCounted, Removing
  <2>3. QED
    BY <1>6, <2>1, <2>2
<1>11. AdminKept'
  BY <1>0, <1>1, <1>6 DEF Governed, AdminKept
<1>12. QED
  BY <1>5, <1>8, <1>9, <1>10, <1>11 DEF Governed

\* A switch takes a person only to where he is, to a workspace somebody has
\* left, or to one that no sign-up founded.
LEMMA SwitchCommitGoverned ==
  ASSUME Known, Governed, NEW r \in Requests, SwitchCommit(r)
  PROVE  Governed'
<1>0. /\ TypeOK /\ RequestsKnown /\ req \in [Requests -> RequestRow] /\ req[r].at = "switching" /\ founded \subseteq Coops
      /\ req[r].by \in Users /\ req[r].on \in Coops
  BY DEF Known, TypeOK, RequestRow, RequestsKnown, RequestKnown, SwitchCommit
<1> DEFINE u == req[r].by
           c == req[r].on
<1>1. \A p \in Requests : req'[p].at \in Governing => req'[p] = req[p]
  BY <1>0 DEF SwitchCommit, Enter, Governing
<1>2. CASE c = req[r].seat
  BY <1>1, <1>2, GovernedStays DEF SwitchCommit
<1>3. CASE c # req[r].seat
  <2>1. /\ user' = [user EXCEPT ![u].coop = c] /\ left' = left \cup {user[u].coop} /\ UNCHANGED <<coop, founded>>
    BY <1>3 DEF SwitchCommit
  <2>2. /\ user'[u].coop = c /\ \A v \in Users : v # u => user'[v] = user[v]
        /\ \A v \in Users : /\ user'[v].role = user[v].role /\ user'[v].active = user[v].active
                            /\ user'[v].org = user[v].org
    BY <1>0, <2>1 DEF TypeOK, UserRow
  <2>3. c \notin Kept /\ Kept' = Kept \ {user[u].coop}
    BY <1>0, <1>3, <2>1 DEF Governed, SwitchingAway, Kept
  <2>4. ASSUME NEW p \in Requests, req'[p].at \in Governing
        PROVE  /\ req'[p] = req[p] /\ req[p].at \in Governing /\ req[p].by \in Users /\ req[p].seat \in Coops
               /\ req[p].at = "deciding" => req[p].on \in Users
    BY <1>0, <1>1, <2>4 DEF Governing, RequestsKnown, RequestKnown
  <2>5. OrgHome'
    <3> SUFFICES ASSUME NEW v \in Users, NEW d \in founded, user'[v].org # Nothing, coop'[d].org = user'[v].org,
                        user'[v].coop # d
                 PROVE  d \in left'
      BY <2>1 DEF OrgHome
    <3>1. user[v].coop # d => d \in left
      BY <2>1, <2>2 DEF Governed, OrgHome
    <3>2. user[v].coop = d => v = u
      BY <2>2
    <3>3. QED
      BY <2>1, <3>1, <3>2
  <2>6. FoundingHome'
    <3> SUFFICES ASSUME NEW p \in Requests, req'[p].at = "founding"
                 PROVE  user'[req[p].by].coop = req[p].seat \/ req[p].seat \in left'
      BY <2>4 DEF FoundingHome, Governing
    <3>1. req'[p] = req[p] /\ req[p].by \in Users /\ (user[req[p].by].coop = req[p].seat \/ req[p].seat \in left)
      BY <2>4 DEF Governed, FoundingHome, Governing
    <3>2. QED
      BY <2>1, <2>2, <3>1
  <2>7. SwitchingAway'
    BY <2>3, <2>4 DEF Governed, SwitchingAway, Governing
  <2>8. ASSUME NEW d \in Kept' PROVE ActiveAdmins(d)' = ActiveAdmins(d)
    BY <2>2, <2>3 DEF ActiveAdmins
  <2>9. ASSUME NEW p \in Requests, req'[p].at = "deciding"
        PROVE  /\ user'[req[p].on].coop \in Kept' => user'[req[p].on].coop = req[p].seat
               /\ req[p].seat \in Kept' => user'[req[p].on].coop = req[p].seat
    <3>1. /\ req'[p] = req[p] /\ req[p].at = "deciding" /\ req[p].on \in Users
      BY <2>4, <2>9 DEF Governing
    <3>2. CASE req[p].on = u
      <4>1. req[p].seat \notin Kept'
        BY <2>3, <3>1, <3>2 DEF Governed, DecidingHome
      <4>2. QED
        BY <2>2, <2>3, <3>2, <4>1
    <3>3. CASE req[p].on # u
      BY <2>2, <2>3, <3>1, <3>3 DEF Governed, DecidingHome
    <3>4. QED
      BY <3>2, <3>3
  <2>10. DecidingHome' /\ DecidingAlone'
    BY <2>4, <2>9 DEF Governed, DecidingHome, DecidingAlone, Governing
  <2>11. DecidingCounted'
    <3> SUFFICES ASSUME NEW p \in Requests, req'[p].at = "deciding", req'[p].seat \in Kept',
                        Removing(req[p].on, req[p].want)'
                 PROVE  \E x \in ActiveAdmins(req[p].seat)' : x # req'[p].on
      BY DEF DecidingCounted
    <3>1. req'[p] = req[p] /\ req[p].at = "deciding" /\ req[p].on \in Users /\ req[p].seat \in Kept
      BY <2>3, <2>4 DEF Governing
    <3>2. \E x \in ActiveAdmins(req[p].seat) : x # req[p].on
      BY <2>2, <3>1 DEF Governed, DecidingCounted, Removing
    <3>3. QED
      BY <2>8, <3>1, <3>2
  <2>12. AdminKept'
    BY <2>3, <2>8 DEF Governed, AdminKept, Kept
  <2>13. QED
    BY <2>5, <2>6, <2>7, <2>10, <2>11, <2>12 DEF Governed
<1>4. QED
  BY <1>2, <1>3

\* The commits that are about sessions and passwords.
LEMMA OtherCommitGoverned ==
  ASSUME Known, Governed, NEW r \in Requests,
         \/ \E t \in Tokens : IssueSession(r, t) \/ ExchangeCommit(r, t) \/ PasswordCommit(r, t)
         \/ AcceptCommit(r) \/ EndCommit(r) \/ RevokeCommit(r)
  PROVE  Governed'
<1>0. TypeOK /\ RequestKnown(req[r]) /\ req \in [Requests -> RequestRow]
  BY DEF Known, TypeOK, RequestsKnown, RequestRow
<1>1. UNCHANGED <<coop, founded, left>> /\ Leave(r)
  BY DEF IssueSession, ExchangeCommit, PasswordCommit, AcceptCommit, EndCommit, RevokeCommit, Unchanged
<1>2. \A p \in Requests : req'[p].at \in Governing => req'[p] = req[p]
  BY <1>0, <1>1 DEF Leave, Idle, Governing
<1>3. \A v \in Users : /\ user'[v].role = user[v].role /\ user'[v].active = user[v].active
                       /\ user'[v].coop = user[v].coop /\ user'[v].org = user[v].org
  <2>1. ASSUME NEW t \in Tokens, PasswordCommit(r, t)
        PROVE  \A v \in Users : /\ user'[v].role = user[v].role /\ user'[v].active = user[v].active
                                /\ user'[v].coop = user[v].coop /\ user'[v].org = user[v].org
    <3>1. req[r].by \in Users
      BY <1>0, <2>1 DEF PasswordCommit, RequestKnown
    <3>2. QED
      BY <1>0, <2>1, <3>1, LinksRow DEF PasswordCommit, TypeOK
  <2>2. ASSUME AcceptCommit(r)
        PROVE  \A v \in Users : /\ user'[v].role = user[v].role /\ user'[v].active = user[v].active
                                /\ user'[v].coop = user[v].coop /\ user'[v].org = user[v].org
    <3>1. req[r].by \in Users
      BY <1>0, <2>2 DEF AcceptCommit, RequestKnown
    <3>2. QED
      BY <1>0, <2>2, <3>1, LinksRow DEF AcceptCommit, TypeOK
  <2>3. QED
    BY <2>1, <2>2 DEF IssueSession, ExchangeCommit, EndCommit, RevokeCommit, Unchanged
<1>4. QED
  BY <1>1, <1>2, <1>3, GovernedStays

LEMMA GovernedStep == ASSUME Known, Governed, [Next]_vars PROVE Governed'
<1>0. TypeOK /\ RowsKnown /\ req \in [Requests -> RequestRow]
  BY DEF Known, TypeOK, RequestRow
<1>1. ASSUME NEW r \in Requests, Proceeds(r) PROVE Governed'
  BY <1>1, SignupCommitGoverned, AddCommitGoverned, UpdateLockGoverned, UpdateCommitGoverned,
     OrganizationCommitGoverned, SwitchCommitGoverned, OtherCommitGoverned DEF Proceeds
<1>2. ASSUME NEW r \in Requests, Crash(r) PROVE Governed'
  <2>1. UNCHANGED <<user, coop, founded, left>> /\ \A p \in Requests : req'[p].at \in Governing => req'[p] = req[p]
    BY <1>0, <1>2 DEF Crash, Leave, Idle, Governing, Unchanged
  <2>2. QED
    BY <2>1, GovernedStays
<1>3. ASSUME NEW u \in Users, NEW c \in Coops, CreateOrganizationCooperative(u, c) PROVE Governed'
  <2>1. c \notin founded /\ founded \subseteq Coops
    BY <1>0, <1>3 DEF CreateOrganizationCooperative, Unopened, RowsKnown, CoopKnown, TypeOK
  <2>2. UNCHANGED <<user, req, founded, left>> /\ \A d \in founded : coop'[d].org = coop[d].org
    BY <1>0, <1>3, <2>1 DEF CreateOrganizationCooperative, Unchanged, TypeOK
  <2>3. QED
    BY <2>2, GovernedStays
<1>4. ASSUME NEW u \in Users, PasswordResetRequest(u) PROVE Governed'
  <2>1. \A v \in Users : /\ user'[v].role = user[v].role /\ user'[v].active = user[v].active
                         /\ user'[v].coop = user[v].coop /\ user'[v].org = user[v].org
    BY <1>0, <1>4, LinksRow DEF PasswordResetRequest, TypeOK
  <2>2. QED
    BY <1>4, <2>1, GovernedStays DEF PasswordResetRequest, Unchanged
<1>5. CASE Expire
  <2>1. \A v \in Users : /\ user'[v].role = user[v].role /\ user'[v].active = user[v].active
                         /\ user'[v].coop = user[v].coop /\ user'[v].org = user[v].org
    <3>1. ASSUME NEW u \in Users, user' = [user EXCEPT ![u].invite = FALSE, ![u].reset = FALSE]
          PROVE  \A v \in Users : /\ user'[v].role = user[v].role /\ user'[v].active = user[v].active
                                  /\ user'[v].coop = user[v].coop /\ user'[v].org = user[v].org
      BY <1>0, <3>1, LinksRow DEF TypeOK
    <3>2. QED
      BY <1>5, <3>1 DEF Expire
  <2>2. QED
    BY <1>5, <2>1, GovernedStays DEF Expire, Unchanged
<1>6. CASE \/ \E k \in Checkouts : PreCheckout(k) \/ ProcessPreCheckout(k)
           \/ \E u \in Users : LogoutAll(u)
           \/ UNCHANGED vars
  <2>1. UNCHANGED <<user, coop, req, founded, left>>
    BY <1>6 DEF PreCheckout, ProcessPreCheckout, LogoutAll, Unchanged, vars
  <2>2. QED
    BY <2>1, GovernedStays
<1>7. QED
  BY <1>1, <1>2, <1>3, <1>4, <1>5, <1>6, ArrivesGoverned DEF Next

\* A workspace opened by a sign-up has an active administrator, whatever its
\* administrators change of each other at the same time, until somebody
\* switches away from it.
THEOREM WorkspaceGoverned == Spec => []AdminKept
<1>1. Init => Governed
  BY DEF Init, Governed, OrgHome, FoundingHome, SwitchingAway, DecidingHome, DecidingAlone, DecidingCounted,
     AdminKept, Idle
<1>2. Known /\ Governed /\ [Next]_vars => Governed'
  BY GovernedStep
<1>3. Governed => AdminKept
  BY DEF Governed
<1>4. QED
  BY <1>1, <1>2, <1>3, AccessKnown, PTL DEF Spec

===============================================================================
