-------------------------------- MODULE Access --------------------------------
(***************************************************************************)
(* Staff accounts: the sign-up that opens a workspace (paid for by a       *)
(* checkout or on trial), the people its administrators add and change,    *)
(* their sessions (rotating refresh tokens), passwords, and organizations  *)
(* whose administrators move between member cooperatives.                  *)
(*                                                                         *)
(* A handler reads in one step and writes in a later one, when it commits. *)
(* What it holds locked meanwhile is derived from where it is: a sign-up   *)
(* its checkout, a change of a user the cooperative's row.                 *)
(***************************************************************************)
EXTENDS Naturals, FiniteSets

CONSTANTS
  Users,         \* accounts there can be, by e-mail address
  Coops, Orgs, Checkouts, Requests,
  Tokens,        \* bound on the refresh tokens ever issued
  Changes,       \* what an administrator may ask to change of a user
  Nothing,       \* no organization, checkout or subject
  Environments   \* the sets of events (of AllEvents) that are considered

\* overlap: two requests are served at a time.  sign_up: workspaces beyond the
\* first are opened, with or without a checkout.  add, invite, change:
\* administrators add people with a password or by a link, and change them.
\* sign_in, sign_out, password, organization: those operations are used.
\* crash: the process dies.  expire: links and refresh tokens run out.
AllEvents == {"overlap", "sign_up", "add", "invite", "change", "sign_in",
              "sign_out", "password", "organization", "crash", "expire"}

ASSUME NothingAssumption ==
  Nothing \notin Users \cup Coops \cup Orgs \cup Checkouts \cup Tokens
ASSUME FiniteAssumption == IsFiniteSet(Users) /\ IsFiniteSet(Tokens) /\ IsFiniteSet(Requests)
Change == [role : {"keep", "admin", "staff"}, active : {"keep", "on", "off"}]
ASSUME ChangesAssumption == Changes \subseteq Change
ASSUME EnvironmentsAssumption == Environments \subseteq SUBSET AllEvents

VARIABLES
  user,      \* users, by e-mail; role "none" while there is no row
  coop,      \* cooperatives: organization_id, and the checkout that paid
  checkout,  \* pending_checkouts.status
  token,     \* staff_refresh_tokens
  req,       \* requests under way: place, caller, subject, his cooperative, change asked
  founded,   \* cooperatives opened by a sign-up
  left,      \* cooperatives somebody has switched away from
  exchanged, \* refresh tokens for which a successor was handed out
  env        \* the events that may happen, fixed for a behaviour

vars == <<user, coop, checkout, token, req, founded, left, exchanged, env>>

UserRow == [role : {"none", "admin", "staff"}, coop : Coops \cup {Nothing},
            org : Orgs \cup {Nothing}, active : BOOLEAN, password : BOOLEAN,
            must_change : BOOLEAN, invite : BOOLEAN, reset : BOOLEAN]
CheckoutStatus == {"none", "pending", "paid", "consumed"}
CoopRow == [open : BOOLEAN, org : Orgs \cup {Nothing}, paid_by : Checkouts \cup {Nothing}]
TokenRow == [user : Users \cup {Nothing}, state : {"none", "live", "ended", "rotated"}]
Keep == [role |-> "keep", active |-> "keep"]
Places == {"idle", "opening", "session", "adding", "inviting", "waiting", "deciding",
           "exchanging", "retiring", "revoking", "ending", "resetting", "changing",
           "accepting", "founding", "switching"}
Subjects == Users \cup Coops \cup Checkouts \cup Tokens \cup {Nothing}

NoUser == [role |-> "none", coop |-> Nothing, org |-> Nothing, active |-> FALSE,
           password |-> FALSE, must_change |-> FALSE, invite |-> FALSE, reset |-> FALSE]
NewUser == [NoUser EXCEPT !.active = TRUE]
Idle == [at |-> "idle", by |-> Nothing, on |-> Nothing, seat |-> Nothing, want |-> Keep]

TypeOK ==
  /\ user \in [Users -> UserRow]
  /\ coop \in [Coops -> CoopRow]
  /\ checkout \in [Checkouts -> CheckoutStatus]
  /\ token \in [Tokens -> TokenRow]
  /\ req \in [Requests -> [at : Places, by : Users \cup {Nothing}, on : Subjects,
                           seat : Coops \cup {Nothing}, want : Change]]
  /\ founded \subseteq Coops
  /\ left \subseteq Coops
  /\ exchanged \subseteq Tokens
  /\ env \in Environments

Init ==
  /\ user = [u \in Users |-> NoUser]
  /\ coop = [c \in Coops |-> [open |-> FALSE, org |-> Nothing, paid_by |-> Nothing]]
  /\ checkout = [k \in Checkouts |-> "none"]
  /\ token = [t \in Tokens |-> [user |-> Nothing, state |-> "none"]]
  /\ req = [r \in Requests |-> Idle]
  /\ founded = {} /\ left = {} /\ exchanged = {}
  /\ env \in Environments

-------------------------------------------------------------------------------
(* What the handlers share. *)

Free(r) == req[r].at = "idle" /\ ("overlap" \in env \/ \A q \in Requests : req[q].at = "idle")
Exists(u) == user[u].role # "none"
\* an access token of u passes get_current_user, and require_roles("admin")
SignedIn(u) == Exists(u) /\ user[u].active /\ user[u].password /\ ~user[u].must_change
Admin(u) == SignedIn(u) /\ user[u].role = "admin"
ActiveAdmins(c) == {u \in Users : user[u].coop = c /\ user[u].role = "admin" /\ user[u].active}
Live(u) == {t \in Tokens : token[t] = [user |-> u, state |-> "live"]}

\* Mutant: signup reads its checkout without locking it.
CheckoutLocked_Never(k) == FALSE

\* Rows an open transaction holds with SELECT ... FOR UPDATE.
CheckoutLocked(k) == \E r \in Requests : req[r].at = "opening" /\ req[r].on = k

\* Mutant: update_user counts without locking the cooperative.
CoopLocked_Never(c) == FALSE

CoopLocked(c) == \E r \in Requests : req[r].at = "deciding" /\ req[r].seat = c

\* The tokens as revoke_user_refresh_tokens leaves them.
Revoked(u) == [t \in Tokens |-> IF t \in Live(u) THEN [token[t] EXCEPT !.state = "ended"] ELSE token[t]]
Issue(f, t, u) == [f EXCEPT ![t] = [user |-> u, state |-> "live"]]
Unused(t) == token[t].state = "none"
At(places) == Cardinality({r \in Requests : req[r].at \in places})
Unopened == {c \in Coops : ~coop[c].open}
Unnamed == {o \in Orgs : (\A c \in Coops : coop[c].org # o) /\ (\A u \in Users : user[u].org # o)}
\* Bounds: work is begun only while there are rows left for all that is under way.
TokenSpare == At({"opening", "session", "exchanging", "changing", "switching"})
                < Cardinality({t \in Tokens : Unused(t)})
CoopSpare == At({"opening"}) < Cardinality(Unopened)
OrgSpare == At({"founding"}) < Cardinality(Unnamed)

Enter(r, at, u, x, c, w) ==
  req' = [req EXCEPT ![r] = [at |-> at, by |-> u, on |-> x, seat |-> c, want |-> w]]
Leave(r) == req' = [req EXCEPT ![r] = Idle]
Unchanged(others) == UNCHANGED <<others, founded, left, exchanged, env>>

-------------------------------------------------------------------------------
(* Checkout and sign-up. *)

\* The pricing page makes a payment link; the row is committed with the link.
PreCheckout(k) ==
  /\ "sign_up" \in env /\ checkout[k] = "none"
  /\ checkout' = [checkout EXCEPT ![k] = "pending"]
  /\ Unchanged(<<user, coop, token, req>>)

\* The provider's confirmation of the right amount; it may come again.
ProcessPreCheckout(k) ==
  /\ checkout[k] = "pending" /\ ~CheckoutLocked(k)
  /\ checkout' = [checkout EXCEPT ![k] = "paid"]
  /\ Unchanged(<<user, coop, token, req>>)

\* signup up to the provider's create_account, which it awaits.
Signup(r, u, k) ==
  /\ Free(r) /\ TokenSpare /\ CoopSpare /\ ~Exists(u)
  /\ "sign_up" \in env \/ founded = {}
  /\ \/ k = Nothing
     \/ k \in Checkouts /\ ~CheckoutLocked(k) /\ checkout[k] = "paid"
  /\ Enter(r, "opening", u, k, Nothing, Keep)
  /\ Unchanged(<<user, coop, checkout, token>>)

\* The rest of signup to its first commit; an e-mail taken meanwhile rolls it back.
SignupCommit(r, c) ==
  LET u == req[r].by
      k == req[r].on
  IN
  /\ req[r].at = "opening" /\ c \in Unopened
  /\ IF Exists(u)
     THEN Leave(r) /\ UNCHANGED <<user, coop, checkout, founded>>
     ELSE /\ user' = [user EXCEPT ![u] = [NewUser EXCEPT !.role = "admin", !.coop = c, !.password = TRUE]]
          /\ coop' = [coop EXCEPT ![c] = [open |-> TRUE, org |-> Nothing, paid_by |-> k]]
          /\ checkout' = IF k = Nothing THEN checkout ELSE [checkout EXCEPT ![k] = "consumed"]
          /\ founded' = founded \cup {c}
          /\ Enter(r, "session", u, Nothing, Nothing, Keep)
  /\ UNCHANGED <<token, left, exchanged, env>>

\* session_response in a transaction of its own: sign-up, login, a switch.
IssueSession(r, t) ==
  /\ req[r].at = "session" /\ Unused(t)
  /\ token' = Issue(token, t, req[r].by)
  /\ Leave(r)
  /\ Unchanged(<<user, coop, checkout>>)

-------------------------------------------------------------------------------
(* People. *)

\* register (a temporary password) and invite (a link), up to their commit.
Add(r, u, v, place, role) ==
  /\ Free(r) /\ Admin(u) /\ ~Exists(v)
  /\ Enter(r, place, u, v, user[u].coop, [Keep EXCEPT !.role = role])
  /\ Unchanged(<<user, coop, checkout, token>>)
Register(r, u, v, role) == "add" \in env /\ Add(r, u, v, "adding", role)
InviteUser(r, u, v, role) == "invite" \in env /\ Add(r, u, v, "inviting", role)

AddCommit(r) ==
  LET v == req[r].on
      invited == req[r].at = "inviting"
  IN
  /\ req[r].at \in {"adding", "inviting"}
  /\ user' = IF Exists(v) THEN user
             ELSE [user EXCEPT ![v] = [NewUser EXCEPT !.role = req[r].want.role, !.coop = req[r].seat,
                                         !.password = ~invited, !.must_change = TRUE, !.invite = invited]]
  /\ Leave(r)
  /\ Unchanged(<<coop, checkout, token>>)

AcceptInvite(r, u) ==
  /\ Free(r) /\ user[u].invite
  /\ Enter(r, "accepting", u, Nothing, Nothing, Keep)
  /\ Unchanged(<<user, coop, checkout, token>>)

AcceptCommit(r) ==
  /\ req[r].at = "accepting"
  /\ user' = [user EXCEPT ![req[r].by].password = TRUE, ![req[r].by].invite = FALSE,
                          ![req[r].by].must_change = FALSE]
  /\ Leave(r)
  /\ Unchanged(<<coop, checkout, token>>)

\* update_user: the caller is authorised, then waits for the cooperative's row.
UpdateUser(r, u, v, w) ==
  /\ "change" \in env /\ Free(r) /\ Admin(u) /\ Exists(v)
  /\ Enter(r, "waiting", u, v, user[u].coop, w)
  /\ Unchanged(<<user, coop, checkout, token>>)

Removing(v, w) == user[v].role = "admin" /\ (w.role = "staff" \/ w.active = "off")
\* what update_user requires once it holds the row
Allowed(r) ==
  LET v == req[r].on
      w == req[r].want
      c == req[r].seat
  IN
  /\ user[v].coop = c
  /\ ~(v = req[r].by /\ w.active = "off")
  /\ Removing(v, w) => Cardinality(ActiveAdmins(c)) > 1

UpdateLock(r) ==
  /\ req[r].at = "waiting" /\ ~CoopLocked(req[r].seat)
  /\ IF Allowed(r) THEN req' = [req EXCEPT ![r].at = "deciding"] ELSE Leave(r)
  /\ Unchanged(<<user, coop, checkout, token>>)

\* Mutant: the sessions of a user who is deactivated are forgotten.
UpdateCommit_KeepsSessions(r) ==
  /\ req[r].at = "deciding"
  /\ user' = [user EXCEPT ![req[r].on].active = IF req[r].want.active = "keep" THEN @
                                                 ELSE req[r].want.active = "on"]
  /\ Leave(r)
  /\ Unchanged(<<coop, checkout, token>>)

\* The caller's own row was read when he was authorised, as an active
\* administrator; a value he already had is not written.
UpdateCommit(r) ==
  LET v == req[r].on
      w == req[r].want
      own == v = req[r].by
  IN
  /\ req[r].at = "deciding"
  /\ user' = [user EXCEPT
       ![v].role = IF w.role = "keep" \/ (own /\ w.role = "admin") THEN @ ELSE w.role,
       ![v].active = IF w.active = "keep" \/ own THEN @ ELSE w.active = "on"]
  /\ token' = IF w.active = "off" THEN Revoked(v) ELSE token
  /\ Leave(r)
  /\ Unchanged(<<coop, checkout>>)

-------------------------------------------------------------------------------
(* Sessions and passwords. *)

Login(r, u) ==
  /\ "sign_in" \in env /\ Free(r) /\ TokenSpare
  /\ Exists(u) /\ user[u].active /\ user[u].password
  /\ Enter(r, "session", u, Nothing, Nothing, Keep)
  /\ Unchanged(<<user, coop, checkout, token>>)

\* rotate_refresh_token reads the token, without a lock, and decides.
Refresh(r, t) ==
  LET u == token[t].user IN
  /\ "sign_in" \in env /\ Free(r) /\ TokenSpare
  /\ \/ token[t].state = "live" /\ user[u].active /\ Enter(r, "exchanging", u, t, Nothing, Keep)
     \/ token[t].state = "live" /\ ~user[u].active /\ Enter(r, "retiring", u, t, Nothing, Keep)
     \/ token[t].state = "rotated" /\ Enter(r, "revoking", u, t, Nothing, Keep)
  /\ Unchanged(<<user, coop, checkout, token>>)

ExchangeCommit(r, t) ==
  /\ req[r].at = "exchanging" /\ Unused(t)
  /\ token' = Issue([token EXCEPT ![req[r].on].state = "rotated"], t, req[r].by)
  /\ exchanged' = exchanged \cup {req[r].on}
  /\ Leave(r)
  /\ UNCHANGED <<user, coop, checkout, founded, left, env>>

\* Mutant: a logout marks the token rotated.
End_Rotates(t) == [token EXCEPT ![t].state = "rotated"]

\* revoked_at is set; rotated stays as it is.
End(t) == [token EXCEPT ![t].state = IF @ = "rotated" THEN @ ELSE "ended"]

\* the token of an inactive user is retired; logout ends the one presented
Logout(r, t) ==
  /\ "sign_out" \in env /\ Free(r) /\ token[t].state = "live"
  /\ Enter(r, "ending", token[t].user, t, Nothing, Keep)
  /\ Unchanged(<<user, coop, checkout, token>>)

EndCommit(r) ==
  /\ req[r].at \in {"retiring", "ending"}
  /\ token' = End(req[r].on)
  /\ Leave(r)
  /\ Unchanged(<<user, coop, checkout>>)

\* A rotated token presented again ends every session of its user.
RevokeCommit(r) ==
  /\ req[r].at = "revoking"
  /\ token' = Revoked(req[r].by)
  /\ Leave(r)
  /\ Unchanged(<<user, coop, checkout>>)

LogoutAll(u) ==
  /\ Exists(u) /\ user[u].active
  /\ token' = Revoked(u)
  /\ Unchanged(<<user, coop, checkout, req>>)

PasswordResetRequest(u) ==
  /\ "password" \in env /\ Exists(u) /\ user[u].active
  /\ user' = [user EXCEPT ![u].reset = TRUE]
  /\ Unchanged(<<coop, checkout, token, req>>)

PasswordReset(r, u) ==
  /\ Free(r) /\ user[u].reset
  /\ Enter(r, "resetting", u, Nothing, Nothing, Keep)
  /\ Unchanged(<<user, coop, checkout, token>>)

ChangePassword(r, u) ==
  /\ "password" \in env /\ Free(r) /\ TokenSpare
  /\ Exists(u) /\ user[u].active /\ user[u].password
  /\ Enter(r, "changing", u, Nothing, Nothing, Keep)
  /\ Unchanged(<<user, coop, checkout, token>>)

\* Both end every session; a change begins a new one in the same commit.
PasswordCommit(r, t) ==
  LET u == req[r].by IN
  /\ \/ req[r].at = "resetting" /\ token' = Revoked(u)
        /\ user' = [user EXCEPT ![u].password = TRUE, ![u].must_change = FALSE, ![u].reset = FALSE]
     \/ req[r].at = "changing" /\ Unused(t) /\ token' = Issue(Revoked(u), t, u)
        /\ user' = [user EXCEPT ![u].must_change = FALSE]
  /\ Leave(r)
  /\ Unchanged(<<coop, checkout>>)

-------------------------------------------------------------------------------
(* Organizations. *)

CreateOrganization(r, u) ==
  /\ "organization" \in env /\ Free(r) /\ Admin(u) /\ OrgSpare
  /\ user[u].org = Nothing /\ coop[user[u].coop].org = Nothing
  /\ Enter(r, "founding", u, Nothing, user[u].coop, Keep)
  /\ Unchanged(<<user, coop, checkout, token>>)

OrganizationCommit(r, o) ==
  /\ req[r].at = "founding" /\ o \in Unnamed
  /\ coop' = [coop EXCEPT ![req[r].seat].org = o]
  /\ user' = [user EXCEPT ![req[r].by].org = o]
  /\ Leave(r)
  /\ Unchanged(<<checkout, token>>)

CreateOrganizationCooperative(u, c) ==
  /\ "organization" \in env /\ Admin(u) /\ user[u].org # Nothing /\ CoopSpare /\ c \in Unopened
  /\ coop' = [coop EXCEPT ![c] = [open |-> TRUE, org |-> user[u].org, paid_by |-> Nothing]]
  /\ Unchanged(<<user, checkout, token, req>>)

\* switch_active_cooperative takes no lock and asks for no role.
SwitchActiveCooperative(r, u, c) ==
  /\ "organization" \in env /\ Free(r) /\ TokenSpare /\ SignedIn(u)
  /\ user[u].org # Nothing /\ coop[c].org = user[u].org
  /\ Enter(r, "switching", u, c, user[u].coop, Keep)
  /\ Unchanged(<<user, coop, checkout, token>>)

SwitchCommit(r) ==
  LET u == req[r].by
      c == req[r].on
  IN
  /\ req[r].at = "switching"
  /\ IF c = req[r].seat THEN UNCHANGED <<user, left>>
     ELSE user' = [user EXCEPT ![u].coop = c] /\ left' = left \cup {user[u].coop}
  /\ Enter(r, "session", u, Nothing, Nothing, Keep)
  /\ UNCHANGED <<coop, checkout, token, founded, exchanged, env>>

-------------------------------------------------------------------------------
(* Time and failures. *)

\* A link or a refresh token that has run out is as good as one taken back.
Expire ==
  /\ "expire" \in env
  /\ \/ \E u \in Users : /\ user[u].invite \/ user[u].reset
                         /\ user' = [user EXCEPT ![u].invite = FALSE, ![u].reset = FALSE]
                         /\ UNCHANGED token
     \/ \E t \in Tokens : /\ token[t].state = "live"
                          /\ token' = [token EXCEPT ![t].state = "ended"]
                          /\ UNCHANGED user
  /\ Unchanged(<<coop, checkout, req>>)

\* What a request has not committed is rolled back, its locks go.
Crash(r) ==
  /\ "crash" \in env /\ req[r].at # "idle"
  /\ Leave(r)
  /\ Unchanged(<<user, coop, checkout, token>>)

\* A request arrives: the handler reads and decides, and has written nothing yet.
Arrives(r) ==
  \/ \E u \in Users :
       \/ \E k \in Checkouts \cup {Nothing} : Signup(r, u, k)
       \/ \E v \in Users :
            \/ \E role \in {"admin", "staff"} : Register(r, u, v, role) \/ InviteUser(r, u, v, role)
            \/ \E w \in Changes : UpdateUser(r, u, v, w)
       \/ AcceptInvite(r, u) \/ Login(r, u) \/ PasswordReset(r, u) \/ ChangePassword(r, u)
       \/ CreateOrganization(r, u)
       \/ \E c \in Coops : SwitchActiveCooperative(r, u, c)
  \/ \E t \in Tokens : Refresh(r, t) \/ Logout(r, t)

\* It takes a lock it waited for, or commits.
Proceeds(r) ==
  \/ \E c \in Coops : SignupCommit(r, c)
  \/ \E t \in Tokens : IssueSession(r, t) \/ ExchangeCommit(r, t) \/ PasswordCommit(r, t)
  \/ \E o \in Orgs : OrganizationCommit(r, o)
  \/ AddCommit(r) \/ AcceptCommit(r) \/ UpdateLock(r) \/ UpdateCommit(r)
  \/ EndCommit(r) \/ RevokeCommit(r) \/ SwitchCommit(r)

Next ==
  \/ \E k \in Checkouts : PreCheckout(k) \/ ProcessPreCheckout(k)
  \/ \E u \in Users : \/ LogoutAll(u) \/ PasswordResetRequest(u)
                      \/ \E c \in Coops : CreateOrganizationCooperative(u, c)
  \/ Expire
  \/ \E r \in Requests : Arrives(r) \/ Proceeds(r) \/ Crash(r)

Spec == Init /\ [][Next]_vars

-------------------------------------------------------------------------------
(* Properties. *)

\* A workspace opened by a sign-up always has an active administrator,
\* whatever changes its administrators make to each other at the same time
\* (update_user counts under the cooperative's lock), as long as nobody has
\* switched away from it.
AdminKept == \A c \in founded \ left : ActiveAdmins(c) # {}

\* A paid checkout opens one workspace: signup holds its row from the check of
\* its status, over the provider's call, to the commit that consumes it, and a
\* sign-up that fails leaves it paid.
PaidOpensOne ==
  \A k \in Checkouts :
    /\ Cardinality({c \in Coops : coop[c].paid_by = k}) <= 1
    /\ checkout[k] = "consumed" <=> \E c \in Coops : coop[c].paid_by = k

\* Deactivating a user ends his sessions: all that can be left are those of
\* requests that were under way, which read him as active.
DeactivationEndsSessions ==
  \A u \in Users :
    Exists(u) /\ ~user[u].active => Cardinality(Live(u)) < Cardinality(Requests)

\* Only the replay of a token for which a successor was handed out ends a
\* user's other sessions; presenting one that a logout, a password change or a
\* deactivation ended does not.
ReplayNeedsSuccessor ==
  [][\A r \in Requests : req[r].at = "revoking" => req[r].on \in exchanged]_vars

===============================================================================
