-------------------------------- MODULE Auth --------------------------------
(***************************************************************************)
(* Authentication (crates/auth-front): the accounts of one project or      *)
(* tenant with the indexes that find them, one-time codes, tokens, second  *)
(* factors, and the sign-in requests.                                      *)
(*                                                                         *)
(* A request takes the state lock once per `scope`; between two scopes it  *)
(* awaits a blocking function, and other requests run.  One scope is one   *)
(* action, the save and the announcements at its end included (a kill      *)
(* between those two is left out); a request that is awaiting is an entry  *)
(* of `flows`.  Left out of an account is what nothing here reads: names,  *)
(* pictures, claims, dates, and the addresses of federated profiles with   *)
(* their index.  One federated provider stands for all.                    *)
(***************************************************************************)
EXTENDS Integers, Sequences, FiniteSets, FiniteSetsExt, Functions, TLC

CONSTANTS
    Emails, Phones, Passwords, RawIds, Passkeys,
    None,           \* an absent field
    MaxUsers,       \* bound: local ids
    Threads,        \* bound: requests under way at a time
    MaxRequests,    \* bound: requests, failed saves and switches, together
    MaxTime,        \* bound: seconds
    Outcomes,       \* what a blocking function may change of an account
    Boots,          \* what the state file may hold at the start
    Configs         \* the configurations an owner may set

VARIABLES
    db,         \* ProjectState: accounts and indexes
    is_tenant,  \* whether the project state is a tenant's
    config,     \* the project's configuration and the tenant's
    oobs,       \* ProjectState::oobs
    codes,      \* ProjectState::verification_codes
    proofs,     \* ProjectState::temporary_proofs
    uses,       \* ghost: how often each one-time code was accepted
    tokens,     \* the tokens clients hold
    pendings,   \* the pending credentials clients hold: accounts
    flows,      \* the requests that await a blocking function
    stored,     \* the state file
    functions,  \* whether the background is on and the event queue open
    announced,  \* announcements enqueued: creations less deletions, by local id
    dropped,    \* ghost: accounts of which an announcement was dropped
    requests, failures, now

creds == <<oobs, codes, proofs, uses>>
outside == <<stored, functions, announced, dropped>>
vars == <<db, is_tenant, config, oobs, codes, proofs, uses, tokens, pendings, flows, outside, requests,
          failures, now>>

LocalIds == 1 .. MaxUsers
Or(S) == S \cup {None}

-----------------------------------------------------------------------------
(* Accounts and their indexes: state.rs.                                    *)

Account == [email : Or(Emails), initial : Or(Emails), phone : Or(Phones),
            password : Or(Passwords), verified : BOOLEAN, link : BOOLEAN,
            disabled : BOOLEAN, since : 0 .. MaxTime, mfa : Seq(Phones),
            passkeys : SUBSET Passkeys, idp : Or(RawIds)]

Bare == [email |-> None, initial |-> None, phone |-> None, password |-> None,
         verified |-> FALSE, link |-> FALSE, disabled |-> FALSE, since |-> 0,
         mfa |-> <<>>, passkeys |-> {}, idp |-> None]

Empty == [x \in {} |-> 0]
Without(f, S) == Restrict(f, DOMAIN f \ S)
Set(f, x, v) == IF x = None THEN f ELSE (x :> v) @@ f

(* One index, over accounts taken in the order of their ids. *)
Index(users, field) ==
    [x \in {users[u][field] : u \in DOMAIN users} \ {None} |->
        Max({u \in DOMAIN users : users[u][field] = x})]

(* `half`, `contested` and `untold` are ghosts: accounts whose import       *)
(* failed half-way, addresses two accounts have had at once, and accounts   *)
(* that came or went without an event.  `net` counts the events queued for  *)
(* an account, creations less deletions.                                    *)
rebuild_indexes(users) ==
    [users     |-> users,
     byEmail   |-> Index(users, "email"),
     byInitial |-> Index(users, "initial"),
     byPhone   |-> Index(users, "phone"),
     byRaw     |-> Index(users, "idp"),
     byPasskey |-> [k \in UNION {users[u].passkeys : u \in DOMAIN users} |->
                        Max({u \in DOMAIN users : k \in users[u].passkeys})],
     known     |-> DOMAIN users,
     half      |-> {},
     contested |-> {e \in Emails : Cardinality({u \in DOMAIN users : users[u].email = e}) > 1},
     untold    |-> DOMAIN users,
     net       |-> [u \in LocalIds |-> 0]]

(* A lookup follows an index to an account that is still there. *)
Find(d, index, x) == IF x \in DOMAIN index /\ index[x] \in DOMAIN d.users THEN index[x] ELSE None
get_user_by_email(d, e) == Find(d, d.byEmail, e)
get_user_by_phone_number(d, p) == Find(d, d.byPhone, p)
get_user_by_provider_raw_id(d, r) == Find(d, d.byRaw, r)

(* A random id that no account or request has had: one is like another. *)
generate_local_id(d) ==
    IF LocalIds \subseteq d.known THEN {} ELSE {Min(LocalIds \ d.known)}

validate_mfa_enrollments(mfa) == Cardinality(Range(mfa)) = Len(mfa)

(* An old provider entry leaves its raw id in the index when it is          *)
(* replaced, and takes it out when it is deleted.                           *)
update_user_provider_info(d, u, raw, unlink) ==
    LET had  == d.users[u].idp
        kept == IF unlink THEN Without(d.byRaw, {had}) ELSE d.byRaw
        idp  == IF raw # None THEN raw ELSE IF unlink THEN None ELSE had IN
    [d EXCEPT !.byRaw = Set(kept, raw, u), !.users[u].idp = idp]

(* The indexes are moved first; enrolments that are refused then leave the  *)
(* record as it was.                                                        *)
update_user_by_local_id(d, u, up, raw, unlink) ==
    LET old == d.users[u]
        new == up @@ old
        moved == [d EXCEPT
            !.byPasskey = IF "passkeys" \notin DOMAIN up THEN @
                          ELSE [k \in new.passkeys |-> u] @@ Without(@, old.passkeys),
            !.byEmail = Set(IF old.email = new.email THEN @ ELSE Without(@, {old.email}), new.email, u),
            !.byInitial = Set(@, new.initial, u),
            !.byPhone = Set(IF old.phone = new.phone THEN @ ELSE Without(@, {old.phone}), new.phone, u),
            !.contested = @ \cup {e \in {new.email} \ {None} :
                                    \E v \in DOMAIN d.users \ {u} : d.users[v].email = e}]
    IN IF validate_mfa_enrollments(new.mfa)
       THEN update_user_provider_info([moved EXCEPT !.users[u] = new], u, raw, unlink)
       ELSE [moved EXCEPT !.half = @ \cup {u}]

remove_user_from_index(d, a) ==
    [d EXCEPT !.byEmail = Without(@, {a.email}), !.byInitial = Without(@, {a.initial}),
              !.byPhone = Without(@, {a.phone}), !.byRaw = Without(@, {a.idp}),
              !.byPasskey = Without(@, a.passkeys)]

Inserted(d, u) == [d EXCEPT !.users = (u :> Bare) @@ @, !.known = @ \cup {u}]

create_user_with_local_id(d, u, up, raw) ==
    [update_user_by_local_id(Inserted(d, u), u, up, raw, FALSE) EXCEPT !.net[u] = @ + 1]

(* Mutant: the old entries are taken out after the new ones are put in. *)
MutOverwrite(d, u, up, raw) ==
    LET done == update_user_by_local_id(Inserted(d, u), u, up, raw, FALSE) IN
    [IF u \in DOMAIN d.users THEN remove_user_from_index(done, d.users[u]) ELSE done
        EXCEPT !.untold = @ \cup {u}]

overwrite_user_with_local_id(d, u, up, raw) ==
    LET cleared == IF u \in DOMAIN d.users THEN remove_user_from_index(d, d.users[u]) ELSE d IN
    [update_user_by_local_id(Inserted(cleared, u), u, up, raw, FALSE) EXCEPT !.untold = @ \cup {u}]

(* Mutant: a deletion is not announced. *)
MutDelete(d, u) == remove_user_from_index([d EXCEPT !.users = Without(@, {u})], d.users[u])

delete_user(d, u) ==
    [remove_user_from_index([d EXCEPT !.users = Without(@, {u})], d.users[u])
        EXCEPT !.net[u] = @ - 1]

(* The index of initial addresses is the one that stays. *)
delete_all_accounts(d) ==
    [d EXCEPT !.users = Empty, !.byEmail = Empty, !.byPhone = Empty, !.byRaw = Empty,
              !.byPasskey = Empty, !.half = {}, !.untold = @ \cup DOMAIN d.users]

-----------------------------------------------------------------------------
(* Configuration.  A tenant has gates of its own; a project's are open.     *)

Open == [off |-> FALSE, pass |-> TRUE, anon |-> TRUE, link |-> TRUE, mfa |-> TRUE]
Gate(g) == IF is_tenant THEN config[g] ELSE Open[g]

is_mfa_enabled(a) == Gate("mfa") /\ a.mfa # <<>>

(* Tokens.  An id token is refused once its account is gone or disabled, or *)
(* has a newer `validSince`; a refresh token is judged by grant_token.      *)
Token(u, provider, factor) == [user |-> u, provider |-> provider, factor |-> factor, iat |-> now]
parse_id_token(tok) ==
    /\ tok \in tokens
    /\ tok.user \in DOMAIN db.users
    /\ tok.iat >= db.users[tok.user].since
    /\ ~ db.users[tok.user].disabled

issue_tokens(u, provider, factor) == tokens' = tokens \cup {Token(u, provider, factor)}

-----------------------------------------------------------------------------
(* One-time codes.                                                          *)

NewCode == Len(uses) + 1
create_oob(type, email, new) ==
    oobs' = oobs \cup {[n |-> NewCode, type |-> type, email |-> email, new |-> new]}
Consumed(n) == [uses EXCEPT ![n] = @ + 1]

(* Mutant: the code stays. *)
MutDeleteCode(o) == oobs' = oobs /\ uses' = Consumed(o.n)

delete_oob_code(o) == oobs' = oobs \ {o} /\ uses' = Consumed(o.n)
create_verification_code(phone) ==
    /\ codes' = codes \cup {[n |-> NewCode, phone |-> phone]}
    /\ uses' = Append(uses, 0)
verify_phone_number(c) == codes' = codes \ {c} /\ uses' = Consumed(c.n)

-----------------------------------------------------------------------------
(* Requests of one scope.                                                   *)

Idle == [at |-> "idle"]
Request == requests + failures < MaxRequests /\ requests' = requests + 1
Scope == Request /\ UNCHANGED <<is_tenant, config, flows, now>>
Enabled == Scope /\ ~ Gate("off")

grant_token ==
    /\ Scope
    /\ \E tok \in tokens :
        /\ tok.user \in DOMAIN db.users
        /\ ~ db.users[tok.user].disabled
        /\ issue_tokens(tok.user, tok.provider, tok.factor)
    /\ UNCHANGED <<db, creds, pendings>>

sign_in_with_custom_token ==
    /\ Enabled
    /\ \E u \in LocalIds :
        /\ db' = IF u \in DOMAIN db.users THEN db ELSE create_user_with_local_id(db, u, <<>>, None)
        /\ u \in DOMAIN db.users => ~ db.users[u].disabled
        /\ issue_tokens(u, "custom", FALSE)
    /\ UNCHANGED <<creds, pendings>>

send_oob_code ==
    /\ Enabled
    /\ \E e \in Emails, new \in Emails :
        \/ Gate("link") /\ create_oob("EMAIL_SIGNIN", e, None)
        \/ get_user_by_email(db, e) # None
           /\ \/ create_oob("PASSWORD_RESET", e, None)
              \/ create_oob("VERIFY_EMAIL", e, None)
              \/ get_user_by_email(db, new) = None /\ create_oob("VERIFY_AND_CHANGE_EMAIL", e, new)
    /\ uses' = Append(uses, 0)
    /\ UNCHANGED <<db, codes, proofs, tokens, pendings>>

(* The code is spent although its account may be gone. *)
reset_password(o, password) ==
    /\ o.type = "PASSWORD_RESET" /\ Gate("pass")
    /\ delete_oob_code(o)
    /\ LET u == get_user_by_email(db, o.email) IN
        db' = IF u = None THEN db
              ELSE update_user_by_local_id(db, u,
                    [verified |-> TRUE, password |-> password, since |-> now], None, TRUE)
    /\ UNCHANGED tokens

(* setAccountInfo with a code: a code that meets a taken address is spent. *)
apply_oob_code(o) ==
    LET u == IF o.type = "RECOVER_EMAIL" THEN Find(db, db.byInitial, o.email)
             ELSE get_user_by_email(db, o.email)
        e == IF o.type = "VERIFY_AND_CHANGE_EMAIL" THEN o.new ELSE o.email
        free == o.type = "VERIFY_EMAIL" \/ get_user_by_email(db, e) = None
        up == IF o.type = "VERIFY_EMAIL" \/ db.users[u].email # e
              THEN [email |-> e, verified |-> TRUE] ELSE <<>> IN
    /\ o.type \in {"VERIFY_EMAIL", "VERIFY_AND_CHANGE_EMAIL", "RECOVER_EMAIL"}
    /\ delete_oob_code(o)
    /\ db' = IF u = None \/ ~ free THEN db ELSE update_user_by_local_id(db, u, up, None, FALSE)
    /\ UNCHANGED tokens

(* The page behind the link of a code does what the API does. *)
action ==
    /\ Enabled
    /\ \E o \in oobs : apply_oob_code(o) \/ \E p \in Passwords : reset_password(o, p)
    /\ UNCHANGED <<codes, proofs, pendings>>

(* setAccountInfo by an id token, or by the owner, who names the account,   *)
(* may disable it and give it a phone number.                               *)
SelfChanges(a, anonymous) ==
    {[email |-> e, verified |-> FALSE, since |-> now,
      initial |-> IF anonymous \/ a.email = None \/ a.initial # None THEN a.initial ELSE a.email] :
        e \in {x \in Emails : x # a.email /\ get_user_by_email(db, x) = None}}
    \cup {[password |-> p, since |-> now] : p \in Passwords}
    \cup {<<>>, [password |-> None], [email |-> None, verified |-> FALSE, link |-> FALSE],
          [email |-> None, verified |-> FALSE, link |-> FALSE, password |-> None],
          [phone |-> None], [mfa |-> <<>>]}
    \cup {[passkeys |-> a.passkeys \ {k}] : k \in a.passkeys}
    \cup {[mfa |-> <<p>>] : p \in Phones}

OwnerChanges(a) ==
    {<<>>} \cup {[disabled |-> b] : b \in BOOLEAN}
    \cup {[phone |-> p] : p \in {x \in Phones : x # a.phone /\ get_user_by_phone_number(db, x) = None}}

set_account_info_impl(u, up, provider) ==
    /\ \E raw \in Or(RawIds), unlink \in BOOLEAN :
        /\ (raw # None \/ unlink) <=> up = <<>>
        /\ raw # None => ~ unlink
        /\ db' = update_user_by_local_id(db, u, up, raw, unlink)
    /\ IF {"email", "since"} \subseteq DOMAIN up /\ provider # "anonymous" /\ db'.users[u].initial # None
       THEN create_oob("RECOVER_EMAIL", db'.users[u].initial, None) /\ uses' = Append(uses, 0)
       ELSE UNCHANGED <<oobs, uses>>
    /\ IF "since" \in DOMAIN up /\ (provider # None \/ "password" \in DOMAIN up)
       THEN issue_tokens(u, IF "password" \in DOMAIN up THEN "password" ELSE provider, FALSE)
       ELSE UNCHANGED tokens

set_account_info ==
    /\ Enabled
    /\ \/ \E tok \in tokens :
            /\ parse_id_token(tok)
            /\ \E up \in SelfChanges(db.users[tok.user], tok.provider = "anonymous") :
                set_account_info_impl(tok.user, up, tok.provider)
       \/ \E u \in DOMAIN db.users :
            \E up \in SelfChanges(db.users[u], FALSE) \cup OwnerChanges(db.users[u]) :
                set_account_info_impl(u, up, None)
    /\ UNCHANGED <<codes, proofs, pendings>>

delete_account ==
    /\ Enabled
    /\ \E u \in DOMAIN db.users : db' = delete_user(db, u)
    /\ UNCHANGED <<creds, tokens, pendings>>

batch_delete ==
    /\ Scope
    /\ \E ids \in SUBSET DOMAIN db.users, force \in BOOLEAN :
        LET gone == {u \in ids : force \/ db.users[u].disabled} IN
        db' = FoldSet(LAMBDA u, d : delete_user(d, u), db, gone)
    /\ UNCHANGED <<creds, tokens, pendings>>

(* accounts:batchCreate, for one account: enrolments need a verified        *)
(* address, and their numbers are not compared with each other.             *)
Imported(e, p, m) == [Bare EXCEPT !.email = e, !.phone = p, !.mfa = m, !.verified = TRUE, !.since = now]
import_one(u, e, raw, phone, mfa, overwrite) ==
    /\ raw # None => get_user_by_provider_raw_id(db, raw) \in {None, u}
    /\ e # None => get_user_by_email(db, e) \in {None, u}
    /\ mfa # <<>> => e # None
    /\ u \in DOMAIN db.users => overwrite
    /\ db' = overwrite_user_with_local_id(db, u, Imported(e, phone, mfa), raw)

batch_create ==
    /\ Enabled
    /\ \E u \in LocalIds, e \in Or(Emails), raw \in Or(RawIds), p \in Phones, b \in BOOLEAN :
        \E mfa \in {<<>>, <<p>>, <<p, p>>} : import_one(u, e, raw, None, mfa, b)
    /\ UNCHANGED <<creds, tokens, pendings>>

(* An import of a file of accounts compares them with nothing. *)
import_users ==
    /\ Scope /\ ~ is_tenant
    /\ \E u \in LocalIds, e \in Or(Emails) :
        db' = overwrite_user_with_local_id(db, u, [Bare EXCEPT !.email = e], None)
    /\ UNCHANGED <<creds, tokens, pendings>>

clear_accounts ==
    /\ Scope
    /\ db' = delete_all_accounts(db)
    /\ UNCHANGED <<creds, tokens, pendings>>

update_config ==
    /\ Request
    /\ config' \in Configs
    /\ UNCHANGED <<db, is_tenant, creds, tokens, pendings, flows, now>>

(* The next request makes the tenant anew, with the default gates. *)
delete_tenant ==
    /\ Request /\ is_tenant
    /\ db' = [rebuild_indexes(Empty) EXCEPT !.known = db.known, !.net = db.net, !.untold = LocalIds]
    /\ config' = [config EXCEPT !.off = FALSE, !.pass = TRUE, !.anon = TRUE, !.link = TRUE, !.mfa = TRUE]
    /\ oobs' = {} /\ codes' = {} /\ proofs' = {}
    /\ UNCHANGED <<is_tenant, uses, tokens, pendings, flows, now>>

-----------------------------------------------------------------------------
(* Second factors and passkeys.                                             *)

send_verification_code ==
    /\ Enabled /\ ~ is_tenant
    /\ \E p \in Phones :
        /\ LET u == get_user_by_phone_number(db, p) IN u # None => db.users[u].mfa = <<>>
        /\ create_verification_code(p)
    /\ UNCHANGED <<db, oobs, proofs, tokens, pendings>>

mfa_enrollment_start ==
    /\ Enabled /\ Gate("mfa")
    /\ \E tok \in tokens, p \in Phones :
        /\ parse_id_token(tok)
        /\ tok.provider \notin {"anonymous", "phone", "custom"}
        /\ db.users[tok.user].verified
        /\ p \notin Range(db.users[tok.user].mfa)
        /\ create_verification_code(p)
    /\ UNCHANGED <<db, oobs, proofs, tokens, pendings>>

(* The code is spent before the number is compared with the enrolments. *)
mfa_enrollment_finalize ==
    /\ Enabled /\ Gate("mfa")
    /\ \E tok \in tokens, c \in codes :
        /\ parse_id_token(tok)
        /\ tok.provider \notin {"anonymous", "phone", "custom"}
        /\ verify_phone_number(c)
        /\ LET a == db.users[tok.user] IN
            IF c.phone \in Range(a.mfa) THEN UNCHANGED <<db, tokens>>
            ELSE /\ db' = update_user_by_local_id(db, tok.user,
                            [mfa |-> Append(a.mfa, c.phone)], None, FALSE)
                 /\ issue_tokens(tok.user, tok.provider, TRUE)
    /\ UNCHANGED <<oobs, proofs, pendings>>

mfa_enrollment_withdraw ==
    /\ Enabled
    /\ \E tok \in tokens :
        /\ parse_id_token(tok)
        /\ \E p \in Range(db.users[tok.user].mfa) :
            db' = update_user_by_local_id(db, tok.user,
                    [mfa |-> SelectSeq(db.users[tok.user].mfa, LAMBDA x : x # p)], None, FALSE)
        /\ issue_tokens(tok.user, tok.provider, FALSE)
    /\ UNCHANGED <<creds, pendings>>

mfa_sign_in_start ==
    /\ Enabled /\ Gate("mfa")
    /\ \E u \in pendings \cap DOMAIN db.users :
        \E p \in Range(db.users[u].mfa) : create_verification_code(p)
    /\ UNCHANGED <<db, oobs, proofs, tokens, pendings>>

passkey_enrollment_finalize ==
    /\ Enabled
    /\ \E tok \in tokens, k \in Passkeys :
        /\ parse_id_token(tok)
        /\ Find(db, db.byPasskey, k) = None
        /\ db' = update_user_by_local_id(db, tok.user,
                    [passkeys |-> db.users[tok.user].passkeys \cup {k}], None, FALSE)
        /\ issue_tokens(tok.user, "passkey", FALSE)
    /\ UNCHANGED <<creds, pendings>>

passkey_sign_in_finalize ==
    /\ Enabled
    /\ \E k \in Passkeys :
        LET u == Find(db, db.byPasskey, k) IN
        /\ u # None
        /\ ~ db.users[u].disabled
        /\ issue_tokens(u, "passkey", FALSE)
    /\ UNCHANGED <<db, creds, pendings>>

-----------------------------------------------------------------------------
(* Requests that await blocking functions.  What a flow has read is not     *)
(* read again: `user`, its updates, and what it judged of the account.      *)

Flow(op, at, u, up) == [at |-> at, op |-> op, user |-> u, up |-> up, raw |-> None, unlink |-> FALSE,
                        new |-> at = "create", disabled |-> FALSE, mfa |-> FALSE, factor |-> FALSE]
Start(t, f) == flows[t] = Idle /\ flows' = [flows EXCEPT ![t] = f]
Async == Request /\ ~ Gate("off") /\ UNCHANGED <<is_tenant, config, now>>
Reserved(u) == [db EXCEPT !.known = @ \cup {u}]

(* The checks that an address, a number and an id are free are made here;   *)
(* the account is created in a later scope, which makes only the last one.  *)
sign_up(t) ==
    /\ Async
    /\ \/ \E e \in Emails, p \in Passwords, u \in generate_local_id(db) :   \* a client's
            /\ Gate("pass") /\ get_user_by_email(db, e) = None
            /\ Start(t, Flow("sign_up", "create", u, [email |-> e, password |-> p, since |-> now]))
            /\ db' = Reserved(u)
       \/ \E u \in generate_local_id(db) :                                  \* anonymous
            Gate("anon") /\ Start(t, Flow("anonymous", "create", u, <<>>)) /\ db' = Reserved(u)
       \/ \E e \in Emails, p \in Passwords, tok \in tokens :                \* linking
            /\ parse_id_token(tok) /\ Gate("pass") /\ get_user_by_email(db, e) = None
            /\ Start(t, Flow("link", "sign_in", tok.user,
                             [email |-> e, password |-> p, since |-> now, verified |-> FALSE]))
            /\ UNCHANGED db
       \/ \E u \in LocalIds \ DOMAIN db.users, ph \in Or(Phones), b \in BOOLEAN :   \* the owner's
            /\ ph # None => get_user_by_phone_number(db, ph) = None
            /\ Start(t, Flow("owner", "create", u, [phone |-> ph, disabled |-> b]))
            /\ UNCHANGED db
    /\ UNCHANGED <<creds, tokens, pendings>>

sign_in_with_password(t) ==
    /\ Async /\ Gate("pass")
    /\ \E e \in Emails :
        LET u == get_user_by_email(db, e) IN
        /\ u # None
        /\ db.users[u].password # None /\ ~ db.users[u].disabled
        /\ IF is_mfa_enabled(db.users[u])
           THEN pendings' = pendings \cup {u} /\ UNCHANGED flows
           ELSE Start(t, Flow("password", "sign_in", u, <<>>)) /\ UNCHANGED pendings
    /\ UNCHANGED <<db, creds, tokens>>

(* The code is spent before the accounts it stands for are compared. *)
sign_in_with_email_link(t) ==
    /\ Async /\ Gate("link")
    /\ \E o \in oobs, tok \in Or(tokens) :
        /\ o.type = "EMAIL_SIGNIN"
        /\ tok # None => parse_id_token(tok)
        /\ delete_oob_code(o)
        /\ LET found == get_user_by_email(db, o.email)
               u == IF tok # None THEN tok.user ELSE found
               up == [email |-> o.email, verified |-> TRUE, link |-> TRUE] IN
           IF u = None
           THEN \E id \in generate_local_id(db) :
                    db' = Reserved(id) /\ Start(t, Flow("email_link", "create", id, up))
           ELSE /\ UNCHANGED db
                /\ IF db.users[u].disabled \/ (tok # None /\ found \notin {None, u})
                   THEN UNCHANGED flows
                   ELSE Start(t, [Flow("email_link", "sign_in", u, up) EXCEPT
                                    !.mfa = is_mfa_enabled(db.users[u])])
    /\ UNCHANGED <<codes, proofs, tokens, pendings>>

(* A number that is another account's gets a proof to be shown later. *)
sign_in_with_phone_number(t) ==
    /\ Async /\ ~ is_tenant
    /\ \E p \in Phones, tok \in Or(tokens), proved \in BOOLEAN :
        LET found == get_user_by_phone_number(db, p)
            u == IF tok # None THEN tok.user ELSE found
            up == [phone |-> p] IN
        /\ tok # None => parse_id_token(tok)
        /\ IF proved THEN p \in proofs /\ UNCHANGED <<codes, uses>>
           ELSE \E c \in codes : c.phone = p /\ verify_phone_number(c)
        /\ IF tok # None /\ found \notin {None, u}
           THEN /\ proofs' = IF proved THEN proofs ELSE proofs \cup {p}
                /\ UNCHANGED <<db, flows>>
           ELSE /\ UNCHANGED proofs
                /\ IF u = None
                   THEN \E id \in generate_local_id(db) :
                            db' = Reserved(id) /\ Start(t, Flow("phone", "create", id, up))
                   ELSE /\ UNCHANGED db
                        /\ IF db.users[u].disabled \/ db.users[u].mfa # <<>> THEN UNCHANGED flows
                           ELSE Start(t, Flow("phone", "sign_in", u, up))
    /\ UNCHANGED <<oobs, tokens, pendings>>

(* What a federated credential says of its bearer. *)
fake_fetch_user_info == [raw : RawIds, email : Or(Emails), verified : BOOLEAN]

(* A new account takes the address where accounts are one to an address. *)
handle_idp_sign_up(p) ==
    IF p.email # None /\ config.one THEN [email |-> p.email, verified |-> p.verified] ELSE <<>>

OwnerOf(p) == IF p.email = None \/ ~ config.one THEN None ELSE get_user_by_email(db, p.email)

(* To the token's account, which may get its first address so. *)
handle_link_idp(p, u) ==
    LET has == db.users[u].email
        takes == config.one /\ p.email # None /\ has = None
        sure  == p.verified /\ p.email # None /\ (has = p.email \/ takes) IN
    IF takes THEN [email |-> p.email, verified |-> p.verified]
    ELSE IF sure THEN [verified |-> TRUE] ELSE <<>>

(* To the account of a verified address; one that was not verified loses    *)
(* its other credentials.                                                   *)
handle_idp_sign_in(u) ==
    IF db.users[u].verified THEN <<>>
    ELSE [password |-> None, phone |-> None, since |-> now, verified |-> TRUE]

(* A profile of an unverified address that is another account's needs       *)
(* confirmation: nothing is done.                                           *)
sign_in_with_idp(t) ==
    /\ Async
    /\ \E p \in fake_fetch_user_info, tok \in Or(tokens) :
        LET linked == get_user_by_provider_raw_id(db, p.raw)
            owner  == OwnerOf(p)
            As(u, up, unlink) ==
                /\ UNCHANGED db
                /\ Start(t, [Flow("idp", "sign_in", u, up) EXCEPT !.raw = p.raw, !.unlink = unlink,
                                !.mfa = is_mfa_enabled(db.users[u]), !.disabled = db.users[u].disabled]) IN
        \/ /\ tok # None /\ parse_id_token(tok)
           /\ linked = None /\ owner \in {None, tok.user}
           /\ As(tok.user, handle_link_idp(p, tok.user), FALSE)
        \/ tok = None /\ linked # None /\ As(linked, <<>>, FALSE)
        \/ /\ tok = None /\ linked = None /\ owner # None /\ p.verified
           /\ As(owner, handle_idp_sign_in(owner), ~ db.users[owner].verified)
        \/ /\ tok = None /\ linked = None /\ owner = None
           /\ \E id \in generate_local_id(db) :
                /\ db' = Reserved(id)
                /\ Start(t, [Flow("idp", "create", id, handle_idp_sign_up(p)) EXCEPT !.raw = p.raw])
    /\ UNCHANGED <<creds, tokens, pendings>>

mfa_sign_in_finalize(t) ==
    /\ Async /\ Gate("mfa")
    /\ \E c \in codes, u \in pendings \cap DOMAIN db.users :
        /\ verify_phone_number(c)
        /\ Start(t, [Flow("mfa", "sign_in", u, <<>>) EXCEPT !.factor = c.phone \in Range(db.users[u].mfa)])
    /\ UNCHANGED <<db, oobs, proofs, tokens, pendings>>

-----------------------------------------------------------------------------
(* The steps of the awaiting requests.  A blocking function may change      *)
(* `disabled` and `emailVerified`, or fail the request.                     *)

Step == UNCHANGED <<is_tenant, config, creds, requests, now>>
End(t) == flows' = [flows EXCEPT ![t] = Idle]
Blocked(f) == f.op \in {"sign_up", "email_link", "phone", "idp"}

(* What the function of an event answers, if it answers. *)
blocking(called) == IF called THEN Outcomes ELSE {<<>>}

(* The function says no, or cannot be reached, or its answer is not valid. *)
blocking_fails(t) ==
    /\ Step
    /\ flows[t].at \in {"create", "sign_in"}
    /\ flows[t].op \notin {"anonymous", "owner", "link"}
    /\ End(t)
    /\ UNCHANGED <<db, tokens, pendings, outside, failures>>

create(t) ==
    /\ Step
    /\ flows[t].at = "create"
    /\ LET f == flows[t] IN
        \E o \in blocking(Blocked(f)) :
            IF f.user \in DOMAIN db.users THEN End(t) /\ UNCHANGED db
            ELSE LET d == create_user_with_local_id(db, f.user, o @@ f.up, f.raw)
                     off == d.users[f.user].disabled IN
                 /\ db' = d
                 /\ flows' = [flows EXCEPT ![t].at = IF Blocked(f) /\ ~ off THEN "sign_in" ELSE "finish",
                                           ![t].disabled = off]
    /\ UNCHANGED <<tokens, pendings>>

(* beforeSignIn, and the update by local id; the account may be gone.  A    *)
(* password or second-factor sign-in issues its tokens in the same scope.   *)
sign_in(t) ==
    /\ Step
    /\ flows[t].at = "sign_in"
    /\ LET f == flows[t] IN
        \E o \in blocking(~ f.mfa /\ ~ f.disabled /\ f.op # "link") :
            IF f.user \notin DOMAIN db.users THEN End(t) /\ UNCHANGED <<db, tokens>>
            ELSE LET d == update_user_by_local_id(db, f.user, IF f.new THEN o ELSE o @@ f.up,
                                                  IF f.new THEN None ELSE f.raw, f.unlink)
                     a == d.users[f.user] IN
                 /\ db' = d
                 /\ IF f.op \in {"password", "mfa"}
                    THEN /\ End(t)
                         /\ IF a.disabled \/ (f.op = "mfa" /\ ~ f.factor) THEN UNCHANGED tokens
                            ELSE issue_tokens(f.user, "password", f.op = "mfa")
                    ELSE /\ flows' = [flows EXCEPT ![t].at = "finish", ![t].disabled = a.disabled,
                                                   ![t].mfa = a.mfa # <<>>]
                         /\ UNCHANGED tokens
    /\ UNCHANGED pendings

(* The last scope judges the account as the flow saw it; only the federated *)
(* one looks again whether it is disabled.                                  *)
finish(t) ==
    /\ Step
    /\ flows[t].at = "finish"
    /\ End(t)
    /\ LET f == flows[t]
           u == f.user
           there == u \in DOMAIN db.users
           refused == CASE f.op = "owner" -> TRUE
                        [] f.op \in {"sign_up", "phone", "email_link"} -> f.disabled
                        [] f.op = "idp" -> there /\ db.users[u].disabled
                        [] OTHER -> FALSE
           asked == f.op \in {"email_link", "idp"} /\ f.mfa /\ Gate("mfa") IN
       /\ pendings' = IF asked /\ (f.op = "idp" \/ ~ refused) THEN pendings \cup {u} ELSE pendings
       /\ IF asked \/ refused \/ ~ there THEN UNCHANGED tokens
          ELSE issue_tokens(u, IF f.op \in {"sign_up", "email_link", "link"} THEN "password" ELSE f.op, FALSE)
    /\ UNCHANGED db

-----------------------------------------------------------------------------
(* The end of a scope: the state is saved, and what it queued announced.    *)

File == [users |-> db.users, config |-> config, oobs |-> oobs, codes |-> codes,
         proofs |-> proofs, uses |-> uses]
Queued == {u \in LocalIds : db'.net[u] # db.net[u]}

(* With the background off, or the queue closed, nobody is told. *)
dispatch_lifecycle ==
    IF functions
    THEN /\ announced' = [u \in LocalIds |-> announced[u] + db'.net[u] - db.net[u]]
         /\ UNCHANGED dropped
    ELSE dropped' = dropped \cup Queued /\ UNCHANGED announced

(* A save that fails refuses the request with its change made; the events   *)
(* it had queued are gone.  (What the refused answer would have carried is  *)
(* left in `tokens` and `pendings`, and a flow may go on or end.)           *)
persist ==
    \/ stored' = File' /\ dispatch_lifecycle /\ UNCHANGED failures
    \/ /\ requests' + failures < MaxRequests
       /\ failures' = failures + 1
       /\ dropped' = dropped \cup Queued
       /\ UNCHANGED <<stored, announced>>

refused(t) ==
    /\ flows[t] # Idle /\ stored # File
    /\ End(t)
    /\ UNCHANGED <<db, is_tenant, config, creds, tokens, pendings, outside, requests, failures, now>>

(* The hub turns the background off or on; or the queue closes.             *)
hub_switch ==
    /\ Request
    /\ functions' = ~ functions
    /\ UNCHANGED <<db, is_tenant, config, creds, tokens, pendings, flows, stored, announced, dropped,
                   failures, now>>

(* A restart loads the state file and rebuilds the indexes. *)
restart ==
    /\ db' = [rebuild_indexes(stored.users) EXCEPT !.known = db.known, !.net = db.net, !.untold = db.untold,
                                                   !.contested = db.contested \cup @]
    /\ config' = stored.config /\ oobs' = stored.oobs /\ codes' = stored.codes
    /\ proofs' = stored.proofs /\ uses' = stored.uses
    /\ flows' = [t \in Threads |-> Idle]
    /\ functions' = TRUE
    /\ UNCHANGED <<is_tenant, tokens, pendings, stored, announced, dropped, requests, failures, now>>

tick == now < MaxTime /\ now' = now + 1
        /\ UNCHANGED <<db, is_tenant, config, creds, tokens, pendings, flows, outside, requests,
                       failures>>

Init ==
    /\ \E boot \in Boots :
        /\ is_tenant = boot.tenant
        /\ db = rebuild_indexes(boot.users)
        /\ tokens = {[user |-> u, provider |-> "password", factor |-> FALSE, iat |-> 0] :
                        u \in DOMAIN boot.users}
    /\ config = Open @@ [one |-> TRUE]
    /\ oobs = {} /\ codes = {} /\ proofs = {} /\ uses = <<>>
    /\ pendings = {}
    /\ flows = [t \in Threads |-> Idle]
    /\ stored = File
    /\ functions = TRUE
    /\ announced = [u \in LocalIds |-> 0]
    /\ dropped = {}
    /\ requests = 0 /\ failures = 0
    /\ now = 0

Handled ==
    \/ grant_token \/ sign_in_with_custom_token \/ send_oob_code \/ action \/ set_account_info
    \/ delete_account \/ batch_delete \/ batch_create \/ import_users \/ clear_accounts
    \/ update_config \/ delete_tenant
    \/ send_verification_code \/ mfa_enrollment_start \/ mfa_enrollment_finalize
    \/ mfa_enrollment_withdraw \/ mfa_sign_in_start
    \/ passkey_enrollment_finalize \/ passkey_sign_in_finalize
    \/ \E t \in Threads :
        \/ sign_up(t) \/ sign_in_with_password(t) \/ sign_in_with_email_link(t)
        \/ sign_in_with_phone_number(t) \/ sign_in_with_idp(t) \/ mfa_sign_in_finalize(t)
        \/ create(t) \/ sign_in(t) \/ finish(t)

Next ==
    \/ Handled /\ persist /\ UNCHANGED functions
    \/ \E t \in Threads : blocking_fails(t) \/ refused(t)
    \/ hub_switch \/ restart \/ tick

Spec == Init /\ [][Next]_vars

-----------------------------------------------------------------------------
(* Properties.                                                              *)

(* Whatever requests interleave, an address, number or passkey in an index  *)
(* finds an account that has it, if it finds one; the exception is an       *)
(* account whose import was refused after its indexes were written.         *)
IndexesSound ==
    \A u \in DOMAIN db.users \ db.half :
        /\ \A e \in DOMAIN db.byEmail : db.byEmail[e] = u => db.users[u].email = e
        /\ \A p \in DOMAIN db.byPhone : db.byPhone[p] = u => db.users[u].phone = p
        /\ \A k \in DOMAIN db.byPasskey : db.byPasskey[k] = u => k \in db.users[u].passkeys

(* An account is found by its address, unless two accounts have had that    *)
(* address at once: sign-ups check it in one scope and take it in a later   *)
(* one, and a deletion takes the address out of the index for both.         *)
AddressesFound ==
    \A u \in DOMAIN db.users :
        LET e == db.users[u].email IN
        e # None /\ e \notin db.contested => get_user_by_email(db, e) = u

(* A code that is sent out is accepted once, whichever requests race for it *)
(* and however they end: by a scope that was saved, since a restart after a *)
(* save that failed finds the code as it was.                               *)
CodesSpentOnce == \A n \in DOMAIN uses : uses[n] <= 1

(* What was announced to the functions tells which accounts there are: an   *)
(* account a request creates or deletes is announced, once, by a scope that *)
(* was saved.  The exceptions are those of the code: what comes or goes by  *)
(* an import, a clearing of all accounts or with its tenant has no event,   *)
(* and an event is dropped when the hub has switched the background off,    *)
(* when the queue is closed, and when the save fails.                       *)
LifecycleTold ==
    \A u \in LocalIds \ (db.untold \cup dropped) :
        announced[u] = IF u \in DOMAIN db.users THEN 1 ELSE 0

=============================================================================
