----------------------------- MODULE MCServices -----------------------------
(* Authentication, Storage and the schemas of Pub/Sub, which share no state, *)
(* side by side: a behaviour is one of a single part.                        *)
EXTENDS PubSubSchemas, TLC

CONSTANTS Emails, Phones, Passwords, RawIds, Passkeys, None, Threads,
          Keys, Bytes, Auths, MaxStorageRequests, MaxCrashes, Modes

VARIABLES part,
          db, is_tenant, config, oobs, codes, proofs, uses, tokens, pendings, flows,
          stored, functions, announced, dropped, requests, failures, now,
          mem, redb, durable, journal, wb, mode, open, flushing, replacing, files, synced,
          mutation, rules, flow, background, told, calls, crashes, staged, ghost

auth == <<db, is_tenant, config, oobs, codes, proofs, uses, tokens, pendings, flows,
          stored, functions, announced, dropped, requests, failures, now>>
storage == <<mem, redb, durable, journal, wb, mode, open, flushing, replacing, files, synced,
             mutation, rules, flow, background, told, calls, crashes, staged, ghost>>

(* Requests are interchangeable.                                             *)
Symmetry == Permutations(Threads)

-----------------------------------------------------------------------------
(* Two definitions that accept different messages. *)
MCAdmits == <<{1}, {2}>>

ASSUME DELETED_SCHEMA \notin Names

(* A tenant's account with an address, a password and a second factor; or a  *)
(* project's with an address and a number, and an anonymous one.  A blocking *)
(* function changes nothing, or disables the account.                        *)
Anonymous == [email |-> None, initial |-> None, phone |-> None, password |-> None,
              verified |-> FALSE, link |-> FALSE, disabled |-> FALSE, since |-> 0,
              mfa |-> <<>>, passkeys |-> {}, idp |-> None]
Person == [Anonymous EXCEPT !.email = CHOOSE e \in Emails : TRUE, !.password = CHOOSE w \in Passwords : TRUE]
Phone == CHOOSE p \in Phones : TRUE
AuthBoots ==
    {[tenant |-> TRUE, users |-> 1 :> [Person EXCEPT !.verified = TRUE, !.mfa = <<Phone>>]],
     [tenant |-> FALSE, users |-> 1 :> [Person EXCEPT !.phone = Phone] @@ 2 :> Anonymous]}
AuthConfigs == {[off |-> FALSE, pass |-> TRUE, anon |-> TRUE, link |-> FALSE, mfa |-> FALSE, one |-> FALSE]}

A == INSTANCE Auth WITH
    MaxUsers <- 2, MaxRequests <- 3, MaxTime <- 1, Outcomes <- {<<>>, [disabled |-> TRUE]},
    Boots <- AuthBoots, Configs <- AuthConfigs

S == INSTANCE Storage WITH MaxRequests <- MaxStorageRequests, requests <- calls

-----------------------------------------------------------------------------
NoStorage ==
    /\ mem = <<>> /\ redb = <<>> /\ durable = <<>> /\ journal = <<>> /\ wb = <<>> /\ mode = ""
    /\ open = <<>> /\ flushing = FALSE /\ replacing = <<>> /\ files = <<>> /\ synced = {}
    /\ mutation = <<>> /\ rules = <<>> /\ flow = <<>> /\ background = FALSE /\ told = {} /\ calls = 0 /\ crashes = 0
    /\ staged = 0 /\ ghost = <<>>

(* One initial state of the accounts stands for them in the other parts.     *)
(* Bounds: rulesets and a deferred flush are not both there, for the rules   *)
(* only decide which requests are refused; and an upload begun by an earlier *)
(* process is looked at under PerCommit, without rules or objects.           *)
MCInit ==
    /\ Init /\ A!Init
    /\ \/ part = "auth" /\ NoStorage
       \/ part = "schemas" /\ NoStorage /\ is_tenant
       \/ /\ part = "storage" /\ S!Init /\ is_tenant
          /\ rules = None \/ mode = "PerCommit"
          /\ mem.uploads # <<>> => mem.objects = <<>> /\ rules = None /\ mode = "PerCommit"

(* Bounds: the clock moves in a project, after the first request or not at   *)
(* all, and a tenant meets failed saves and the switch of the background;    *)
(* the code that meets them is the same.                                     *)
Split == IF is_tenant THEN now' = now
         ELSE failures' = 0 /\ functions' /\ (now' # now => requests = 1)

MCNext ==
    /\ UNCHANGED part
    /\ \/ part = "schemas" /\ Next /\ UNCHANGED <<auth, storage>>
       \/ part = "auth" /\ A!Next /\ Split /\ UNCHANGED <<vars, storage>>
       \/ part = "storage" /\ S!Next /\ UNCHANGED <<vars, auth>>

MCSpec == MCInit /\ [][MCNext]_<<part, vars, auth, storage>>

StorageSpec == /\ part = "storage" /\ Init /\ A!Init /\ is_tenant = TRUE /\ S!Init
               /\ [][S!Next /\ UNCHANGED <<part, vars, auth>>]_<<part, vars, auth, storage>>

-----------------------------------------------------------------------------
(* An account is found by its addresses, and by no others, whatever requests *)
(* interleave: see IndexesSound and AddressesFound (state.rs, signup.rs).    *)
AccountsFound == A!IndexesSound /\ A!AddressesFound

(* A one-time code is accepted once, and functions are told of every account *)
(* created or deleted, unless an announcement is dropped as the code drops   *)
(* it: see CodesSpentOnce and LifecycleTold (state.rs, dispatch_lifecycle).  *)
SignInsCounted == A!CodesSpentOnce /\ A!LifecycleTold



(* A change "is appended to `metadata.journal` ... so it survives the        *)
(* process" (metadata.rs:6-7), once update has returned: see                 *)
(* AnsweredSurvives.                                                         *)
ChangesSurvive == S!AnsweredSurvives
=============================================================================
