----------------------------- MODULE Credentials -----------------------------
(***************************************************************************)
(* Who a request is: the assertion it brings, what is asked of it, the     *)
(* identity that its claims name, and the display name that is fetched for *)
(* that identity behind the answer, while an administrator may set another.*)
(*                                                                         *)
(* Which keys are known is in SigningKeys, and what a snapshot grants in   *)
(* Access. A claim is one of a few values; a signature is the key and the  *)
(* algorithm that made it.                                                 *)
(***************************************************************************)
EXTENDS Naturals, FiniteSets

CONSTANTS
    Slot,          \* request slots
    Deployments(_), \* settings of the Worker in a theme
    Offers(_, _),  \* what the requests of a slot bring, in a theme
    Skew,          \* DEFAULT_CLOCK_SKEW_SECONDS
    Life,          \* how long Access lets an assertion live
    Resync,        \* RESYNC_AFTER_MS
    MaxTime,       \* bound
    MaxEdits       \* bound: edits of names

VARIABLES
    settings,    \* the vars of the Worker
    theme,       \* what the requests try out; both stay as they are
    clock,
    requests,
    identities,  \* display_name and display_name_synced_at of each subject
    edits

vars == <<settings, theme, clock, requests, identities, edits>>

Absent == 1000
Malformed == 1001
Nobody == [kind |-> "none", subject |-> "none"]

-----------------------------------------------------------------------------
(* loadRuntimeConfig: a var that is unset or blank is its default, and one *)
(* that cannot be read is a refusal, never a default.                      *)

Good == [team |-> "acme", aud |-> "prick", requireCtxAccess |-> "unset", limit |-> "unset"]

Misconfigured(s) ==
    \/ s.requireCtxAccess \notin {"unset", "blank", "true", "TRUE", "false"}
    \/ s.limit \notin {"unset", "blank", "50"}
(* accessOptionsFromConfig: without a team and an audience nothing can be  *)
(* verified, so nothing is.                                                *)
Unverifiable(s) == s.team = "blank" \/ s.aud = "blank"
RequiresCtxAccess(s) == s.requireCtxAccess \in {"true", "TRUE"}

-----------------------------------------------------------------------------
(* An assertion, as Access issues it: to a person, and to a service token. *)

Alg == [k1 |-> "RS256", k2 |-> "RS512"]

Issued(kind, at) ==
    [form |-> "jwt", alg |-> "RS256", kid |-> "k1", typ |-> "JWT",
     signed |-> [kid |-> "k1", alg |-> "RS256"],
     iss |-> "acme", aud |-> [form |-> IF kind = "user" THEN "list" ELSE "string",
                              tags |-> {"prick"}],
     exp |-> at + Life, iat |-> at, nbf |-> IF kind = "user" THEN at ELSE Absent,
     sub |-> IF kind = "user" THEN "s" ELSE "",
     email |-> IF kind = "user" THEN "ann" ELSE "absent",
     commonName |-> IF kind = "user" THEN "absent" ELSE "job"]

NoAssertion == [Issued("user", 0) EXCEPT !.form = "blank"]

(* The header first; the cookie if that is absent or blank.                *)
ExtractAssertion(offer) == IF offer.header.form = "blank" THEN offer.cookie ELSE offer.header

(* decodeTokenHeader: three parts of which the first is a JSON object that *)
(* names an algorithm and a key, and no more than a token's length.        *)
Decodes(a) ==
    /\ a.form = "jwt"
    /\ a.alg # "absent" /\ a.kid # "absent" /\ a.typ \in {"JWT", "absent"}

(* The key is the one of that name, and the algorithm is the key's.        *)
SignedByItsKey(a) ==
    /\ a.kid \in DOMAIN Alg
    /\ a.alg = Alg[a.kid]
    /\ a.signed = [kid |-> a.kid, alg |-> Alg[a.kid]]

(* A string is a list of one.                                              *)
ForThisApplication(a) == a.aud.form \in {"list", "string"} /\ settings.aud \in a.aud.tags

(* Expired is expired; what may be absent is checked if it is there.       *)
InTime(a, now) ==
    /\ a.exp \notin {Absent, Malformed} /\ a.exp > now
    /\ \A t \in {a.nbf, a.iat} \ {Absent} : t # Malformed /\ t <= now + Skew

VerifyAccessJwt(a, now) ==
    /\ Decodes(a) /\ SignedByItsKey(a)
    /\ a.iss = settings.team /\ ForThisApplication(a) /\ InTime(a, now)
    /\ "malformed" \notin {a.sub, a.email, a.commonName}

(* classifyClaims: an email in lower case, trimmed; a blank is no claim.   *)
Email(a) == CASE a.email \in {"ann", "Ann "} -> "ann" [] a.email = "bob" -> "bob" [] OTHER -> "none"
CommonName(a) == IF a.commonName = "job" THEN "job" ELSE "none"

(* Mutation: a token with both is a person's.                              *)
ClassifyEmailFirst(a) ==
    CASE Email(a) # "none" -> [kind |-> "user", subject |-> Email(a)]
      [] a.sub = "" /\ CommonName(a) # "none" /\ Email(a) = "none"
            -> [kind |-> "service", subject |-> CommonName(a)]
      [] OTHER -> Nobody
(* A person has a subject and an email, a service token a common name and  *)
(* no subject; what has both, or half of either, is nobody.                *)
ClassifyClaims(a) ==
    CASE a.sub # "" /\ Email(a) # "none" /\ CommonName(a) = "none"
            -> [kind |-> "user", subject |-> Email(a)]
      [] a.sub = "" /\ CommonName(a) # "none" /\ Email(a) = "none"
            -> [kind |-> "service", subject |-> CommonName(a)]
      [] OTHER -> Nobody

-----------------------------------------------------------------------------
(* Requests. *)

NoOffer == [header |-> NoAssertion, cookie |-> NoAssertion, attested |-> TRUE]
Idle == [pc |-> "idle", offer |-> NoOffer, now |-> 0, actor |-> Nobody, cookie |-> FALSE,
         fetched |-> "none", overtaken |-> FALSE]
NoRow == [known |-> FALSE, name |-> "none", synced |-> Absent, by |-> "nobody"]

Init ==
    /\ theme \in {"settings", "claims", "names"}
    /\ settings \in Deployments(theme)
    /\ clock = 0
    /\ requests = [s \in Slot |-> Idle]
    /\ identities = [i \in {"ann", "bob", "job"} |-> NoRow]
    /\ edits = IF theme = "names" THEN 0 ELSE MaxEdits

Actor(offer, now) ==
    LET a == ExtractAssertion(offer) IN
    IF /\ ~Misconfigured(settings) /\ ~Unverifiable(settings)
       /\ VerifyAccessJwt(a, now)
       /\ RequiresCtxAccess(settings) => offer.attested
    THEN ClassifyClaims(a) ELSE Nobody

(* Up to the identity: who is nobody is refused, and not recorded. Of the  *)
(* assertion no more is kept than the claims, but for the cookie.          *)
Arrive(s) ==
    /\ requests[s].pc = "idle"
    /\ \E offer \in Offers(theme, s) :
        LET actor == Actor(offer, clock) IN
        requests' = [requests EXCEPT ![s] = [Idle EXCEPT
                        !.pc = IF actor = Nobody THEN "refused" ELSE "known",
                        !.offer = offer, !.now = clock, !.actor = actor,
                        !.cookie = offer.cookie.form # "blank"]]
    /\ UNCHANGED <<settings, theme, clock, identities, edits>>

UpsertIdentity(s) ==
    /\ requests[s].pc = "known"
    /\ identities' = [identities EXCEPT ![requests[s].actor.subject].known = TRUE]
    /\ requests' = [requests EXCEPT ![s].pc = "snapshot", ![s].offer = NoOffer]
    /\ UNCHANGED <<settings, theme, clock, edits>>

(* A name that is set is never asked for; one that Access did not have, no *)
(* more than once in an interval.                                          *)
WantsName(r, row) ==
    /\ r.actor.kind = "user"
    /\ row.name = "none"
    /\ row.synced # Absent => r.now >= row.synced + Resync

(* The snapshot, which the synchronisation in the background goes by.      *)
Snapshot(s) ==
    LET r == requests[s] IN
    /\ r.pc = "snapshot"
    /\ requests' = [requests EXCEPT ![s].pc =
                        IF WantsName(r, identities[r.actor.subject]) THEN "fetch" ELSE "done"]
    /\ UNCHANGED <<settings, theme, clock, identities, edits>>

(* Access is asked with the cookie of the request; without one, or if it   *)
(* is slow, has no name or a blank one, there is none.                     *)
FetchAccessDisplayName(s) ==
    /\ requests[s].pc = "fetch"
    /\ \E name \in IF requests[s].cookie THEN {"none", "Ann A."} ELSE {"none"} :
        requests' = [requests EXCEPT ![s].pc = "write", ![s].fetched = name]
    /\ UNCHANGED <<settings, theme, clock, identities, edits>>

(* Written whatever it is, over whatever is there now.                     *)
WriteName(s) ==
    LET r == requests[s] i == r.actor.subject IN
    /\ r.pc = "write"
    /\ identities' = [identities EXCEPT ![i].name = r.fetched, ![i].synced = r.now, ![i].by = "sync"]
    /\ requests' = [requests EXCEPT ![s].pc = "done"]
    /\ UNCHANGED <<settings, theme, clock, edits>>

(* The runtime ends what runs behind an answer.                            *)
Cancel(s) ==
    /\ requests[s].pc \in {"fetch", "write"}
    /\ requests' = [requests EXCEPT ![s].pc = "done"]
    /\ UNCHANGED <<settings, theme, clock, identities, edits>>

(* updateIdentity, by an administrator: a name, or none.                   *)
Rename ==
    /\ edits < MaxEdits /\ edits' = edits + 1
    /\ \E i \in DOMAIN identities, name \in {"Ann", "none"} :
        /\ identities[i].known
        /\ identities' = [identities EXCEPT ![i].name = name, ![i].by = "administrator"]
        /\ requests' = [s \in Slot |->
               IF requests[s].pc \in {"fetch", "write"} /\ requests[s].actor.subject = i
               THEN [requests[s] EXCEPT !.overtaken = TRUE] ELSE requests[s]]
    /\ UNCHANGED <<settings, theme, clock>>

(* A slot is free for another request once its work is done.               *)
Again(s) ==
    /\ requests[s].pc \in {"done", "refused"} /\ clock < MaxTime
    /\ requests' = [requests EXCEPT ![s] = Idle]
    /\ UNCHANGED <<settings, theme, clock, identities, edits>>

Tick ==
    /\ clock < MaxTime /\ clock' = clock + 1
    /\ UNCHANGED <<settings, theme, requests, identities, edits>>

Next ==
    \/ \E s \in Slot : \/ Arrive(s) \/ UpsertIdentity(s) \/ Snapshot(s) \/ Again(s)
                       \/ FetchAccessDisplayName(s) \/ WriteName(s) \/ Cancel(s)
    \/ Rename \/ Tick

-----------------------------------------------------------------------------
(* What Access issued for this application is accepted, from a person as   *)
(* from a service token, until it expires and not after, by a clock that   *)
(* may be behind that of Access by the skew; in any other form, what is    *)
(* accepted still has its key's signature and its audience.                *)
IssuedAt(a) == {at \in 0..MaxTime : \E kind \in {"user", "service"} : a = Issued(kind, at)}
AcceptedWhileValid ==
    \A s \in Slot :
        LET r == requests[s] a == ExtractAssertion(r.offer) IN
        /\ r.pc = "refused" /\ settings = Good =>
             \A at \in IssuedAt(a) : r.now + Skew < at \/ r.now >= at + Life
        /\ r.pc = "known" =>
             /\ r.now < a.exp
             /\ \A at \in IssuedAt(a) : r.now + Skew >= at
             /\ a.signed = [kid |-> a.kid, alg |-> Alg[a.kid]]
             /\ settings.aud \in a.aud.tags /\ a.iss = settings.team

(* An identity is one person's or one service token's: nobody is taken for *)
(* two, and no two for one, however their claims are written.              *)
OneIdentityEach ==
    \A s \in Slot :
        LET r == requests[s] a == ExtractAssertion(r.offer) IN
        r.pc = "known" =>
            /\ (Email(a) = "none") # (CommonName(a) = "none")
            /\ r.actor.kind = "service" <=> a.sub = ""
            /\ r.actor.subject \in {Email(a), CommonName(a)}

(* A name set by an administrator is lost only to a request that looked    *)
(* for one before it was set.                                              *)
EditsStand ==
    [][\A i \in DOMAIN identities :
        /\ identities[i].by = "administrator" /\ identities[i].name # "none"
        /\ identities'[i].by = "sync"
        => \E s \in Slot : /\ requests[s].pc = "write" /\ requests'[s].pc = "done"
                           /\ requests[s].actor.subject = i /\ requests[s].overtaken]_vars
=============================================================================
