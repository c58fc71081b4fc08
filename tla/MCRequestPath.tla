--------------------------- MODULE MCRequestPath ----------------------------
(* A request on its way through the Worker, one part at a time: the signing  *)
(* keys that its token is held against, what the token says and whom it      *)
(* names, and the guards, reads and writes up to its handler. A scene is one *)
(* of them; the state of the others stays what it is at their start.         *)
EXTENDS SigningKeys

CONSTANTS s1, s2, k1, k2,
          Caller, Peer, Sent, MaxRev, MaxFaults,
          Visitor, Deployments(_), Offers(_, _), Skew, AssertionLife, Resync, LastTime, MaxEdits

VARIABLES scene, deployment, row, cache, read, rev, request, faults,
          settings, theme, time, visits, identities, edits

Http == INSTANCE Requests
Login == INSTANCE Credentials WITH Slot <- Visitor, MaxTime <- LastTime, Life <- AssertionLife,
                                   clock <- time, requests <- visits

(* What is sent is a request; times are not the marks of those that are not. *)
ASSUME SentAssumption == \A r \in Caller : Sent[r] \subseteq Http!Requests
ASSUME TimesAssumption ==
    /\ LastTime \in Nat /\ AssertionLife \in Nat /\ Skew \in Nat
    /\ LastTime + AssertionLife < Login!Absent

(* Two keys take over from each other, early or late, with or without an     *)
(* overlap; a key that no one has seen besides.                              *)
Lasting == MaxTime + 1
MCSchedules ==
    {[k \in Kid |-> IF k = k1 THEN [from |-> 0, until |-> u] ELSE [from |-> f, until |-> Lasting]] :
        u \in {1, 4}, f \in {1, 3}}
    \cup {[k \in Kid |-> IF k = k1 THEN [from |-> 0, until |-> 2] ELSE [from |-> 2, until |-> 4]]}

(* One caller sends anything; the peers, what is in order.                   *)
MCSent == LET any == Http!Requests sound == Http!SoundRequests
          IN [r \in Caller |-> IF r \in Peer THEN sound ELSE any]

(* One visitor brings any assertion, in a header or a cookie: most differ    *)
(* from one that Access issued in a claim, or in their three names. Two ask  *)
(* for their names, one of them without a cookie, or with another's.         *)
MCDeployments(th) ==
    IF th # "settings" THEN {Login!Good}
    ELSE {Login!Good}
         \union {[Login!Good EXCEPT !.team = "blank"], [Login!Good EXCEPT !.aud = "blank"],
                 [Login!Good EXCEPT !.limit = "5O0"]}
         \union {[Login!Good EXCEPT !.requireCtxAccess = x] : x \in {"TRUE", "yes"}}

Ann == Login!Issued("user", 1)
Job == Login!Issued("service", 1)
MCAssertions ==
    {Ann, Job, [Ann EXCEPT !.form = "parts"]}
    \union {[Ann EXCEPT !.alg = x] : x \in {"absent", "RS512"}}
    \union {[Ann EXCEPT !.kid = x] : x \in {"absent", "k2", "k3"}}
    \union {[Ann EXCEPT !.alg = x, !.signed.alg = x] : x \in {"RS512", "HS256", "none"}}
    \union {[Ann EXCEPT !.kid = "k2", !.alg = "RS512", !.signed = [kid |-> "k2", alg |-> "RS512"]]}
    \union {[Ann EXCEPT !.typ = x] : x \in {"absent", "JWE"}}
    \union UNION {
        {[a EXCEPT !.iss = "acme2"]}
        \union {[a EXCEPT !.aud = [form |-> f, tags |-> t]] :
                   f \in {"list", "string", "other"}, t \in SUBSET {"prick", "prick2"}}
        \union {[a EXCEPT !.exp = x] : x \in {Login!Absent, Login!Malformed, 0, 1}}
        \union {[a EXCEPT !.nbf = x] : x \in {Login!Absent, Login!Malformed, 1, 2, 3}}
        \union {[a EXCEPT !.iat = x] : x \in {Login!Absent, Login!Malformed, 2, 3}}
        \union {[a EXCEPT !.sub = x, !.email = y, !.commonName = z] :
                   x \in {"", "s", "malformed"},
                   y \in {"absent", "malformed", "", "ann", "Ann ", "bob"},
                   z \in {"absent", "malformed", "", "job"}} : a \in {Ann, Job}}

InHeader(a) == [header |-> a, cookie |-> Login!NoAssertion, attested |-> TRUE]
InCookie(a) == [header |-> Login!NoAssertion, cookie |-> a, attested |-> TRUE]
MCOffers(th, v) ==
    CASE th = "names" -> IF v = 1 THEN {InCookie(Ann)} ELSE {InCookie(Ann), InHeader(Ann)}
      [] th = "settings" /\ v = 1 ->
            {InCookie(Ann), [InCookie(Ann) EXCEPT !.attested = FALSE], InHeader(Job),
             InHeader([Ann EXCEPT !.aud.tags = {"prick2"}])}
      [] th = "claims" /\ v = 1 ->
            {InHeader(a) : a \in MCAssertions}
            \union {InCookie(a) : a \in {Login!NoAssertion, Ann, Job, [Ann EXCEPT !.email = "bob"]}}
            \union {[InHeader([Ann EXCEPT !.iss = "acme2"]) EXCEPT !.cookie = Ann]}
      [] OTHER -> {}

keys == <<clock, life, entry, req, failed, latest, overlapped>>
http == <<deployment, row, cache, read, rev, request, faults>>
login == <<settings, theme, time, visits, identities, edits>>

allVars == <<scene, keys, http, login>>

PathInit ==
    /\ scene \in {"keys", "http", "login"}
    /\ Init /\ (scene = "keys" \/ life = CHOOSE s \in Schedules : TRUE)
    /\ Http!Init /\ (scene = "http" \/ (deployment = "sound" /\ row))
    /\ Login!Init /\ (scene = "login" \/ theme = "names")

PathNext ==
    /\ UNCHANGED scene
    /\ \/ scene = "keys" /\ Next /\ UNCHANGED <<http, login>>
       \/ scene = "http" /\ Http!Next /\ UNCHANGED <<keys, login>>
       \/ scene = "login" /\ Login!Next /\ UNCHANGED <<keys, http>>

PathSpec == PathInit /\ [][PathNext]_allVars

-----------------------------------------------------------------------------
(* What another site sends changes nothing, and what nobody vouches for is   *)
(* not so much as recorded. Access vouches for a person or a service token,  *)
(* until its assertion expires, and nobody is taken for another; what is     *)
(* fetched in their name undoes nothing that was there before it was asked.  *)
StrangersTouchNothing ==
    /\ [](scene = "http" => Http!StrangersTouchNothing)
    /\ [](scene = "login" => Login!AcceptedWhileValid /\ Login!OneIdentityEach)
    /\ Login!EditsStand

(* What is answered is so: of a write, of its condition, and of the instance *)
(* it was made in.                                                           *)
AnswersAreTrue == scene = "http" => Http!AnswersAreTrue /\ Http!InstanceIsTold
=============================================================================
