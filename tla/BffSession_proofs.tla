-------------------------- MODULE BffSession_proofs --------------------------
(***************************************************************************)
(* The browser's session and the BFF, for any number of tokens and of      *)
(* requests open at once: types, single flight, what a logout closes, who  *)
(* is signed out and what the cookies of a browser that waits are worth.   *)
(***************************************************************************)
EXTENDS BffSession, TLAPS

USE NoTokenAssumption, NoSlotAssumption DEF lossy, sequential

Issued(t) == family[t] # NoToken

\* Every issued token is the head of its family or spent, never both.
BackendOK ==
    /\ \A t \in Tokens : Issued(t) =>
         /\ family[t] \in Tokens /\ family[family[t]] = family[t]
         /\ head[family[t]] = t \/ t \in spent
    /\ \A f \in Tokens : head[f] # NoToken =>
         family[head[f]] = f /\ head[f] \notin spent

\* Nothing presents a token the backend did not issue.
HeldIssued ==
    /\ jar.refresh # NoToken => Issued(jar.refresh)
    /\ \A t \in late : Issued(t)

Session == {"api", "mfa", "refresh"}

Flying == {"call", "reuse", "replied"}

\* What a handler may rely on at each of its steps.
RequestOK(r) ==
    /\ r.refresh # NoToken => Issued(r.refresh)
    /\ r.got # NoToken => Issued(r.got)
    /\ r.seen # NoToken =>
         r.refresh # NoToken /\ Issued(r.seen) /\ family[r.seen] = family[r.refresh]
    /\ r.pc \in Flying \cup {"join", "logout", "closing"} => r.refresh # NoToken
    /\ r.pc \in Flying \cup {"try", "join", "retry"} => r.kind \in Session
    /\ r.pc \in {"sent", "try", "call", "reuse", "join"} => r.got = NoToken
    /\ r.pc \in {"login", "me"} => r.kind = "login"
    /\ r.pc \in {"logout", "closing"} => r.kind = "logout"
    /\ r.pc = "set" => r.kind \in Session \cup {"login"}
    /\ r.pc \in {"reuse", "closing"} => r.seen # NoToken
    /\ r.pc \in {"reuse", "replied"} => r.refresh \in spent
    /\ r.pc = "retry" => r.got # NoToken
    /\ r.pc \in {"replied", "retry", "set"} /\ r.kind \in Session /\ r.got # NoToken =>
         r.refresh \in spent /\ family[r.got] = family[r.refresh]
    /\ r.pc \in {"me", "set"} /\ r.kind = "login" => r.got # NoToken /\ family[r.got] = r.got
    /\ r.pc = "clear" /\ r.kind # "logout" => r.refresh = NoToken \/ r.refresh \in spent
    /\ ~lossy /\ r.pc = "clear" /\ r.kind = "logout" /\ r.refresh # NoToken
         => head[family[r.refresh]] = NoToken \/ r.seen \in spent

InFlight(s) == req[s].pc \in Flying

\* The map and the handlers agree on who refreshes which token.
Flights ==
    /\ \A s \in Slots : InFlight(s) => refreshRequests[req[s].refresh] = s
    /\ \A t \in Tokens : refreshRequests[t] # NoSlot =>
         InFlight(refreshRequests[t]) /\ req[refreshRequests[t]].refresh = t
    /\ \A s \in Slots : req[s].pc = "join" => refreshRequests[req[s].refresh] # NoSlot

Busy(s) == req[s].pc # "idle"

\* The head that replaced t is in the hands of a handler.
OnItsWay(t) ==
    \E s \in Slots : /\ req[s].pc \in {"replied", "retry", "set", "clear"}
                     /\ req[s].kind \in Session
                     /\ req[s].got = head[family[t]]

\* One request at a time, no lost answer: its token is the family's or its handler
\* has the one that replaced it, so that a family is closed in one step.
OneByOne ==
    sequential /\ ~lossy =>
        /\ late = {}
        /\ \A s, r \in Slots : Busy(s) /\ Busy(r) => s = r
        /\ \A s \in Slots : Busy(s) => req[s].refresh = jar.refresh
        /\ jar.refresh # NoToken /\ head[family[jar.refresh]] \notin {NoToken, jar.refresh}
             => OnItsWay(jar.refresh)
        /\ \A s \in Slots : req[s].pc \in {"me", "set"} /\ req[s].kind = "login" =>
                              head[req[s].got] \in {NoToken, req[s].got}
        /\ \A s \in Slots : req[s].seen = NoToken
        /\ \A s \in Slots : req[s].pc = "replied" /\ req[s].got = NoToken =>
                              head[family[req[s].refresh]] = NoToken

BffInv ==
    /\ TypeOK
    /\ BackendOK
    /\ HeldIssued
    /\ \A s \in Slots : RequestOK(req[s])
    /\ Flights
    /\ OneByOne


-----------------------------------------------------------------------------
(* What the backend's steps do to the families. *)

BackendTypes ==
    /\ head \in [Tokens -> Tokens \cup {NoToken}]
    /\ spent \in SUBSET Tokens
    /\ family \in [Tokens -> Tokens \cup {NoToken}]

\* A step of the backend: the families stay well formed, what was issued keeps its
\* family, what is spent stays spent, what is closed stays closed.
Grows ==
    /\ BackendTypes' /\ BackendOK'
    /\ spent \subseteq spent'
    /\ \A t \in Tokens : Issued(t) =>
         /\ family'[t] = family[t]
         /\ head[family[t]] = NoToken => head'[family[t]] = NoToken

LEMMA StillGrows ==
  ASSUME BackendTypes, BackendOK, UNCHANGED <<head, spent, family>>
  PROVE  Grows
  BY DEF BackendTypes, BackendOK, Issued, Grows

LEMMA CloseGrows ==
  ASSUME BackendTypes, BackendOK, NEW F \in SUBSET Tokens, Backend!Close(F), family' = family
  PROVE  /\ Grows
         /\ \A f \in Tokens : head'[f] = IF f \in F THEN NoToken ELSE head[f]
         /\ \A f \in F : head[f] \in spent'
<1>1. /\ \A f \in F : head[f] # NoToken /\ head[f] \in Tokens
      /\ \A f \in Tokens : head'[f] = IF f \in F THEN NoToken ELSE head[f]
      /\ head' = [f \in Tokens |-> IF f \in F THEN NoToken ELSE head[f]]
      /\ spent' = spent \cup {head[f] : f \in F}
  BY DEF Backend!Close, BackendTypes
<1>2. BackendTypes'
  BY <1>1 DEF BackendTypes
<1>3. BackendOK'
  <2>1. ASSUME NEW t \in Tokens, Issued(t)'
        PROVE  /\ family'[t] \in Tokens /\ family'[family'[t]] = family'[t]
               /\ head'[family'[t]] = t \/ t \in spent'
    BY <1>1, <2>1 DEF BackendOK, Issued
  <2>2. ASSUME NEW f \in Tokens, head'[f] # NoToken
        PROVE  family'[head'[f]] = f /\ head'[f] \notin spent'
    <3>1. head'[f] = head[f] /\ f \notin F /\ head[f] # NoToken
      BY <1>1, <2>2
    <3>2. family[head[f]] = f /\ head[f] \notin spent
      BY <3>1 DEF BackendOK
    <3>3. \A g \in F : head[g] # head[f]
      BY <1>1, <3>1, <3>2 DEF BackendOK
    <3> QED
      BY <1>1, <3>1, <3>2, <3>3
  <2> QED
    BY <2>1, <2>2 DEF BackendOK
<1> QED
  BY <1>1, <1>2, <1>3 DEF Grows, BackendOK, Issued

\* A family closed at once.
LEMMA CloseIfOpenGrows ==
  ASSUME BackendTypes, BackendOK, NEW t \in Tokens, Issued(t),
         CloseIfOpen(family[t]), family' = family
  PROVE  /\ Grows
         /\ head'[family[t]] = NoToken
         /\ \A f \in Tokens : head'[f] \in {NoToken, head[f]}
         /\ t \in spent'
<1>1. family[t] \in Tokens /\ (head[family[t]] = t \/ t \in spent)
  BY DEF BackendOK
<1>2. CASE head[family[t]] = NoToken
  BY <1>1, <1>2, StillGrows DEF CloseIfOpen
<1>3. CASE head[family[t]] # NoToken
  <2>1. Backend!Close({family[t]}) /\ {family[t]} \in SUBSET Tokens
    BY <1>1, <1>3 DEF CloseIfOpen
  <2> QED
    BY <1>1, <2>1, CloseGrows DEF Grows
<1> QED
  BY <1>2, <1>3

LEMMA UnusedIsNew ==
  ASSUME BackendOK, NEW n \in Tokens, Backend!Unused(n)
  PROVE  ~Issued(n)
  BY DEF BackendOK, Backend!Unused

LEMMA AcceptedGrows ==
  ASSUME BackendTypes, BackendOK, NEW t \in Tokens, Issued(t), NEW n \in Tokens,
         RefreshAccepted(t, n)
  PROVE  /\ Grows
         /\ t \in spent'
         /\ n # NoToken /\ ~Issued(n) /\ head[family[t]] = t
         /\ family[t] \in Tokens /\ family'[n] = family[t] /\ head'[family[t]] = n
         /\ \A f \in Tokens : f # family[t] => head'[f] = head[f]
<1> DEFINE f == family[t]
<1>1. /\ head[f] = t
      /\ Backend!Unused(n)
      /\ head' = [head EXCEPT ![f] = n]
      /\ spent' = spent \cup {t}
      /\ family' = [family EXCEPT ![n] = f]
  BY DEF RefreshAccepted, Accepts, Backend!Replace
<1>2. ~Issued(n)
  BY <1>1, UnusedIsNew
<1>3. f \in Tokens /\ family[f] = f /\ f # n /\ t # n
  BY <1>2 DEF BackendOK, Issued
<1>4. /\ \A g \in Tokens : head'[g] = IF g = f THEN n ELSE head[g]
      /\ \A u \in Tokens : family'[u] = IF u = n THEN f ELSE family[u]
  BY <1>1 DEF BackendTypes
<1>5. BackendTypes'
  BY <1>1, <1>3 DEF BackendTypes
<1>6. BackendOK'
  <2>1. ASSUME NEW u \in Tokens, Issued(u)'
        PROVE  /\ family'[u] \in Tokens /\ family'[family'[u]] = family'[u]
               /\ head'[family'[u]] = u \/ u \in spent'
    <3>1. CASE u = n
      BY <1>3, <1>4, <3>1
    <3>2. CASE u # n
      <4>1. /\ Issued(u) /\ family'[u] = family[u]
            /\ family[u] \in Tokens /\ family[family[u]] = family[u]
            /\ head[family[u]] = u \/ u \in spent
        BY <1>4, <2>1, <3>2 DEF Issued, BackendOK
      <4>2. family[u] # n
        BY <1>2, <4>1 DEF Issued
      <4> QED
        BY <1>1, <1>4, <4>1, <4>2
    <3> QED
      BY <3>1, <3>2
  <2>2. ASSUME NEW g \in Tokens, head'[g] # NoToken
        PROVE  family'[head'[g]] = g /\ head'[g] \notin spent'
    <3>1. CASE g = f
      BY <1>1, <1>3, <1>4, <3>1 DEF Backend!Unused
    <3>2. CASE g # f
      <4>1. head'[g] = head[g] /\ head[g] \in Tokens /\ family[head[g]] = g /\ head[g] \notin spent
        BY <1>4, <2>2, <3>2 DEF BackendTypes, BackendOK
      <4>2. head[g] # t /\ head[g] # n
        BY <1>1, <3>2, <4>1 DEF Backend!Unused
      <4> QED
        BY <1>1, <1>4, <4>1, <4>2
    <3> QED
      BY <3>1, <3>2
  <2> QED
    BY <2>1, <2>2 DEF BackendOK
<1> QED
  BY <1>1, <1>2, <1>3, <1>4, <1>5, <1>6 DEF Grows, Issued

LEMMA OpenGrows ==
  ASSUME BackendTypes, BackendOK, NEW n \in Tokens,
         Backend!Open(n), family' = [family EXCEPT ![n] = n]
  PROVE  /\ Grows
         /\ n # NoToken /\ ~Issued(n)
         /\ family'[n] = n /\ head'[n] = n
         /\ \A f \in Tokens : f # n => head'[f] = head[f]
<1>1. /\ Backend!Unused(n)
      /\ head' = [head EXCEPT ![n] = n]
      /\ spent' = spent
  BY DEF Backend!Open
<1>2. ~Issued(n)
  BY <1>1, UnusedIsNew
<1>3. /\ \A g \in Tokens : head'[g] = IF g = n THEN n ELSE head[g]
      /\ \A u \in Tokens : family'[u] = IF u = n THEN n ELSE family[u]
  BY <1>1 DEF BackendTypes
<1>4. BackendTypes'
  BY <1>1 DEF BackendTypes
<1>5. BackendOK'
  <2>1. ASSUME NEW u \in Tokens, Issued(u)'
        PROVE  /\ family'[u] \in Tokens /\ family'[family'[u]] = family'[u]
               /\ head'[family'[u]] = u \/ u \in spent'
    BY <1>1, <1>2, <1>3, <2>1 DEF Issued, BackendOK
  <2>2. ASSUME NEW g \in Tokens, head'[g] # NoToken
        PROVE  family'[head'[g]] = g /\ head'[g] \notin spent'
    <3>1. CASE g = n
      BY <1>1, <1>3, <3>1 DEF Backend!Unused
    <3>2. CASE g # n
      <4>1. head'[g] = head[g] /\ head[g] \in Tokens /\ family[head[g]] = g /\ head[g] \notin spent
        BY <1>3, <2>2, <3>2 DEF BackendTypes, BackendOK
      <4>2. head[g] # n
        BY <1>1, <3>2, <4>1 DEF Backend!Unused
      <4> QED
        BY <1>1, <1>3, <4>1, <4>2
    <3> QED
      BY <3>1, <3>2
  <2> QED
    BY <2>1, <2>2 DEF BackendOK
<1>6. \A t \in Tokens : Issued(t) => family[t] # n
  BY <1>2 DEF BackendOK, Issued
<1> QED
  BY <1>1, <1>2, <1>3, <1>4, <1>5, <1>6 DEF Grows, Issued, BackendOK

\* What a handler relies on survives every step of the backend.
LEMMA RequestKept ==
  ASSUME Grows, NEW r \in Requests, RequestOK(r), world' = world
  PROVE  RequestOK(r)'
<1>1. /\ r.refresh \in Tokens \cup {NoToken} /\ r.got \in Tokens \cup {NoToken}
      /\ r.seen \in Tokens \cup {NoToken}
  BY DEF Requests
<1>2. /\ r.refresh # NoToken => Issued(r.refresh)' /\ family'[r.refresh] = family[r.refresh]
      /\ r.got # NoToken => Issued(r.got)' /\ family'[r.got] = family[r.got]
      /\ r.seen # NoToken => Issued(r.seen)' /\ family'[r.seen] = family[r.seen]
  BY <1>1 DEF RequestOK, Grows, Issued
<1>3. r.pc \in {"replied", "retry", "set"} /\ r.kind \in Session /\ r.got # NoToken =>
         r.refresh \in spent' /\ family'[r.got] = family'[r.refresh]
  BY <1>1, <1>2 DEF RequestOK, Grows, BackendTypes
<1> QED
  BY <1>1, <1>2, <1>3 DEF RequestOK, Grows


-----------------------------------------------------------------------------
(* Records of requests. *)

LEMMA RequestFields ==
  ASSUME NEW r \in Requests
  PROVE  /\ r.kind \in Kinds /\ r.pc \in PCs /\ r.access \in BOOLEAN
         /\ r.refresh \in Tokens \cup {NoToken} /\ r.got \in Tokens \cup {NoToken}
         /\ r.seen \in Tokens \cup {NoToken}
  BY DEF Requests

LEMMA PcSet ==
  ASSUME NEW r \in Requests, NEW c \in PCs
  PROVE  /\ [r EXCEPT !.pc = c] \in Requests
         /\ [r EXCEPT !.pc = c].pc = c
         /\ [r EXCEPT !.pc = c].kind = r.kind
         /\ [r EXCEPT !.pc = c].refresh = r.refresh
         /\ [r EXCEPT !.pc = c].got = r.got
         /\ [r EXCEPT !.pc = c].seen = r.seen
  BY DEF Requests

LEMMA NoReqIs ==
  /\ NoReq \in Requests
  /\ NoReq.pc = "idle" /\ NoReq.kind = "none" /\ NoReq.refresh = NoToken
  /\ NoReq.got = NoToken /\ NoReq.seen = NoToken
  BY DEF NoReq, Requests, Kinds, PCs

-----------------------------------------------------------------------------
(* The parts of the invariant a step of one handler has to look at. *)

LEMMA SlotsKept ==
  ASSUME BffInv, Grows, world' = world,
         \A s \in Slots : req'[s] = req[s] \/ RequestOK(req[s])'
  PROVE  (\A s \in Slots : RequestOK(req[s]))'
<1> SUFFICES ASSUME NEW s \in Slots, req'[s] = req[s] PROVE RequestOK(req[s])'
  OBVIOUS
<1>1. PICK r \in Requests : r = req[s]
  BY DEF BffInv, TypeOK
<1>2. RequestOK(r)
  BY <1>1 DEF BffInv
<1>3. RequestOK(r)'
  BY <1>2, RequestKept
<1> QED
  BY <1>1, <1>3 DEF RequestOK

\* Handler s moves, without starting or ending a refresh.
LEMMA MoveParts ==
  ASSUME BffInv, Grows, NEW s \in Slots, NEW new \in Requests,
         req' = [req EXCEPT ![s] = new], RequestOK(new)',
         new.pc # "join",
         new.pc \in Flying <=> InFlight(s),
         InFlight(s) => new.refresh = req[s].refresh,
         active' \in BOOLEAN, late' \subseteq late,
         UNCHANGED <<refreshRequests, jar, world>>
  PROVE  TypeOK' /\ BackendOK' /\ HeldIssued' /\ (\A r \in Slots : RequestOK(req[r]))' /\ Flights'
<1>1. \A r \in Slots : req'[r] = IF r = s THEN new ELSE req[r]
  BY DEF BffInv, TypeOK
<1>2. TypeOK'
  BY DEF BffInv, TypeOK, Grows, BackendTypes
<1>3. BackendOK'
  BY DEF Grows
<1>4. HeldIssued'
  <2>1. jar.refresh \in Tokens \cup {NoToken} /\ late \subseteq Tokens
    BY DEF BffInv, TypeOK
  <2> QED
    BY <2>1 DEF BffInv, HeldIssued, Issued, Grows
<1>5. RequestOK(req[s])'
  BY <1>1 DEF RequestOK
<1>6. (\A r \in Slots : RequestOK(req[r]))'
  BY <1>1, <1>5, SlotsKept
<1>7. Flights'
  <2>1. \A r \in Slots : InFlight(r)' <=> InFlight(r)
    BY <1>1 DEF InFlight
  <2>2. \A r \in Slots : InFlight(r) => req'[r].refresh = req[r].refresh
    BY <1>1
  <2>3. \A t \in Tokens : refreshRequests[t] \in Slots \cup {NoSlot}
    BY DEF BffInv, TypeOK
  <2>4. \A r \in Slots : req'[r].pc = "join" => req'[r] = req[r]
    BY <1>1
  <2> QED
    BY <2>1, <2>2, <2>3, <2>4 DEF BffInv, Flights
<1> QED
  BY <1>2, <1>3, <1>4, <1>6, <1>7

Way == {"replied", "retry", "set", "clear"}

\* What a handler does when nothing is lost: it keeps its token, and what it
\* holds for the browser.
Proceeds(s) ==
    /\ Busy(s)' => Busy(s) /\ req'[s].refresh = req[s].refresh
    /\ req[s].pc \in Way /\ req[s].kind \in Session =>
         req'[s].pc \in Way /\ req'[s].kind \in Session /\ req'[s].got = req[s].got
    /\ req'[s].pc \in {"me", "set"} /\ req'[s].kind = "login" =>
         req[s].pc \in {"me", "set"} /\ req[s].kind = "login" /\ req[s].got = req'[s].got
    /\ req'[s].seen \in {NoToken, req[s].seen}
    /\ req'[s].pc = "replied" /\ req'[s].got = NoToken =>
         \/ head'[family'[req'[s].refresh]] = NoToken
         \/ req[s].pc = "replied" /\ req[s].got = NoToken /\ req'[s].refresh = req[s].refresh

LEMMA ClosingOneByOne ==
  ASSUME BffInv, Grows, \A f \in Tokens : head'[f] \in {NoToken, head[f]},
         sequential /\ ~lossy => \A s \in Slots : Proceeds(s),
         late' \subseteq late,
         UNCHANGED <<jar, world>>
  PROVE  OneByOne'
<1> SUFFICES ASSUME sequential, ~lossy
             PROVE  /\ late' = {}
                    /\ \A s, r \in Slots : Busy(s)' /\ Busy(r)' => s = r
                    /\ \A s \in Slots : Busy(s)' => req'[s].refresh = jar'.refresh
                    /\ jar'.refresh # NoToken
                         /\ head'[family'[jar'.refresh]] \notin {NoToken, jar'.refresh}
                         => OnItsWay(jar.refresh)'
                    /\ \A s \in Slots : req'[s].pc \in {"me", "set"} /\ req'[s].kind = "login" =>
                            head'[req'[s].got] \in {NoToken, req'[s].got}
                    /\ \A s \in Slots : req'[s].seen = NoToken
                    /\ \A s \in Slots : req'[s].pc = "replied" /\ req'[s].got = NoToken =>
                            head'[family'[req'[s].refresh]] = NoToken
  BY DEF OneByOne
<1>1. /\ late = {}
      /\ \A s, r \in Slots : Busy(s) /\ Busy(r) => s = r
      /\ \A s \in Slots : Busy(s) => req[s].refresh = jar.refresh
      /\ jar.refresh # NoToken /\ head[family[jar.refresh]] \notin {NoToken, jar.refresh}
           => OnItsWay(jar.refresh)
      /\ \A s \in Slots : req[s].pc \in {"me", "set"} /\ req[s].kind = "login" =>
                              head[req[s].got] \in {NoToken, req[s].got}
      /\ \A s \in Slots : req[s].seen = NoToken
      /\ \A s \in Slots : req[s].pc = "replied" /\ req[s].got = NoToken =>
                              head[family[req[s].refresh]] = NoToken
  BY DEF BffInv, OneByOne
<1>2. \A s \in Slots : Proceeds(s)
  OBVIOUS
<1>3. ASSUME jar.refresh # NoToken, head'[family'[jar.refresh]] \notin {NoToken, jar.refresh}
      PROVE  OnItsWay(jar.refresh)'
  <2>1. family'[jar.refresh] = family[jar.refresh] /\ family[jar.refresh] \in Tokens
    BY <1>3 DEF BffInv, TypeOK, HeldIssued, Grows, BackendOK, Issued
  <2>2. head'[family[jar.refresh]] = head[family[jar.refresh]]
    BY <1>3, <2>1
  <2>3. OnItsWay(jar.refresh)
    BY <1>1, <1>3, <2>1, <2>2
  <2> QED
    BY <1>2, <2>1, <2>2, <2>3 DEF OnItsWay, Proceeds, Way
<1>4. ASSUME NEW s \in Slots, req'[s].pc \in {"me", "set"}, req'[s].kind = "login"
      PROVE  head'[req'[s].got] \in {NoToken, req'[s].got}
  <2>1. req[s].pc \in {"me", "set"} /\ req[s].kind = "login" /\ req'[s].got = req[s].got
    BY <1>2, <1>4 DEF Proceeds
  <2>2. req[s].got \in Tokens
    BY <2>1 DEF BffInv, RequestOK, TypeOK, Requests
  <2> QED
    BY <1>1, <2>1, <2>2
<1>5. ASSUME NEW s \in Slots, req'[s].pc = "replied", req'[s].got = NoToken
      PROVE  head'[family'[req'[s].refresh]] = NoToken
  <2> SUFFICES ASSUME req[s].pc = "replied", req[s].got = NoToken,
                      req'[s].refresh = req[s].refresh
               PROVE  head'[family'[req'[s].refresh]] = NoToken
    BY <1>2, <1>5 DEF Proceeds
  <2>1. req[s].refresh \in Tokens /\ Issued(req[s].refresh)
    BY DEF BffInv, RequestOK, Flying, TypeOK, Requests
  <2> QED
    BY <1>1, <2>1 DEF Grows
<1> QED
  BY <1>1, <1>2, <1>3, <1>4, <1>5 DEF Proceeds

\* Handler s moves, the backend at most closing families.
LEMMA MoveInv ==
  ASSUME BffInv, Grows, \A f \in Tokens : head'[f] \in {NoToken, head[f]},
         NEW s \in Slots, NEW new \in Requests,
         req' = [req EXCEPT ![s] = new], RequestOK(new)',
         new.pc # "join",
         new.pc \in Flying <=> InFlight(s),
         InFlight(s) => new.refresh = req[s].refresh,
         sequential /\ ~lossy => Proceeds(s),
         active' \in BOOLEAN, late' \subseteq late,
         UNCHANGED <<refreshRequests, jar, world>>
  PROVE  BffInv'
<1>1. TypeOK' /\ BackendOK' /\ HeldIssued' /\ (\A r \in Slots : RequestOK(req[r]))' /\ Flights'
  BY MoveParts
<1>2. \A r \in Slots \ {s} : req'[r] = req[r]
  BY DEF BffInv, TypeOK
<1>3. \A r \in Slots \ {s} : Proceeds(r)
  BY <1>2 DEF Proceeds, Busy
<1>4. OneByOne'
  BY <1>3, ClosingOneByOne
<1> QED
  BY <1>1, <1>4 DEF BffInv

\* What a handler may rely on at its next step, from what it could at this one.
LEMMA NextRequestOK ==
  ASSUME Grows, NEW r \in Requests, RequestOK(r), world' = world,
         NEW new \in Requests, new.kind = r.kind, new.refresh = r.refresh,
         new.got = r.got, new.seen = r.seen,
         new.pc \in {"login", "logout", "keep", "set", "clear"},
         new.pc = "login" => r.kind = "login",
         new.pc = "logout" => r.kind = "logout" /\ r.refresh # NoToken,
         new.pc = "set" => r.pc \in {"retry", "me"},
         new.pc = "clear" /\ r.kind # "logout" => r.refresh = NoToken \/ r.pc = "retry",
         ~lossy /\ new.pc = "clear" /\ r.kind = "logout" /\ r.refresh # NoToken
            => head'[family[r.refresh]] = NoToken \/ r.seen \in spent'
  PROVE  RequestOK(new)'
<1>1. RequestOK(r)'
  BY RequestKept
<1>2. r.refresh \in Tokens \cup {NoToken} /\ r.got \in Tokens \cup {NoToken}
  BY RequestFields
<1>3. r.refresh # NoToken => family'[r.refresh] = family[r.refresh]
  BY <1>2 DEF RequestOK, Grows
<1> QED
  BY <1>1, <1>2, <1>3 DEF RequestOK, Session, Flying

\* A handler goes on to another step, the backend at most closing families.
LEMMA GoToInv ==
  ASSUME BffInv, Grows, \A f \in Tokens : head'[f] \in {NoToken, head[f]},
         NEW s \in Slots,
         NEW c \in {"login", "logout", "keep", "set", "clear"}, GoTo(s, c),
         req[s].pc \notin Flying \cup Answers \cup {"idle", "join"},
         ~lossy /\ req[s].pc = "retry" => c \in Way,
         c = "login" => req[s].kind = "login",
         c = "logout" => req[s].kind = "logout" /\ req[s].refresh # NoToken,
         c = "set" => req[s].pc \in {"retry", "me"},
         c = "clear" /\ req[s].kind # "logout" =>
            req[s].refresh = NoToken \/ req[s].pc = "retry",
         ~lossy /\ c = "clear" /\ req[s].kind = "logout" /\ req[s].refresh # NoToken
            => head'[family[req[s].refresh]] = NoToken \/ req[s].seen \in spent',
         active' \in BOOLEAN, late' \subseteq late,
         UNCHANGED <<refreshRequests, jar, world>>
  PROVE  BffInv'
<1>1. req[s] \in Requests /\ req \in [Slots -> Requests] /\ c \in PCs
  BY DEF BffInv, TypeOK, PCs
<1>2. PICK new \in Requests : new = [req[s] EXCEPT !.pc = c]
  BY <1>1, PcSet
<1>3. /\ new.pc = c /\ new.kind = req[s].kind /\ new.refresh = req[s].refresh
      /\ new.got = req[s].got /\ new.seen = req[s].seen
  BY <1>1, <1>2, PcSet
<1>4. req' = [req EXCEPT ![s] = new]
  BY <1>2 DEF GoTo
<1>5. RequestOK(new)'
  <2>1. PICK r \in Requests : r = req[s]
    BY <1>1
  <2>2. RequestOK(r)
    BY <2>1 DEF BffInv
  <2> QED
    BY <1>3, <2>1, <2>2, NextRequestOK
<1>6. req'[s] = new
  BY <1>1, <1>4
<1>7. ~lossy => Proceeds(s)
  <2>1. RequestOK(req[s])
    BY DEF BffInv
  <2> QED
    BY <1>3, <1>6, <2>1 DEF Proceeds, Busy, Way, Session, Answers, Flying, RequestOK
<1> QED
  BY <1>3, <1>4, <1>5, <1>7, MoveInv DEF InFlight, Flying

LEMMA Unmoved ==
  ASSUME BffInv, UNCHANGED <<head, spent, family>>
  PROVE  Grows /\ \A f \in Tokens : head'[f] \in {NoToken, head[f]}
  BY StillGrows DEF BffInv, TypeOK, BackendTypes

-----------------------------------------------------------------------------
(* One lemma per action. *)

LEMMA ArriveLogoutInv ==
  ASSUME BffInv, NEW s \in Slots, ArriveLogout(s)
  PROVE  BffInv'
<1>1. active' \in BOOLEAN
  BY DEF ArriveLogout, backend, BffInv, TypeOK
<1>2. Grows /\ \A f \in Tokens : head'[f] \in {NoToken, head[f]}
  BY Unmoved DEF ArriveLogout, backend
<1>3. CASE req[s].refresh = NoToken
  BY <1>1, <1>2, <1>3, GoToInv DEF ArriveLogout, backend, Answers, Flying
<1>4. CASE req[s].refresh # NoToken
  BY <1>1, <1>2, <1>4, GoToInv DEF ArriveLogout, backend, Answers, Flying
<1> QED
  BY <1>3, <1>4

LEMMA ArriveLoginInv ==
  ASSUME BffInv, NEW s \in Slots, ArriveLogin(s)
  PROVE  BffInv'
<1>1. active' \in BOOLEAN
  BY DEF ArriveLogin, backend, BffInv, TypeOK
<1>2. Grows /\ \A f \in Tokens : head'[f] \in {NoToken, head[f]}
  BY Unmoved DEF ArriveLogin, backend
<1> QED
  BY <1>1, <1>2, GoToInv DEF ArriveLogin, backend, Answers, Flying

\* A request that needs a refresh joins the one under way or starts one.
LEMMA RefreshAccessTokenInv ==
  ASSUME BffInv, NEW s \in Slots, RefreshAccessToken(s),
         req[s].pc \in {"sent", "try"}, req[s].kind \in Session, req[s].refresh # NoToken,
         UNCHANGED <<backend, jar, world>>
  PROVE  BffInv'
<1> DEFINE t == req[s].refresh
<1>1. req[s] \in Requests /\ req \in [Slots -> Requests] /\ t \in Tokens
  BY RequestFields DEF BffInv, TypeOK
<1>2. Grows /\ \A f \in Tokens : head'[f] \in {NoToken, head[f]}
  BY Unmoved DEF backend
<1>3. PICK c \in {"join", "call"} : GoTo(s, c)
  BY DEF RefreshAccessToken
<1>4. PICK new \in Requests : new = [req[s] EXCEPT !.pc = c]
  BY <1>1, PcSet DEF PCs
<1>5. /\ new.pc = c /\ new.kind = req[s].kind /\ new.refresh = t
      /\ new.got = req[s].got /\ new.seen = req[s].seen
  BY <1>1, <1>4, PcSet DEF PCs
<1>6. req' = [req EXCEPT ![s] = new]
  BY <1>3, <1>4 DEF GoTo
<1>7. \A r \in Slots : req'[r] = IF r = s THEN new ELSE req[r]
  BY <1>1, <1>6
<1>8. RequestOK(req[s])'
  <2>1. RequestOK(req[s])
    BY DEF BffInv
  <2> QED
    BY <1>5, <1>7, <2>1 DEF RequestOK, Flying, Issued, backend
<1>9. (\A r \in Slots : RequestOK(req[r]))'
  BY <1>2, <1>7, <1>8, SlotsKept
<1>10. /\ refreshRequests \in [Tokens -> Slots \cup {NoSlot}]
       /\ \/ c = "join" /\ refreshRequests[t] # NoSlot /\ refreshRequests' = refreshRequests
          \/ /\ c = "call" /\ refreshRequests[t] = NoSlot
             /\ refreshRequests' = [refreshRequests EXCEPT ![t] = s]
  <2>1. refreshRequests \in [Tokens -> Slots \cup {NoSlot}]
    BY DEF BffInv, TypeOK
  <2>2. CASE refreshRequests[t] # NoSlot
    <3>1. GoTo(s, "join") /\ refreshRequests' = refreshRequests
      BY <2>2 DEF RefreshAccessToken
    <3>2. req'[s].pc = "join"
      BY <1>1, <3>1, PcSet DEF GoTo, PCs
    <3> QED
      BY <1>5, <1>7, <2>1, <2>2, <3>1, <3>2
  <2>3. CASE refreshRequests[t] = NoSlot
    <3>1. GoTo(s, "call") /\ refreshRequests' = [refreshRequests EXCEPT ![t] = s]
      BY <2>3 DEF RefreshAccessToken
    <3>2. req'[s].pc = "call"
      BY <1>1, <3>1, PcSet DEF GoTo, PCs
    <3> QED
      BY <1>5, <1>7, <2>1, <2>3, <3>1, <3>2
  <2> QED
    BY <2>2, <2>3
<1>11. TypeOK'
  BY <1>1, <1>6, <1>10 DEF BffInv, TypeOK, backend
<1>12. BackendOK' /\ HeldIssued'
  BY <1>2 DEF Grows, BffInv, HeldIssued, Issued, backend
<1>13. Flights'
  <2>1. ~InFlight(s) /\ req[s].pc # "join"
    BY DEF InFlight, Flying
  <2>2. \A r \in Slots : r # s => req'[r] = req[r] /\ (InFlight(r)' <=> InFlight(r))
    BY <1>7 DEF InFlight, Flying
  <2>3. Flights
    BY DEF BffInv
  <2>4. CASE c = "join"
    <3>1. ~InFlight(s)' /\ refreshRequests' = refreshRequests /\ refreshRequests[t] # NoSlot
      BY <1>5, <1>7, <1>10, <2>4 DEF InFlight, Flying
    <3> QED
      BY <1>5, <1>7, <1>10, <2>1, <2>2, <2>3, <3>1 DEF Flights
  <2>5. CASE c = "call"
    <3>1. /\ InFlight(s)' /\ refreshRequests[t] = NoSlot
          /\ \A u \in Tokens : refreshRequests'[u] = IF u = t THEN s ELSE refreshRequests[u]
      BY <1>1, <1>5, <1>7, <1>10, <2>5 DEF InFlight, Flying
    <3>2. req'[s].refresh = t /\ req'[s].pc = "call"
      BY <1>5, <1>7, <2>5
    <3>3. \A r \in Slots : InFlight(r)' => refreshRequests'[req'[r].refresh] = r
      <4> SUFFICES ASSUME NEW r \in Slots, InFlight(r)', r # s
                   PROVE  refreshRequests'[req'[r].refresh] = r
        BY <1>1, <3>1, <3>2
      <4>1. InFlight(r) /\ req'[r] = req[r] /\ refreshRequests[req[r].refresh] = r
        BY <2>2, <2>3 DEF Flights
      <4>2. req[r].refresh \in Tokens
        BY <4>1 DEF InFlight, Flying, BffInv, RequestOK, TypeOK, Requests
      <4> QED
        BY <3>1, <4>1, <4>2
    <3>4. ASSUME NEW u \in Tokens, refreshRequests'[u] # NoSlot
          PROVE  InFlight(refreshRequests[u])' /\ (req[refreshRequests[u]].refresh)' = u
      <4>1. CASE u = t
        BY <1>1, <3>1, <3>2, <4>1 DEF InFlight, Flying
      <4>2. CASE u # t
        <5>1. refreshRequests'[u] = refreshRequests[u] /\ refreshRequests[u] \in Slots
          BY <1>10, <3>1, <3>4, <4>2
        <5>2. InFlight(refreshRequests[u]) /\ req[refreshRequests[u]].refresh = u
          BY <2>3, <3>4, <5>1 DEF Flights
        <5> QED
          BY <2>1, <2>2, <5>1, <5>2 DEF InFlight, Flying
      <4> QED
        BY <4>1, <4>2
    <3>5. ASSUME NEW r \in Slots, req'[r].pc = "join"
          PROVE  refreshRequests'[req'[r].refresh] # NoSlot
      <4>1. r # s /\ req'[r] = req[r]
        BY <1>7, <3>2, <3>5
      <4>2. req[r].refresh \in Tokens /\ refreshRequests[req[r].refresh] # NoSlot
        BY <2>3, <3>5, <4>1 DEF BffInv, RequestOK, Flying, TypeOK, Requests, Flights
      <4> QED
        BY <3>1, <4>1, <4>2
    <3> QED
      BY <3>3, <3>4, <3>5 DEF Flights
  <2> QED
    BY <2>4, <2>5
<1>14. \A r \in Slots : Proceeds(r)
  BY <1>5, <1>7 DEF Proceeds, Busy, Way, Session
<1>15. OneByOne'
  BY <1>2, <1>14, ClosingOneByOne DEF backend
<1> QED
  BY <1>9, <1>11, <1>12, <1>13, <1>15 DEF BffInv

LEMMA ArriveSessionInv ==
  ASSUME BffInv, NEW s \in Slots, ArriveSession(s)
  PROVE  BffInv'
<1>1. active' \in BOOLEAN
  BY DEF ArriveSession, backend, BffInv, TypeOK
<1>2. Grows /\ \A f \in Tokens : head'[f] \in {NoToken, head[f]}
  BY Unmoved DEF ArriveSession, backend
<1>3. CASE req' = [req EXCEPT ![s].pc = "try", ![s].access = FALSE] /\ UNCHANGED refreshRequests
  <2>1. /\ req[s] \in Requests /\ req \in [Slots -> Requests] /\ RequestOK(req[s])
        /\ req[s].pc = "sent" /\ req[s].kind \in Session
        /\ UNCHANGED <<backend, jar, world>>
    BY DEF ArriveSession, Session, BffInv, TypeOK
  <2>2. PICK new \in Requests :
          /\ new = [req[s] EXCEPT !.pc = "try", !.access = FALSE]
          /\ new.pc = "try" /\ new.kind = req[s].kind /\ new.refresh = req[s].refresh
          /\ new.got = req[s].got /\ new.seen = req[s].seen
    <3> DEFINE r == [req[s] EXCEPT !.pc = "try", !.access = FALSE]
    <3>1. /\ r \in Requests
          /\ r.pc = "try" /\ r.kind = req[s].kind /\ r.refresh = req[s].refresh
          /\ r.got = req[s].got /\ r.seen = req[s].seen
      BY <2>1 DEF Requests, PCs
    <3>2. r = [req[s] EXCEPT !.pc = "try", !.access = FALSE]
      OBVIOUS
    <3> HIDE DEF r
    <3> QED
      BY <3>1, <3>2
  <2>3. req' = [req EXCEPT ![s] = new] /\ req'[s] = new
    BY <1>3, <2>1, <2>2
  <2>4. RequestOK(new)'
    BY <2>1, <2>2 DEF RequestOK, Flying, Session, Issued, backend
  <2>5. Proceeds(s)
    BY <2>1, <2>2, <2>3 DEF Proceeds, Busy, Way
  <2> QED
    BY <1>1, <1>2, <1>3, <2>1, <2>2, <2>3, <2>4, <2>5, MoveInv DEF InFlight, Flying, backend
<1>4. CASE req[s].refresh = NoToken /\ GoTo(s, "clear") /\ UNCHANGED refreshRequests
  BY <1>1, <1>2, <1>4, GoToInv DEF ArriveSession, backend, Answers, Flying, Session
<1>5. CASE req[s].refresh # NoToken /\ RefreshAccessToken(s)
  BY <1>5, RefreshAccessTokenInv DEF ArriveSession, Session
<1> QED
  BY <1>3, <1>4, <1>5 DEF ArriveSession

LEMMA TryInv ==
  ASSUME BffInv, NEW s \in Slots, Try(s)
  PROVE  BffInv'
<1>1. active' \in BOOLEAN
  BY DEF Try, backend, BffInv, TypeOK
<1>2. Grows /\ \A f \in Tokens : head'[f] \in {NoToken, head[f]}
  BY Unmoved DEF Try, backend
<1>3. req[s].kind \in Session
  BY DEF Try, BffInv, RequestOK, Flying
<1>4. CASE GoTo(s, "keep") /\ UNCHANGED refreshRequests
  BY <1>1, <1>2, <1>4, GoToInv DEF Try, backend, Answers, Flying
<1>5. CASE req[s].refresh = NoToken /\ GoTo(s, "clear") /\ UNCHANGED refreshRequests
  BY <1>1, <1>2, <1>5, GoToInv DEF Try, backend, Answers, Flying
<1>6. CASE req[s].refresh # NoToken /\ RefreshAccessToken(s)
  BY <1>3, <1>6, RefreshAccessTokenInv DEF Try
<1> QED
  BY <1>4, <1>5, <1>6 DEF Try

LEMMA RetryInv ==
  ASSUME BffInv, NEW s \in Slots, Retry(s)
  PROVE  BffInv'
<1>1. active' \in BOOLEAN
  BY DEF Retry, backend, BffInv, TypeOK
<1>2. Grows /\ \A f \in Tokens : head'[f] \in {NoToken, head[f]}
  BY Unmoved DEF Retry, backend
<1>3. req[s].kind \in Session
  BY DEF Retry, BffInv, RequestOK, Flying
<1>4. CASE GoTo(s, "set")
  BY <1>1, <1>2, <1>3, <1>4, GoToInv DEF Retry, backend, Answers, Flying, Way, Session
<1>5. CASE GoTo(s, "clear")
  BY <1>1, <1>2, <1>3, <1>5, GoToInv DEF Retry, backend, Answers, Flying, Way, Session
<1>6. CASE lossy /\ GoTo(s, "keep")
  BY <1>1, <1>2, <1>3, <1>6, GoToInv DEF Retry, backend, Answers, Flying, Way, Session
<1> QED
  BY <1>4, <1>5, <1>6 DEF Retry

LEMMA LoginMeInv ==
  ASSUME BffInv, NEW s \in Slots, LoginMe(s)
  PROVE  BffInv'
<1>1. active' \in BOOLEAN
  BY DEF LoginMe, backend, BffInv, TypeOK
<1>2. Grows /\ \A f \in Tokens : head'[f] \in {NoToken, head[f]}
  BY Unmoved DEF LoginMe, backend
<1>3. CASE GoTo(s, "set")
  BY <1>1, <1>2, <1>3, GoToInv DEF LoginMe, backend, Answers, Flying
<1>4. CASE GoTo(s, "keep")
  BY <1>1, <1>2, <1>4, GoToInv DEF LoginMe, backend, Answers, Flying
<1> QED
  BY <1>3, <1>4 DEF LoginMe

\* The family of a handler's token is closed, or its live session is noted.
LEMMA ClosesFamily ==
  ASSUME BffInv, NEW s \in Slots, req[s].refresh # NoToken, family' = family,
         NEW closing, NEW closed, CloseFamilyOf(s, closing, closed)
  PROVE  LET t == req[s].refresh
         IN  \/ /\ GoTo(s, closed)
                /\ Grows /\ \A f \in Tokens : head'[f] \in {NoToken, head[f]}
                /\ head'[family[t]] = NoToken /\ t \in spent'
             \/ /\ req' = [req EXCEPT ![s].pc = closing, ![s].seen = head[family[t]]]
                /\ head[family[t]] \notin {NoToken, t}
                /\ UNCHANGED <<head, spent>>
<1> DEFINE t == req[s].refresh
<1>1. t \in Tokens /\ Issued(t) /\ BackendTypes /\ BackendOK
  BY DEF BffInv, RequestOK, TypeOK, Requests, BackendTypes
<1>2. CASE head[family[t]] \in {NoToken, t}
  <2>1. CloseIfOpen(family[t]) /\ GoTo(s, closed)
    BY <1>2 DEF CloseFamilyOf, GoTo
  <2> QED
    BY <1>1, <2>1, CloseIfOpenGrows
<1>3. CASE head[family[t]] \notin {NoToken, t}
  BY <1>3 DEF CloseFamilyOf
<1> QED
  BY <1>2, <1>3

\* The second half: the family is closed, or the session noted was refreshed.
LEMMA ClosesSeen ==
  ASSUME BffInv, NEW s \in Slots, req[s].seen # NoToken, family' = family,
         NEW closing, NEW closed, CloseSeen(s, closing, closed)
  PROVE  /\ GoTo(s, closed)
         /\ Grows /\ \A f \in Tokens : head'[f] \in {NoToken, head[f]}
         /\ head'[family[req[s].refresh]] = NoToken \/ req[s].seen \in spent'
<1> DEFINE f == family[req[s].refresh]
           t == req[s].seen
<1>1. /\ t \in Tokens /\ Issued(t) /\ family[t] = f /\ f \in Tokens
      /\ head[f] = t \/ t \in spent
      /\ BackendTypes /\ BackendOK
  BY DEF BffInv, RequestOK, TypeOK, Requests, BackendTypes, BackendOK
<1>2. GoTo(s, closed)
  BY DEF CloseSeen, GoTo
<1>3. CASE head[f] = t
  <2>1. Backend!Close({f}) /\ {f} \in SUBSET Tokens
    BY <1>1, <1>3 DEF CloseSeen
  <2> QED
    BY <1>1, <1>2, <2>1, CloseGrows
<1>4. CASE head[f] # t
  <2>1. UNCHANGED <<head, spent>>
    BY <1>4 DEF CloseSeen
  <2> QED
    BY <1>1, <1>2, <1>4, <2>1, StillGrows
<1> QED
  BY <1>3, <1>4

\* A handler starts to close a family whose live session is not its own, which the
\* one request of a browser that waits never meets.
LEMMA StartsClosingInv ==
  ASSUME BffInv, NEW s \in Slots, NEW c,
         \/ req[s].pc = "call" /\ c = "reuse"
         \/ req[s].pc = "logout" /\ c = "closing",
         head[family[req[s].refresh]] \notin {NoToken, req[s].refresh},
         req' = [req EXCEPT ![s].pc = c, ![s].seen = head[family[req[s].refresh]]],
         UNCHANGED <<head, spent, family, active, late, refreshRequests, jar, world>>
  PROVE  BffInv'
<1> DEFINE t == req[s].refresh
           h == head[family[t]]
<1>1. /\ req[s] \in Requests /\ req \in [Slots -> Requests] /\ RequestOK(req[s])
      /\ t \in Tokens /\ Issued(t) /\ active \in BOOLEAN
  BY DEF BffInv, RequestOK, Flying, TypeOK, Requests
<1>2. /\ h \in Tokens /\ Issued(h) /\ family[h] = family[t] /\ t \in spent
  BY <1>1 DEF BffInv, TypeOK, BackendOK, Issued
<1>3. PICK new \in Requests :
        /\ new = [req[s] EXCEPT !.pc = c, !.seen = h]
        /\ new.pc = c /\ new.kind = req[s].kind /\ new.refresh = t
        /\ new.got = req[s].got /\ new.seen = h
  <2> DEFINE r == [req[s] EXCEPT !.pc = c, !.seen = h]
  <2> HIDE DEF h
  <2>1. /\ r \in Requests
        /\ r.pc = c /\ r.kind = req[s].kind /\ r.refresh = t
        /\ r.got = req[s].got /\ r.seen = h
    BY <1>1, <1>2 DEF Requests, PCs
  <2>2. r = [req[s] EXCEPT !.pc = c, !.seen = h]
    OBVIOUS
  <2> HIDE DEF r
  <2> QED
    BY <2>1, <2>2
<1>4. req' = [req EXCEPT ![s] = new]
  BY <1>1, <1>3
<1>5. RequestOK(new)'
  <2> HIDE DEF h, t
  <2> QED
    BY <1>1, <1>2, <1>3 DEF RequestOK, Flying, Session, Issued
<1>6. ~(sequential /\ ~lossy)
  <2> SUFFICES ASSUME sequential, ~lossy PROVE FALSE
    OBVIOUS
  <2>1. /\ t = jar.refresh /\ \A r \in Slots : Busy(r) => r = s
        /\ jar.refresh # NoToken /\ head[family[jar.refresh]] \notin {NoToken, jar.refresh}
             => OnItsWay(jar.refresh)
    BY DEF BffInv, OneByOne, Busy
  <2>2. ~OnItsWay(jar.refresh)
    BY <2>1 DEF OnItsWay, Busy
  <2> QED
    BY <1>1, <2>1, <2>2
<1>7. Grows /\ \A f \in Tokens : head'[f] \in {NoToken, head[f]}
  BY Unmoved
<1>8. new.pc # "join" /\ (new.pc \in Flying <=> InFlight(s))
  BY <1>3 DEF InFlight, Flying
<1> HIDE DEF t, h
<1> QED
  BY <1>1, <1>3, <1>4, <1>5, <1>6, <1>7, <1>8, MoveInv DEF t

LEMMA ServeLogoutInv ==
  ASSUME BffInv, NEW s \in Slots, ServeLogout(s)
  PROVE  BffInv'
<1>1. /\ req[s].pc \in {"logout", "closing"} /\ req[s].kind = "logout"
      /\ req[s].refresh # NoToken /\ active' \in BOOLEAN
      /\ UNCHANGED <<family, active, late, refreshRequests, jar, world>>
  BY DEF ServeLogout, CloseSeen, BffInv, RequestOK, TypeOK
<1>2. CASE req[s].pc = "logout" /\ CloseFamilyOf(s, "closing", "clear")
  BY <1>1, <1>2, ClosesFamily, StartsClosingInv, GoToInv DEF Answers, Flying
<1>3. CASE CloseSeen(s, "closing", "clear")
  <2>1. req[s].seen # NoToken
    BY <1>3 DEF CloseSeen, BffInv, RequestOK
  <2> QED
    BY <1>1, <1>3, <2>1, ClosesSeen, GoToInv DEF Answers, Flying
<1>4. CASE lossy /\ GoTo(s, "clear") /\ UNCHANGED <<head, spent>>
  <2>1. Grows /\ \A f \in Tokens : head'[f] \in {NoToken, head[f]}
    BY <1>1, <1>4, Unmoved
  <2> QED
    BY <1>1, <1>4, <2>1, GoToInv DEF Answers, Flying
<1> QED
  BY <1>2, <1>3, <1>4 DEF ServeLogout

\* A step that leaves the requests, the map and the jar's token alone.
LEMMA OutsideInv ==
  ASSUME BffInv, Grows, TypeOK', UNCHANGED <<refreshRequests, req, world>>,
         jar'.refresh = jar.refresh, \A t \in late' : Issued(t)',
         OneByOne'
  PROVE  BffInv'
<1>1. BackendOK'
  BY DEF Grows
<1>2. HeldIssued'
  BY DEF BffInv, HeldIssued, Issued, Grows, TypeOK
<1>3. (\A s \in Slots : RequestOK(req[s]))'
  BY SlotsKept
<1>4. Flights'
  BY DEF BffInv, Flights, InFlight
<1> QED
  BY <1>1, <1>2, <1>3, <1>4 DEF BffInv

LEMMA AccessExpiresInv ==
  ASSUME BffInv, AccessExpires
  PROVE  BffInv'
<1>1. Grows
  BY Unmoved DEF AccessExpires, backend
<1>2. jar' \in [access : BOOLEAN, refresh : Tokens \cup {NoToken}] /\ jar'.refresh = jar.refresh
  BY DEF AccessExpires, BffInv, TypeOK
<1>3. TypeOK'
  BY <1>2 DEF AccessExpires, backend, BffInv, TypeOK
<1>4. \A t \in late' : Issued(t)'
  BY DEF AccessExpires, backend, BffInv, HeldIssued, Issued
<1>5. OneByOne'
  BY <1>2 DEF AccessExpires, backend, BffInv, OneByOne, Busy, OnItsWay
<1> QED
  BY <1>1, <1>2, <1>3, <1>4, <1>5, OutsideInv DEF AccessExpires

LEMMA ReactivateInv ==
  ASSUME BffInv, Reactivate
  PROVE  BffInv'
<1>1. Grows
  BY Unmoved DEF Reactivate
<1>2. TypeOK'
  BY DEF Reactivate, BffInv, TypeOK
<1>3. \A t \in late' : Issued(t)'
  BY DEF Reactivate, BffInv, HeldIssued, Issued
<1>4. OneByOne'
  BY DEF Reactivate, BffInv, OneByOne, Busy, OnItsWay
<1> QED
  BY <1>1, <1>2, <1>3, <1>4, OutsideInv DEF Reactivate

LEMMA RevokeInv ==
  ASSUME BffInv, NEW F \in SUBSET Tokens, Revoke(F)
  PROVE  BffInv'
<1>1. BackendTypes /\ BackendOK
  BY DEF BffInv, TypeOK, BackendTypes
<1>2. /\ Grows
      /\ \A f \in Tokens : head'[f] = IF f \in F THEN NoToken ELSE head[f]
  BY <1>1, CloseGrows DEF Revoke
<1>3. active' \in BOOLEAN /\ UNCHANGED <<family, late, refreshRequests, req, jar, world>>
  BY DEF Revoke, BffInv, TypeOK
<1>4. TypeOK'
  BY <1>2, <1>3 DEF BffInv, TypeOK, Grows, BackendTypes
<1>5. \A t \in late' : Issued(t)'
  BY <1>3 DEF BffInv, HeldIssued, Issued
<1>6. \A s \in Slots : Proceeds(s)
  BY <1>3 DEF Proceeds, Busy
<1>7. OneByOne'
  BY <1>2, <1>3, <1>6, ClosingOneByOne
<1> QED
  BY <1>2, <1>3, <1>4, <1>5, <1>7, OutsideInv

LEMMA ServeLateInv ==
  ASSUME BffInv, NEW t \in Tokens, ServeLate(t)
  PROVE  BffInv'
<1>1. /\ BackendTypes /\ BackendOK /\ t \in late /\ Issued(t)
      /\ late' = late \ {t} /\ late \subseteq Tokens
      /\ UNCHANGED <<active, refreshRequests, req, jar, world>>
  BY DEF ServeLate, BffInv, TypeOK, BackendTypes, HeldIssued
<1>2. Grows
  <2>1. ASSUME NEW n \in Tokens, RefreshAccepted(t, n) PROVE Grows
    BY <1>1, <2>1, AcceptedGrows
  <2>2. CASE Backend!Close({family[t]}) /\ family' = family
    <3>1. {family[t]} \in SUBSET Tokens
      BY <1>1 DEF BackendOK
    <3> QED
      BY <1>1, <2>2, <3>1, CloseGrows
  <2>3. CASE UNCHANGED <<head, spent, family>>
    BY <1>1, <2>3, StillGrows
  <2> QED
    BY <2>1, <2>2, <2>3 DEF ServeLate
<1>3. TypeOK'
  BY <1>1, <1>2 DEF BffInv, TypeOK, Grows, BackendTypes
<1>4. \A u \in late' : Issued(u)'
  BY <1>1, <1>2 DEF BffInv, HeldIssued, Grows, Issued
<1>5. OneByOne'
  BY <1>1 DEF BffInv, OneByOne
<1> QED
  BY <1>1, <1>2, <1>3, <1>4, <1>5, OutsideInv

LEMMA SendInv ==
  ASSUME BffInv, NEW s \in Slots, NEW kind \in Sends, Send(s, kind)
  PROVE  BffInv'
<1>1. /\ req \in [Slots -> Requests]
      /\ jar.access \in BOOLEAN /\ jar.refresh \in Tokens \cup {NoToken}
  BY DEF BffInv, TypeOK
<1>2. PICK new \in Requests :
        /\ new = [NoReq EXCEPT !.kind = kind, !.pc = "sent",
                               !.access = jar.access /\ kind \in {"api", "mfa"},
                               !.refresh = jar.refresh]
        /\ new.pc = "sent" /\ new.kind = kind
        /\ new.refresh = jar.refresh /\ new.got = NoToken /\ new.seen = NoToken
  <2> DEFINE a == jar.access /\ kind \in {"api", "mfa"}
             r == [NoReq EXCEPT !.kind = kind, !.pc = "sent", !.access = a,
                                !.refresh = jar.refresh]
  <2>1. a \in BOOLEAN
    OBVIOUS
  <2> HIDE DEF a
  <2>2. /\ r \in Requests /\ r.pc = "sent" /\ r.kind = kind
        /\ r.refresh = jar.refresh /\ r.got = NoToken /\ r.seen = NoToken
    BY <1>1, <2>1 DEF NoReq, Requests, Kinds, PCs
  <2> HIDE DEF r
  <2>3. \E new \in Requests : new = r /\ new.pc = "sent" /\ new.kind = kind
                /\ new.refresh = jar.refresh /\ new.got = NoToken /\ new.seen = NoToken
    BY <2>2
  <2> QED
    BY <2>3 DEF r, a
<1>3. req' = [req EXCEPT ![s] = new] /\ UNCHANGED <<backend, refreshRequests, jar, world>>
  BY <1>2 DEF Send, Open
<1>4. \A r \in Slots : req'[r] = IF r = s THEN new ELSE req[r]
  BY <1>1, <1>3
<1>5. Grows
  BY <1>3, Unmoved DEF backend
<1>6. RequestOK(req[s])'
  BY <1>2, <1>3, <1>4 DEF BffInv, HeldIssued, RequestOK, Flying, Issued, backend
<1>7. (\A r \in Slots : RequestOK(req[r]))'
  BY <1>3, <1>4, <1>5, <1>6, SlotsKept
<1>8. TypeOK' /\ BackendOK' /\ HeldIssued'
  BY <1>3, <1>5 DEF BffInv, TypeOK, HeldIssued, Issued, Grows, backend
<1>9. req[s].pc = "idle"
  BY DEF Send
<1>10. Flights'
  BY <1>2, <1>3, <1>4, <1>9 DEF BffInv, TypeOK, Flights, InFlight, Flying
<1>11. OneByOne'
  <2> SUFFICES ASSUME sequential, ~lossy PROVE OneByOne'
    BY <1>3 DEF OneByOne
  <2>1. \A r \in Slots : req[r].pc = "idle"
    BY DEF Send
  <2>2. \A r \in Slots : Busy(r)' => r = s
    BY <1>4, <2>1 DEF Busy
  <2>3. ~OnItsWay(jar.refresh)
    BY <2>1 DEF OnItsWay
  <2>4. \A r \in Slots : req'[r].pc \notin {"me", "set", "replied"}
    BY <1>2, <1>4, <2>1
  <2>5. \A r \in Slots : req'[r].seen = NoToken
    BY <1>2, <1>4 DEF BffInv, OneByOne
  <2> QED
    BY <1>2, <1>3, <1>4, <2>2, <2>3, <2>4, <2>5 DEF BffInv, OneByOne, backend
<1> QED
  BY <1>7, <1>8, <1>10, <1>11 DEF BffInv

\* A handler is done: its slot is free again.
LEMMA ClosedParts ==
  ASSUME BffInv, NEW s \in Slots, Closed(s), ~InFlight(s),
         UNCHANGED <<backend, refreshRequests, world>>,
         jar' \in [access : BOOLEAN, refresh : Tokens \cup {NoToken}],
         jar'.refresh # NoToken => Issued(jar'.refresh)
  PROVE  /\ TypeOK' /\ BackendOK' /\ HeldIssued'
         /\ (\A r \in Slots : RequestOK(req[r]))' /\ Flights'
         /\ \A r \in Slots : req'[r] = IF r = s THEN NoReq ELSE req[r]
<1>1. req \in [Slots -> Requests] /\ req' = [req EXCEPT ![s] = NoReq]
  BY DEF BffInv, TypeOK, Closed
<1>2. \A r \in Slots : req'[r] = IF r = s THEN NoReq ELSE req[r]
  BY <1>1
<1>3. Grows
  BY Unmoved DEF backend
<1>4. TypeOK'
  BY <1>1, NoReqIs DEF BffInv, TypeOK, backend
<1>5. BackendOK' /\ HeldIssued'
  BY <1>3 DEF BffInv, HeldIssued, Issued, Grows, backend
<1>6. RequestOK(req[s])'
  BY <1>2, NoReqIs DEF RequestOK, Flying
<1>7. (\A r \in Slots : RequestOK(req[r]))'
  BY <1>2, <1>3, <1>6, SlotsKept
<1>8. Flights'
  BY <1>2, NoReqIs DEF BffInv, TypeOK, Flights, InFlight, Flying
<1> QED
  BY <1>2, <1>4, <1>5, <1>7, <1>8

LEMMA LoseInv ==
  ASSUME BffInv, NEW s \in Slots, Lose(s)
  PROVE  BffInv'
<1>1. /\ Closed(s) /\ ~InFlight(s) /\ lossy
      /\ UNCHANGED <<backend, refreshRequests, jar, world>>
  BY DEF Lose, InFlight, Flying, Answers
<1>2. /\ jar \in [access : BOOLEAN, refresh : Tokens \cup {NoToken}]
      /\ jar.refresh # NoToken => Issued(jar.refresh)
  BY DEF BffInv, TypeOK, HeldIssued
<1>3. OneByOne'
  BY <1>1 DEF OneByOne
<1> QED
  BY <1>1, <1>2, <1>3, ClosedParts DEF BffInv

LEMMA JarType ==
  ASSUME NEW a \in BOOLEAN, NEW t \in Tokens \cup {NoToken}
  PROVE  [access |-> a, refresh |-> t] \in [access : BOOLEAN, refresh : Tokens \cup {NoToken}]
  OBVIOUS

LEMMA DeliverInv ==
  ASSUME BffInv, NEW s \in Slots, Deliver(s)
  PROVE  BffInv'
<1>1. /\ req[s].pc \in Answers /\ Closed(s) /\ ~InFlight(s)
      /\ UNCHANGED <<backend, refreshRequests, world>>
  BY DEF Deliver, InFlight, Flying, Answers
<1>2. /\ req[s].pc = "set" => jar' = [access |-> TRUE, refresh |-> req[s].got]
      /\ req[s].pc = "clear" => jar' = [access |-> FALSE, refresh |-> NoToken]
      /\ req[s].pc = "keep" => jar' = jar
  BY DEF Deliver
<1>3. RequestOK(req[s]) /\ req[s] \in Requests
  BY DEF BffInv, TypeOK
<1>4. /\ req[s].pc = "set" => jar'.refresh = req[s].got
      /\ req[s].pc = "clear" => jar'.refresh = NoToken
      /\ req[s].pc = "keep" => jar'.refresh = jar.refresh
  BY <1>2
<1>5. jar' \in [access : BOOLEAN, refresh : Tokens \cup {NoToken}]
  <2>1. req[s].got \in Tokens \cup {NoToken} /\ TRUE \in BOOLEAN /\ FALSE \in BOOLEAN
    BY <1>3, RequestFields
  <2>2. jar \in [access : BOOLEAN, refresh : Tokens \cup {NoToken}]
    BY DEF BffInv, TypeOK
  <2>3. CASE req[s].pc = "set"
    BY <1>2, <2>1, <2>3, JarType
  <2>4. CASE req[s].pc = "clear"
    BY <1>2, <2>1, <2>4, JarType
  <2> QED
    BY <1>1, <1>2, <2>2, <2>3, <2>4 DEF Answers
<1>6. jar'.refresh # NoToken => Issued(jar'.refresh)
  BY <1>1, <1>3, <1>4 DEF BffInv, HeldIssued, RequestOK, Answers
<1>7. /\ TypeOK' /\ BackendOK' /\ HeldIssued'
      /\ (\A r \in Slots : RequestOK(req[r]))' /\ Flights'
      /\ \A r \in Slots : req'[r] = IF r = s THEN NoReq ELSE req[r]
  BY <1>1, <1>5, <1>6, ClosedParts
<1>8. OneByOne'
  <2> SUFFICES ASSUME sequential, ~lossy PROVE OneByOne'
    BY <1>1 DEF OneByOne
  <2>1. /\ late = {}
        /\ \A q, r \in Slots : Busy(q) /\ Busy(r) => q = r
        /\ req[s].refresh = jar.refresh
        /\ jar.refresh # NoToken /\ head[family[jar.refresh]] \notin {NoToken, jar.refresh}
             => OnItsWay(jar.refresh)
        /\ req[s].pc = "set" /\ req[s].kind = "login" =>
                                head[req[s].got] \in {NoToken, req[s].got}
    BY <1>1 DEF BffInv, OneByOne, Busy, Answers
  <2>2. \A r \in Slots : req'[r].pc = "idle"
    BY <1>1, <1>7, <2>1, NoReqIs DEF Busy, Answers
  <2>3. \A r \in Slots : req'[r].seen = NoToken
    BY <1>7, NoReqIs DEF BffInv, OneByOne
  <2>4. ASSUME jar'.refresh # NoToken
        PROVE  head[family[jar'.refresh]] \in {NoToken, jar'.refresh}
    <3>1. CASE req[s].pc = "keep"
      <4>1. ~OnItsWay(jar.refresh)
        BY <2>1, <3>1 DEF OnItsWay, Busy
      <4> QED
        BY <1>4, <2>1, <2>4, <3>1, <4>1
    <3>2. CASE req[s].pc = "set" /\ req[s].kind = "login"
      BY <1>3, <1>4, <2>1, <2>4, <3>2 DEF RequestOK
    <3>3. CASE req[s].pc = "set" /\ req[s].kind \in Session
      <4>1. /\ req[s].refresh \in spent /\ family[req[s].got] = family[req[s].refresh]
            /\ jar'.refresh = req[s].got
        BY <1>3, <1>4, <2>4, <3>3 DEF RequestOK
      <4>2. jar.refresh \in Tokens /\ jar.refresh \in spent /\ family[jar.refresh] \in Tokens
        BY <2>1, <4>1 DEF BffInv, TypeOK, HeldIssued, BackendOK
      <4>3. head[family[jar.refresh]] # jar.refresh
        BY <4>2 DEF BffInv, BackendOK
      <4>4. CASE head[family[jar.refresh]] # NoToken
        <5>1. PICK r \in Slots : /\ req[r].pc \in {"replied", "retry", "set", "clear"}
                                 /\ req[r].got = head[family[jar.refresh]]
          BY <2>1, <4>2, <4>3, <4>4 DEF OnItsWay
        <5>2. r = s
          BY <2>1, <3>3, <5>1 DEF Busy
        <5> QED
          BY <2>1, <4>1, <5>1, <5>2
      <4> QED
        BY <2>1, <4>1, <4>4
    <3> QED
      BY <1>1, <1>3, <1>4, <2>4, <3>1, <3>2, <3>3 DEF Answers, RequestOK
  <2> QED
    BY <1>1, <2>1, <2>2, <2>3, <2>4 DEF OneByOne, Busy, backend
<1> QED
  BY <1>7, <1>8 DEF BffInv


\* The backend is done refusing the refresh of s.
LEMMA RefusedInv ==
  ASSUME BffInv, NEW s \in Slots, req[s].pc \in {"call", "reuse"}, GoTo(s, "replied"),
         Grows, \A f \in Tokens : head'[f] \in {NoToken, head[f]}, req[s].refresh \in spent',
         \/ req[s].pc = "call" /\ head'[family[req[s].refresh]] = NoToken
         \/ req[s].pc = "reuse",
         UNCHANGED <<family, active, late, refreshRequests, jar, world>>
  PROVE  BffInv'
<1> DEFINE t == req[s].refresh
<1>1. /\ req[s] \in Requests /\ req \in [Slots -> Requests] /\ RequestOK(req[s])
      /\ t \in Tokens /\ Issued(t) /\ active \in BOOLEAN
  BY DEF BffInv, RequestOK, Flying, TypeOK, Requests
<1>2. "replied" \in PCs
  BY DEF PCs
<1>3. PICK new \in Requests : new = [req[s] EXCEPT !.pc = "replied"]
  BY <1>1, <1>2, PcSet
<1>4. /\ new.pc = "replied" /\ new.kind = req[s].kind /\ new.refresh = t
      /\ new.got = req[s].got /\ new.seen = req[s].seen
  BY <1>1, <1>2, <1>3, PcSet
<1>5. req' = [req EXCEPT ![s] = new] /\ req'[s] = new
  BY <1>1, <1>3 DEF GoTo
<1>6. RequestOK(new)'
  <2>1. t # NoToken /\ Issued(new.refresh)' /\ new.got = NoToken
    BY <1>1, <1>4 DEF RequestOK, Issued
  <2>2. new.seen # NoToken => Issued(new.seen)' /\ family'[new.seen] = family'[t]
    BY <1>1, <1>4 DEF RequestOK, Issued
  <2>3. new.kind \in Session
    BY <1>1, <1>4 DEF RequestOK, Flying
  <2> HIDE DEF t
  <2> QED
    BY <1>4, <2>1, <2>2, <2>3 DEF t, RequestOK, Flying, Session
<1>7. ASSUME sequential, ~lossy PROVE Proceeds(s)
  <2>1. req[s].seen = NoToken
    BY <1>7 DEF BffInv, OneByOne
  <2>2. req[s].pc = "call" /\ head'[family'[t]] = NoToken
    BY <1>1, <2>1 DEF RequestOK
  <2> QED
    BY <1>4, <1>5, <2>2 DEF Proceeds, Busy, Way
<1> QED
  BY <1>1, <1>4, <1>5, <1>6, <1>7, MoveInv DEF InFlight, Flying

LEMMA ServeRefreshInv ==
  ASSUME BffInv, NEW s \in Slots, ServeRefresh(s)
  PROVE  BffInv'
<1> DEFINE t == req[s].refresh
<1>1. /\ req[s].pc \in {"call", "reuse"} /\ InFlight(s) /\ RequestOK(req[s])
      /\ req[s] \in Requests /\ req \in [Slots -> Requests]
      /\ t \in Tokens /\ Issued(t) /\ req[s].kind \in Session
      /\ BackendTypes /\ BackendOK
      /\ UNCHANGED <<active, late, refreshRequests, jar, world>> /\ active \in BOOLEAN
  BY DEF ServeRefresh, CloseSeen, InFlight, Flying, BffInv, RequestOK, TypeOK, Requests, BackendTypes
<1>2. CASE req[s].pc = "call" /\ CloseFamilyOf(s, "reuse", "replied") /\ UNCHANGED family
  BY <1>1, <1>2, ClosesFamily, StartsClosingInv, RefusedInv
<1>3. CASE CloseSeen(s, "reuse", "replied") /\ UNCHANGED family
  <2>1. req[s].pc = "reuse" /\ req[s].seen # NoToken /\ t \in spent
    BY <1>1, <1>3 DEF CloseSeen, RequestOK
  <2>2. /\ GoTo(s, "replied")
        /\ Grows /\ \A f \in Tokens : head'[f] \in {NoToken, head[f]}
    BY <1>1, <1>3, <2>1, ClosesSeen
  <2> QED
    BY <1>1, <1>3, <2>1, <2>2, RefusedInv DEF Grows
<1>4. ASSUME req[s].pc = "call", NEW n \in Tokens, RefreshAccepted(t, n),
             req' = [req EXCEPT ![s].pc = "replied", ![s].got = n]
      PROVE  BffInv'
  <2>1. PICK new \in Requests :
          /\ new = [req[s] EXCEPT !.pc = "replied", !.got = n]
          /\ new.pc = "replied" /\ new.kind = req[s].kind /\ new.refresh = t /\ new.got = n
          /\ new.seen = req[s].seen
    <3> DEFINE r == [req[s] EXCEPT !.pc = "replied", !.got = n]
    <3>1. /\ r \in Requests
            /\ r.pc = "replied" /\ r.kind = req[s].kind /\ r.refresh = t /\ r.got = n
            /\ r.seen = req[s].seen
      BY <1>1 DEF Requests, PCs
    <3>2. r = [req[s] EXCEPT !.pc = "replied", !.got = n]
      OBVIOUS
    <3> HIDE DEF r
    <3> QED
      BY <3>1, <3>2
  <2>2. req' = [req EXCEPT ![s] = new]
    BY <1>1, <1>4, <2>1
  <2>3. \A r \in Slots : req'[r] = IF r = s THEN new ELSE req[r]
    BY <1>1, <2>2
  <2>4. /\ Grows
        /\ t \in spent'
        /\ n # NoToken
        /\ family[t] \in Tokens /\ family'[n] = family[t] /\ family'[t] = family[t]
        /\ head'[family[t]] = n
    BY <1>1, <1>4, AcceptedGrows DEF Grows
  <2>5. RequestOK(new)'
    <3>1. new.seen \in Tokens \cup {NoToken}
      BY <2>1, RequestFields
    <3>2. new.seen # NoToken => Issued(new.seen)' /\ family'[new.seen] = family'[t]
      BY <1>1, <2>1, <2>4, <3>1 DEF RequestOK, Grows, Issued
    <3>3. t # NoToken /\ Issued(new.refresh)' /\ Issued(n)' /\ new.kind \in Session
      BY <1>1, <2>1, <2>4 DEF Issued
    <3> QED
      BY <2>1, <2>4, <3>2, <3>3 DEF RequestOK, Flying, Session
  <2>6. TypeOK' /\ BackendOK' /\ HeldIssued' /\ (\A r \in Slots : RequestOK(req[r]))' /\ Flights'
    BY <1>1, <2>1, <2>2, <2>4, <2>5, MoveParts DEF Flying
  <2>7. OneByOne'
    <3> SUFFICES ASSUME sequential, ~lossy PROVE OneByOne'
      BY <1>1 DEF OneByOne
    <3>1. late = {} /\ t = jar.refresh /\ \A r \in Slots : Busy(r) => r = s
      BY <1>1 DEF BffInv, OneByOne, Busy
    <3>2. OnItsWay(jar.refresh)'
      <4>1. /\ req'[s].pc = "replied" /\ req'[s].kind \in Session
            /\ req'[s].got = head'[family'[jar'.refresh]]
        BY <1>1, <2>1, <2>3, <2>4, <3>1
      <4> QED
        BY <4>1 DEF OnItsWay
    <3>3. \A r \in Slots : Busy(r)' => r = s
      BY <2>3, <3>1 DEF Busy
    <3>4. \A r \in Slots : req'[r].pc \notin {"me", "set"}
      BY <2>1, <2>3, <3>1 DEF Busy
    <3>5. \A r \in Slots : req'[r].seen = NoToken
      BY <2>1, <2>3 DEF BffInv, OneByOne
    <3>6. \A r \in Slots : req'[r].pc = "replied" => req'[r].got # NoToken
      BY <2>1, <2>3, <2>4, <3>1 DEF Busy
    <3> QED
      BY <1>1, <2>1, <2>3, <3>1, <3>2, <3>3, <3>4, <3>5, <3>6 DEF OneByOne
  <2> QED
    BY <2>6, <2>7 DEF BffInv
<1> QED
  BY <1>2, <1>3, <1>4 DEF ServeRefresh

LEMMA ServeLoginInv ==
  ASSUME BffInv, NEW s \in Slots, ServeLogin(s)
  PROVE  BffInv'
<1>1. /\ req[s].pc = "login" /\ ~InFlight(s) /\ RequestOK(req[s]) /\ req[s].kind = "login"
      /\ req[s] \in Requests /\ req \in [Slots -> Requests]
      /\ BackendTypes /\ BackendOK
      /\ UNCHANGED <<active, late, refreshRequests, jar, world>> /\ active \in BOOLEAN
  BY DEF ServeLogin, InFlight, Flying, BffInv, RequestOK, TypeOK, BackendTypes
<1>2. CASE GoTo(s, "keep") /\ UNCHANGED <<head, spent, family>>
  <2>1. Grows /\ \A f \in Tokens : head'[f] \in {NoToken, head[f]}
    BY <1>2, Unmoved
  <2> QED
    BY <1>1, <1>2, <2>1, GoToInv DEF Answers, Flying
<1>3. ASSUME NEW n \in Tokens, Backend!Open(n), family' = [family EXCEPT ![n] = n],
             req' = [req EXCEPT ![s].pc = "me", ![s].got = n]
      PROVE  BffInv'
  <2>1. PICK new \in Requests :
          /\ new = [req[s] EXCEPT !.pc = "me", !.got = n]
          /\ new.pc = "me" /\ new.kind = req[s].kind
          /\ new.refresh = req[s].refresh /\ new.got = n /\ new.seen = req[s].seen
    <3> DEFINE r == [req[s] EXCEPT !.pc = "me", !.got = n]
    <3>1. /\ r \in Requests
            /\ r.pc = "me" /\ r.kind = req[s].kind
            /\ r.refresh = req[s].refresh /\ r.got = n /\ r.seen = req[s].seen
      BY <1>1 DEF Requests, PCs
    <3>2. r = [req[s] EXCEPT !.pc = "me", !.got = n]
      OBVIOUS
    <3> HIDE DEF r
    <3> QED
      BY <3>1, <3>2
  <2>2. req' = [req EXCEPT ![s] = new]
    BY <1>1, <1>3, <2>1
  <2>3. \A r \in Slots : req'[r] = IF r = s THEN new ELSE req[r]
    BY <1>1, <2>2
  <2>4. /\ Grows
        /\ n # NoToken /\ ~Issued(n)
        /\ family'[n] = n /\ head'[n] = n
        /\ \A f \in Tokens : f # n => head'[f] = head[f]
    BY <1>1, <1>3, OpenGrows
  <2>5. RequestOK(new)'
    <3>1. req[s].refresh \in Tokens \cup {NoToken} /\ req[s].seen \in Tokens \cup {NoToken}
      BY <1>1, RequestFields
    <3> QED
      BY <1>1, <2>1, <2>4, <3>1 DEF RequestOK, Flying, Grows, Issued, Session
  <2>6. TypeOK' /\ BackendOK' /\ HeldIssued' /\ (\A r \in Slots : RequestOK(req[r]))' /\ Flights'
    BY <1>1, <2>1, <2>2, <2>4, <2>5, MoveParts DEF Flying
  <2>7. OneByOne'
    <3> SUFFICES ASSUME sequential, ~lossy PROVE OneByOne'
      BY <1>1 DEF OneByOne
    <3>1. /\ late = {} /\ req[s].refresh = jar.refresh
          /\ \A r \in Slots : Busy(r) => r = s
          /\ jar.refresh # NoToken /\ head[family[jar.refresh]] \notin {NoToken, jar.refresh}
               => OnItsWay(jar.refresh)
      BY <1>1 DEF BffInv, OneByOne, Busy
    <3>2. ~OnItsWay(jar.refresh)
      BY <1>1, <3>1 DEF OnItsWay, Busy
    <3>3. ASSUME jar.refresh # NoToken
          PROVE  head'[family'[jar.refresh]] \in {NoToken, jar.refresh}
      <4>1. /\ jar.refresh \in Tokens /\ Issued(jar.refresh)
            /\ family'[jar.refresh] = family[jar.refresh]
            /\ family[jar.refresh] \in Tokens /\ Issued(family[jar.refresh])
        BY <2>4, <3>3 DEF BffInv, TypeOK, HeldIssued, BackendOK, Grows, Issued
      <4>2. head'[family[jar.refresh]] = head[family[jar.refresh]]
        BY <2>4, <4>1
      <4> QED
        BY <3>1, <3>2, <3>3, <4>1, <4>2
    <3>4. \A r \in Slots : Busy(r)' => r = s
      BY <2>3, <3>1 DEF Busy
    <3>5. \A r \in Slots : req'[r].pc \in {"me", "set"} => r = s
      BY <3>4 DEF Busy
    <3>6. \A r \in Slots : req'[r].seen = NoToken /\ req'[r].pc # "replied"
      BY <2>1, <2>3, <3>1 DEF BffInv, OneByOne, Busy
    <3> QED
      BY <1>1, <2>1, <2>3, <2>4, <3>1, <3>3, <3>4, <3>5, <3>6 DEF OneByOne
  <2> QED
    BY <2>6, <2>7 DEF BffInv
<1> QED
  BY <1>2, <1>3 DEF ServeLogin

\* The promise of s settles: everyone who awaits it goes on.
LEMMA SettledInv ==
  ASSUME BffInv, NEW s \in Slots, InFlight(s),
         req' \in [Slots -> Requests],
         \A r \in Slots \ Joined(s) : req'[r] = req[r],
         \A r \in Joined(s) : RequestOK(req[r])' /\ req'[r].pc \notin Flying \cup {"join"},
         refreshRequests' = [refreshRequests EXCEPT ![req[s].refresh] = NoSlot],
         UNCHANGED <<head, spent, family, active, jar, world>>,
         late' \subseteq Tokens, \A t \in late' : Issued(t),
         OneByOne'
  PROVE  BffInv'
<1> DEFINE t == req[s].refresh
<1>1. t \in Tokens /\ refreshRequests \in [Tokens -> Slots \cup {NoSlot}] /\ refreshRequests[t] = s
  BY DEF InFlight, Flying, BffInv, RequestOK, TypeOK, Requests, Flights
<1>2. \A u \in Tokens : refreshRequests'[u] = IF u = t THEN NoSlot ELSE refreshRequests[u]
  BY <1>1
<1>3. TypeOK'
  BY <1>1 DEF BffInv, TypeOK
<1>4. BackendOK' /\ HeldIssued'
  BY DEF BffInv, BackendOK, HeldIssued, Issued
<1>5. (\A r \in Slots : RequestOK(req[r]))'
  BY Unmoved, SlotsKept
<1>6. \A r \in Slots : InFlight(r)' => r \notin Joined(s) /\ req'[r] = req[r] /\ InFlight(r)
  BY DEF InFlight, Flying
<1>7. \A r \in Slots : InFlight(r) /\ r # s => req[r].refresh # t /\ r \notin Joined(s)
  BY <1>1 DEF BffInv, Flights, Joined, InFlight, Flying
<1>8. Flights'
  <2>1. \A r \in Slots : InFlight(r)' => refreshRequests'[req'[r].refresh] = r
    <3> SUFFICES ASSUME NEW r \in Slots, InFlight(r)' PROVE refreshRequests'[req'[r].refresh] = r
      OBVIOUS
    <3>1. r # s /\ InFlight(r) /\ req'[r] = req[r]
      BY <1>6 DEF Joined
    <3>2. req[r].refresh \in Tokens /\ refreshRequests[req[r].refresh] = r
      BY <3>1 DEF InFlight, Flying, BffInv, RequestOK, TypeOK, Requests, Flights
    <3> QED
      BY <1>2, <1>7, <3>1, <3>2
  <2>2. ASSUME NEW u \in Tokens, refreshRequests'[u] # NoSlot
        PROVE  InFlight(refreshRequests[u])' /\ (req[refreshRequests[u]].refresh)' = u
    <3>1. u # t /\ refreshRequests'[u] = refreshRequests[u] /\ refreshRequests[u] \in Slots
      BY <1>1, <1>2, <2>2
    <3>2. InFlight(refreshRequests[u]) /\ req[refreshRequests[u]].refresh = u
      BY <2>2, <3>1 DEF BffInv, Flights
    <3>3. refreshRequests[u] \notin Joined(s)
      BY <1>7, <3>1, <3>2
    <3> QED
      BY <3>1, <3>2, <3>3 DEF InFlight
  <2>3. ASSUME NEW r \in Slots, req'[r].pc = "join"
        PROVE  refreshRequests'[req'[r].refresh] # NoSlot
    <3>1. req'[r] = req[r] /\ req[r].refresh # t
      BY <2>3 DEF Joined
    <3>2. req[r].refresh \in Tokens /\ refreshRequests[req[r].refresh] # NoSlot
      BY <2>3, <3>1 DEF BffInv, RequestOK, Flying, TypeOK, Requests, Flights
    <3> QED
      BY <1>2, <3>1, <3>2
  <2> QED
    BY <2>1, <2>2, <2>3 DEF Flights
<1> QED
  BY <1>3, <1>4, <1>5, <1>8 DEF BffInv

\* Who awaits the promise of s presents its token and has a session request.
LEMMA JoinedAre ==
  ASSUME BffInv, NEW s \in Slots, InFlight(s), NEW r \in Joined(s)
  PROVE  /\ r \in Slots /\ req[r] \in Requests /\ RequestOK(req[r])
         /\ req[r].refresh = req[s].refresh /\ req[r].kind \in Session
         /\ req[r].pc \in Flying \cup {"join"}
  BY DEF Joined, InFlight, Flying, BffInv, RequestOK, TypeOK

LEMMA RefreshAnsweredInv ==
  ASSUME BffInv, NEW s \in Slots, RefreshAnswered(s)
  PROVE  BffInv'
<1> DEFINE n == req[s].got
           After(r) == IF n = NoToken THEN "clear" ELSE IF r.kind = "refresh" THEN "set" ELSE "retry"
           Continue(r) == [r EXCEPT !.got = n, !.pc = After(r)]
<1>1. /\ req[s].pc = "replied" /\ InFlight(s) /\ RequestOK(req[s])
      /\ n \in Tokens \cup {NoToken} /\ req \in [Slots -> Requests]
      /\ UNCHANGED <<backend, jar, world>>
      /\ refreshRequests' = [refreshRequests EXCEPT ![req[s].refresh] = NoSlot]
      /\ req' = [r \in Slots |-> IF r \in Joined(s) THEN Continue(req[r]) ELSE req[r]]
  BY DEF RefreshAnswered, Settle, InFlight, Flying, BffInv, TypeOK, Requests
<1>2. \A r \in Slots : After(req[r]) \in {"clear", "retry", "set"}
  OBVIOUS
<1>3. ASSUME NEW r \in Joined(s)
      PROVE  /\ req'[r] \in Requests
             /\ req'[r].pc = After(req[r]) /\ req'[r].got = n
             /\ req'[r].kind = req[r].kind /\ req'[r].refresh = req[s].refresh
             /\ req'[r].kind \in Session /\ req'[r].seen = req[r].seen
  <2>1. /\ r \in Slots /\ req[r] \in Requests /\ req[r].kind \in Session
        /\ req[r].refresh = req[s].refresh
    BY <1>1, JoinedAre
  <2>2. req'[r] = [req[r] EXCEPT !.got = n, !.pc = After(req[r])]
    BY <1>1, <2>1
  <2>3. After(req[r]) \in PCs
    BY DEF PCs
  <2> HIDE DEF n, After
  <2> QED
    BY <1>1, <2>1, <2>2, <2>3 DEF Requests
<1>4. \A r \in Slots \ Joined(s) : req'[r] = req[r]
  BY <1>1
<1>5. req' \in [Slots -> Requests]
  <2>1. \A r \in Slots : (IF r \in Joined(s) THEN Continue(req[r]) ELSE req[r]) \in Requests
    BY <1>1, <1>3
  <2> HIDE DEF Continue
  <2> QED
    BY <1>1, <2>1
<1>6. ASSUME NEW r \in Joined(s)
      PROVE  RequestOK(req[r])' /\ req'[r].pc \notin Flying \cup {"join"}
  <2> DEFINE t == req[s].refresh
  <2>1. /\ t \in Tokens /\ t \in spent /\ Issued(t)
        /\ n # NoToken => Issued(n) /\ family[n] = family[t]
    BY <1>1 DEF RequestOK, Flying, BffInv, TypeOK, Requests
  <2>2. /\ spent' = spent /\ family' = family
    BY <1>1 DEF backend
  <2>3. /\ req'[r].pc \in {"clear", "retry", "set"} /\ req'[r].got = n
        /\ req'[r].pc = "clear" <=> n = NoToken
        /\ req'[r].kind \in Session /\ req'[r].refresh = t
    BY <1>3
  <2>4. req'[r].seen # NoToken => Issued(req'[r].seen) /\ family[req'[r].seen] = family[t]
    <3>1. RequestOK(req[r]) /\ req[r].refresh = t /\ req'[r].seen = req[r].seen
      BY <1>1, <1>3, JoinedAre
    <3> QED
      BY <3>1 DEF RequestOK
  <2> HIDE DEF n, t
  <2> QED
    BY <2>1, <2>2, <2>3, <2>4 DEF RequestOK, Flying, Issued, Session
<1>7. OneByOne'
  <2>1. \A r \in Slots : Proceeds(r)
    <3> SUFFICES ASSUME NEW r \in Slots PROVE Proceeds(r)
      OBVIOUS
    <3>1. CASE r \in Joined(s)
      <4>1. /\ req'[r].pc \in {"clear", "retry", "set"} /\ req'[r].got = n
            /\ req'[r].kind \in Session /\ req'[r].refresh = req[s].refresh
            /\ req'[r].seen = req[r].seen
        BY <1>3, <3>1
      <4>2. /\ req[r].refresh = req[s].refresh /\ req[r].kind \in Session
            /\ r = s \/ req[r].pc = "join"
        BY <1>1, <3>1, JoinedAre DEF Joined
      <4>3. req[s].pc = "replied" /\ req[s].got = n
        BY <1>1
      <4> HIDE DEF n
      <4> QED
        BY <4>1, <4>2, <4>3 DEF Proceeds, Busy, Way, Session
    <3>2. CASE r \notin Joined(s)
      BY <1>4, <3>2 DEF Proceeds, Busy
    <3> QED
      BY <3>1, <3>2
  <2> QED
    BY <1>1, <2>1, Unmoved, ClosingOneByOne DEF backend
<1>8. late' \subseteq Tokens /\ \A t \in late' : Issued(t)
  BY <1>1 DEF BffInv, TypeOK, HeldIssued, backend
<1> QED
  BY <1>1, <1>4, <1>5, <1>6, <1>7, <1>8, SettledInv DEF backend

LEMMA RefreshFailedInv ==
  ASSUME BffInv, NEW s \in Slots, RefreshFailed(s)
  PROVE  BffInv'
<1> DEFINE Continue(r) == [r EXCEPT !.got = NoToken, !.pc = "keep"]
<1>1. /\ lossy /\ InFlight(s) /\ req \in [Slots -> Requests]
      /\ UNCHANGED <<head, spent, family, active, jar, world>>
      /\ late' \subseteq late \cup {req[s].refresh}
      /\ refreshRequests' = [refreshRequests EXCEPT ![req[s].refresh] = NoSlot]
      /\ req' = [r \in Slots |-> IF r \in Joined(s) THEN Continue(req[r]) ELSE req[r]]
  BY DEF RefreshFailed, Settle, InFlight, Flying, BffInv, TypeOK
<1>2. ASSUME NEW r \in Joined(s)
      PROVE  /\ req'[r] \in Requests
             /\ req'[r].pc = "keep" /\ req'[r].got = NoToken
             /\ req'[r].refresh = req[r].refresh /\ req'[r].seen = req[r].seen
  <2>1. r \in Slots /\ req[r] \in Requests
    BY <1>1, JoinedAre
  <2>2. req'[r] = [req[r] EXCEPT !.got = NoToken, !.pc = "keep"]
    BY <1>1, <2>1
  <2>3. "keep" \in PCs
    BY DEF PCs
  <2> QED
    BY <2>1, <2>2, <2>3 DEF Requests
<1>3. \A r \in Slots \ Joined(s) : req'[r] = req[r]
  BY <1>1
<1>4. req' \in [Slots -> Requests]
  <2>1. \A r \in Slots : (IF r \in Joined(s) THEN Continue(req[r]) ELSE req[r]) \in Requests
    BY <1>1, <1>2
  <2> HIDE DEF Continue
  <2> QED
    BY <1>1, <2>1
<1>5. ASSUME NEW r \in Joined(s)
      PROVE  RequestOK(req[r])' /\ req'[r].pc \notin Flying \cup {"join"}
  <2>1. RequestOK(req[r]) /\ req[r].kind \in Session
    BY <1>1, JoinedAre
  <2>2. spent' = spent /\ family' = family
    BY <1>1
  <2> QED
    BY <1>2, <2>1, <2>2 DEF RequestOK, Flying, Issued
<1>6. OneByOne'
  BY <1>1 DEF OneByOne
<1>7. late' \subseteq Tokens /\ \A t \in late' : Issued(t)
  BY <1>1 DEF InFlight, Flying, BffInv, RequestOK, TypeOK, Requests, HeldIssued
<1> QED
  BY <1>1, <1>3, <1>4, <1>5, <1>6, <1>7, SettledInv

-----------------------------------------------------------------------------
(* The theorems. *)

LEMMA InitBff == Init => BffInv
<1> SUFFICES ASSUME Init PROVE BffInv
  OBVIOUS
<1>1. /\ \A f \in Tokens : head[f] = NoToken /\ family[f] = NoToken
      /\ \A t \in Tokens : refreshRequests[t] = NoSlot
      /\ \A s \in Slots : req[s] = NoReq
  BY DEF Init, Backend!Init
<1>2. jar.refresh = NoToken /\ late = {}
  BY DEF Init
<1>3. TypeOK
  <2>1. jar \in [access : BOOLEAN, refresh : Tokens \cup {NoToken}]
    BY JarType DEF Init
  <2> QED
    BY <2>1, NoReqIs DEF Init, Backend!Init, TypeOK
<1>4. BackendOK /\ HeldIssued
  BY <1>1, <1>2 DEF BackendOK, HeldIssued, Issued
<1>5. \A s \in Slots : RequestOK(req[s])
  BY <1>1, NoReqIs DEF RequestOK, Flying
<1>6. Flights /\ OneByOne
  BY <1>1, <1>2, NoReqIs DEF Flights, InFlight, Flying, OneByOne, Busy
<1> QED
  BY <1>3, <1>4, <1>5, <1>6 DEF BffInv

LEMMA NextBff == BffInv /\ [Next]_vars => BffInv'
<1> SUFFICES ASSUME BffInv, [Next]_vars PROVE BffInv'
  OBVIOUS
<1>1. ASSUME NEW s \in Slots, Handle(s) PROVE BffInv'
  BY <1>1, ArriveLogoutInv, ArriveLoginInv, ArriveSessionInv, TryInv, ServeRefreshInv,
     RefreshAnsweredInv, RefreshFailedInv, RetryInv, ServeLoginInv, LoginMeInv,
     ServeLogoutInv, DeliverInv, LoseInv DEF Handle
<1>2. ASSUME NEW s \in Slots, NEW kind \in Sends, Send(s, kind) PROVE BffInv'
  BY <1>2, SendInv
<1>3. ASSUME NEW t \in Tokens, ServeLate(t) PROVE BffInv'
  BY <1>3, ServeLateInv
<1>4. ASSUME NEW F \in SUBSET Tokens, Revoke(F) PROVE BffInv'
  BY <1>4, RevokeInv
<1>5. CASE Reactivate
  BY <1>5, ReactivateInv
<1>6. CASE AccessExpires
  BY <1>6, AccessExpiresInv
<1>7. CASE UNCHANGED vars
  BY <1>7 DEF vars, BffInv, TypeOK, BackendOK, HeldIssued, Issued, RequestOK,
             Flights, InFlight, OneByOne, Busy, OnItsWay
<1> QED
  BY <1>1, <1>2, <1>3, <1>4, <1>5, <1>6, <1>7 DEF Next

\* The invariant the theorems rest on: the families the backend keeps, what each
\* handler relies on at its step, the map of pending refreshes, and the one request
\* of a browser that waits.
THEOREM BffInvariant == Spec => []BffInv
  BY InitBff, NextBff, PTL DEF Spec

\* Type correctness of the families, the requests, the map and the cookie jar.
THEOREM BffTypes == Spec => []TypeOK
  BY BffInvariant, PTL DEF BffInv

\* refreshRequests (shared.ts) lets no two calls present the same refresh token, and
\* no request waits for a refresh that nobody is making.
THEOREM BffSingleFlight == Spec => []SingleFlight
<1>1. BffInv => SingleFlight
  BY DEF BffInv, TypeOK, Requests, RequestOK, Flights, InFlight, Flying, SingleFlight
<1> QED
  BY <1>1, BffInvariant, PTL

\* Outside a logout, an answer clears the cookies only of a browser that has no
\* refresh token or one that can never be redeemed again, whatever calls fail.
THEOREM BffOutageSignsNobodyOut == Spec => []OutageSignsNobodyOut
<1>1. BffInv => OutageSignsNobodyOut
  BY DEF BffInv, RequestOK, OutageSignsNobodyOut
<1> QED
  BY <1>1, BffInvariant, PTL

\* When no call fails, a logout is answered only after its family is closed, unless
\* both its own token and the session the backend found when it served the logout
\* were refreshed meanwhile; the request of a browser that waits for each answer
\* always closes it.
THEOREM BffLogoutClosesFamily == Spec => []LogoutClosesFamily
<1>1. BffInv => LogoutClosesFamily
  <2> SUFFICES ASSUME BffInv, NEW s \in Slots, ~lossy, req[s].pc = "clear",
                      req[s].kind = "logout", req[s].refresh # NoToken,
                      head[family[req[s].refresh]] # NoToken
               PROVE  ~sequential /\ req[s].seen \in spent
    BY DEF LogoutClosesFamily
  <2>1. req[s].seen \in spent /\ NoToken \notin spent
    BY DEF BffInv, RequestOK, TypeOK
  <2>2. sequential => req[s].seen = NoToken
    BY DEF BffInv, OneByOne
  <2> QED
    BY <2>1, <2>2
<1> QED
  BY <1>1, BffInvariant, PTL

\* When no call fails, the refresh cookie of a browser that waits for each answer is
\* the current one of its family, if there is one, or its successor is on the way to
\* the browser: applySessionChanges is called on every path of the proxy.
THEOREM BffSequentialCookieIsCurrent == Spec => []SequentialCookieIsCurrent
<1>1. BffInv => SequentialCookieIsCurrent
  BY DEF BffInv, OneByOne, OnItsWay, SequentialCookieIsCurrent
<1> QED
  BY <1>1, BffInvariant, PTL

-----------------------------------------------------------------------------
(* Who is signed out. *)

\* What a step that lets one handler go on does to the requests.
LEMMA Moved ==
  ASSUME BffInv, NEW s \in Slots, NEW pc, NEW x,
         \/ GoTo(s, pc)
         \/ req' = [req EXCEPT ![s].pc = pc, ![s].access = x]
         \/ req' = [req EXCEPT ![s].pc = pc, ![s].got = x]
         \/ req' = [req EXCEPT ![s].pc = pc, ![s].seen = x]
  PROVE  /\ req'[s].pc = pc /\ req'[s].refresh = req[s].refresh
         /\ \A r \in Slots \ {s} : req'[r] = req[r]
  BY DEF GoTo, BffInv, TypeOK, Requests

\* The step of a handler that turns an answer into one that clears the cookies.
LEMMA SignsOut ==
  ASSUME BffInv, sequential, ~lossy, NEW q \in Slots, Handle(q), NEW s \in Slots,
         req[s].kind \in {"api", "refresh"}, req[s].pc # "clear", req'[s].pc = "clear"
  PROVE  req[s].refresh = NoToken \/ head'[family[req[s].refresh]] = NoToken \/ ~active
<1>1. CASE ArriveLogout(q) \/ ArriveLogin(q) \/ Retry(q) \/ LoginMe(q)
  <2>1. PICK c : GoTo(q, c)
    BY <1>1 DEF ArriveLogout, ArriveLogin, Retry, LoginMe
  <2>2. s = q /\ c = "clear"
    BY <2>1, Moved
  <2>3. "clear" \notin {"login", "set", "keep"}
    OBVIOUS
  <2>4. CASE ArriveLogout(q) \/ ArriveLogin(q)
    BY <2>2, <2>4 DEF ArriveLogout, ArriveLogin
  <2>5. CASE Retry(q)
    <3>1. \A d : GoTo(q, d) => d = "clear"
      BY <2>2, Moved
    <3> QED
      BY <2>2, <2>5, <3>1 DEF Retry
  <2>6. CASE LoginMe(q)
    <3>1. \A d : GoTo(q, d) => d = "clear"
      BY <2>2, Moved
    <3> QED
      BY <2>6, <3>1 DEF LoginMe
  <2> QED
    BY <1>1, <2>4, <2>5, <2>6
<1>2. CASE ArriveSession(q) \/ Try(q)
  <2>1. CASE RefreshAccessToken(q)
    <3>1. GoTo(q, "join") \/ GoTo(q, "call")
      BY <2>1 DEF RefreshAccessToken
    <3> QED
      BY <3>1, Moved
  <2>2. CASE req[q].refresh = NoToken /\ GoTo(q, "clear")
    BY <2>2, Moved
  <2>3. CASE GoTo(q, "keep")
    BY <2>3, Moved
  <2>4. CASE req' = [req EXCEPT ![q].pc = "try", ![q].access = FALSE]
    <3>1. req'[q].pc = "try" /\ \A r \in Slots \ {q} : req'[r] = req[r]
      BY <2>4, Moved
    <3> QED
      BY <3>1
  <2> QED
    BY <1>2, <2>1, <2>2, <2>3, <2>4 DEF ArriveSession, Try
<1>3. CASE ServeRefresh(q)
  <2>1. PICK c, x :
          /\ c \in {"reuse", "replied"}
          /\ \/ GoTo(q, c)
             \/ req' = [req EXCEPT ![q].pc = c, ![q].got = x]
             \/ req' = [req EXCEPT ![q].pc = c, ![q].seen = x]
    BY <1>3 DEF ServeRefresh, CloseFamilyOf, CloseSeen, GoTo
  <2>2. req'[q].pc = c /\ \A r \in Slots \ {q} : req'[r] = req[r]
    <3>1. CASE GoTo(q, c)
      BY <3>1, Moved
    <3>2. CASE req' = [req EXCEPT ![q].pc = c, ![q].got = x]
      BY <3>2, Moved
    <3>3. CASE req' = [req EXCEPT ![q].pc = c, ![q].seen = x]
      BY <3>3, Moved
    <3> QED
      BY <2>1, <3>1, <3>2, <3>3
  <2> QED
    BY <2>1, <2>2
<1>4. CASE RefreshAnswered(q)
  <2> DEFINE n == req[q].got
             After(r) == IF n = NoToken THEN "clear" ELSE IF r.kind = "refresh" THEN "set" ELSE "retry"
             Continue(r) == [r EXCEPT !.got = n, !.pc = After(r)]
  <2>1. /\ req[q].pc = "replied" /\ InFlight(q) /\ UNCHANGED <<backend, jar, world>>
        /\ req' = [r \in Slots |-> IF r \in Joined(q) THEN Continue(req[r]) ELSE req[r]]
    BY <1>4 DEF RefreshAnswered, Settle, InFlight, Flying
  <2>2. s \in Joined(q)
    BY <2>1
  <2>3. s = q
    BY <2>1, <2>2 DEF BffInv, OneByOne, Busy, Joined
  <2>4. req'[s].pc = After(req[s])
    <3>1. req'[s] = [req[s] EXCEPT !.got = n, !.pc = After(req[s])] /\ req[s] \in Requests
      BY <2>1, <2>2 DEF BffInv, TypeOK
    <3> HIDE DEF n, After
    <3> QED
      BY <3>1 DEF Requests
  <2>5. n = NoToken
    BY <2>4
  <2> QED
    BY <2>1, <2>3, <2>5 DEF BffInv, OneByOne, backend
<1>5. CASE ServeLogin(q)
  <2>1. PICK c, x :
          /\ c \in {"me", "keep"}
          /\ GoTo(q, c) \/ req' = [req EXCEPT ![q].pc = c, ![q].got = x]
    BY <1>5 DEF ServeLogin
  <2>2. req'[q].pc = c /\ \A r \in Slots \ {q} : req'[r] = req[r]
    <3>1. CASE GoTo(q, c)
      BY <3>1, Moved
    <3>2. CASE req' = [req EXCEPT ![q].pc = c, ![q].got = x]
      BY <3>2, Moved
    <3> QED
      BY <2>1, <3>1, <3>2
  <2> QED
    BY <2>1, <2>2
<1>6. CASE ServeLogout(q)
  <2>1. PICK c, x : GoTo(q, c) \/ req' = [req EXCEPT ![q].pc = c, ![q].seen = x]
    BY <1>6 DEF ServeLogout, CloseFamilyOf, CloseSeen, GoTo
  <2>2. s = q
    BY <2>1, Moved
  <2>3. req[q].kind = "logout"
    BY <1>6 DEF ServeLogout, CloseSeen, BffInv, RequestOK
  <2> QED
    BY <2>2, <2>3
<1>7. CASE Deliver(q) \/ Lose(q)
  <2>1. req \in [Slots -> Requests] /\ req' = [req EXCEPT ![q] = NoReq]
    BY <1>7 DEF Deliver, Lose, Closed, BffInv, TypeOK
  <2> QED
    BY <2>1, NoReqIs
<1>8. ~RefreshFailed(q)
  BY DEF RefreshFailed
<1> QED
  BY <1>1, <1>2, <1>3, <1>4, <1>5, <1>6, <1>7, <1>8 DEF Handle

\* When no call fails, a browser that waits for each answer is signed out, other than
\* by a logout or a wrong password, only if it has no refresh token, its family is
\* closed or its account is inactive.
THEOREM BffSignsOutEndedSessions == Spec => SignsOutEndedSessions
<1> DEFINE Ended == sequential /\ ~lossy =>
             \A s \in Slots :
                /\ req[s].kind \in {"api", "refresh"}
                /\ req[s].pc # "clear" /\ req'[s].pc = "clear"
                => \/ req[s].refresh = NoToken
                   \/ head'[family[req[s].refresh]] = NoToken
                   \/ ~active
<1>1. ASSUME BffInv, Next PROVE Ended
  <2>1. ASSUME NEW q \in Slots, Handle(q) PROVE Ended
    BY <1>1, <2>1, SignsOut
  <2>2. ASSUME NEW q \in Slots, NEW kind \in Sends, Send(q, kind) PROVE Ended
    <3>1. \A s \in Slots : req'[s] = req[s] \/ req'[s].pc = "sent"
      BY <1>1, <2>2 DEF Send, Open, NoReq, BffInv, TypeOK
    <3> QED
      BY <3>1
  <2>3. (\E t \in Tokens : ServeLate(t)) \/ (\E F \in SUBSET Tokens : Revoke(F))
           \/ Reactivate \/ AccessExpires => req' = req
    BY DEF ServeLate, Revoke, Reactivate, AccessExpires
  <2> QED
    BY <1>1, <2>1, <2>2, <2>3 DEF Next
<1>2. BffInv /\ [Next]_vars => [Ended]_vars
  BY <1>1
<1> QED
  BY <1>2, BffInvariant, PTL DEF Spec, SignsOutEndedSessions

-----------------------------------------------------------------------------
(* What TokenFamilies, the abstract backend, promises.                       *)

FamiliesInv ==
    /\ head \in [Tokens -> Tokens \cup {NoToken}]
    /\ Backend!HeadsAreCurrent

LEMMA FamiliesInit == Backend!Init => FamiliesInv
  BY DEF Backend!Init, FamiliesInv, Backend!HeadsAreCurrent

LEMMA FamiliesNext == FamiliesInv /\ [Backend!Next]_Backend!vars => FamiliesInv'
<1> SUFFICES ASSUME FamiliesInv, [Backend!Next]_Backend!vars PROVE FamiliesInv'
  OBVIOUS
<1>1. ASSUME NEW n \in Tokens, Backend!Open(n) PROVE FamiliesInv'
  BY <1>1 DEF FamiliesInv, Backend!HeadsAreCurrent, Backend!Open, Backend!Unused
<1>2. ASSUME NEW f \in Tokens, NEW n \in Tokens, Backend!Replace(f, n) PROVE FamiliesInv'
  BY <1>2 DEF FamiliesInv, Backend!HeadsAreCurrent, Backend!Replace, Backend!Unused
<1>3. ASSUME NEW F \in SUBSET Tokens, Backend!Close(F) PROVE FamiliesInv'
  BY <1>3 DEF FamiliesInv, Backend!HeadsAreCurrent, Backend!Close
<1>4. CASE UNCHANGED Backend!vars
  BY <1>4 DEF FamiliesInv, Backend!HeadsAreCurrent, Backend!vars
<1> QED
  BY <1>1, <1>2, <1>3, <1>4 DEF Backend!Next

\* In every family of the abstract backend at most one token is current, it is not
\* spent, and it is current in that family only.
THEOREM FamiliesHeadsAreCurrent == Backend!Spec => []Backend!HeadsAreCurrent
<1>1. FamiliesInv => Backend!HeadsAreCurrent
  BY DEF FamiliesInv
<1> QED
  BY <1>1, FamiliesInit, FamiliesNext, PTL DEF Backend!Spec

\* What the step of one token's family leaves of the spent ones.
LEMMA SpentStays ==
  ASSUME FamiliesInv, [Backend!Next]_Backend!vars, NEW t \in Tokens, t \in spent
  PROVE  /\ t \in spent' /\ \A g \in Tokens : head'[g] # t
         /\ head[t] = NoToken => head'[t] = NoToken
<1>1. ASSUME NEW n \in Tokens, Backend!Open(n)
      PROVE  n # t /\ t \in spent' /\ \A g \in Tokens : head'[g] = IF g = n THEN n ELSE head[g]
  BY <1>1 DEF FamiliesInv, Backend!Open, Backend!Unused
<1>2. ASSUME NEW f \in Tokens, NEW n \in Tokens, Backend!Replace(f, n)
      PROVE  /\ n # t /\ t \in spent' /\ head[f] # NoToken
             /\ \A g \in Tokens : head'[g] = IF g = f THEN n ELSE head[g]
  BY <1>2 DEF FamiliesInv, Backend!Replace, Backend!Unused
<1>3. ASSUME NEW F \in SUBSET Tokens, Backend!Close(F)
      PROVE  t \in spent' /\ \A g \in Tokens : head'[g] \in {NoToken, head[g]}
  BY <1>3 DEF Backend!Close
<1>4. CASE UNCHANGED Backend!vars
  BY <1>4 DEF FamiliesInv, Backend!HeadsAreCurrent, Backend!vars
<1>5. \A g \in Tokens : head[g] # t
  BY DEF FamiliesInv, Backend!HeadsAreCurrent
<1> QED
  BY <1>1, <1>2, <1>3, <1>4, <1>5 DEF Backend!Next

\* No order of logins, refreshes and revocations makes a spent token current again
\* or opens a closed family again.
THEOREM FamiliesCloseForGood == Backend!Spec => Backend!ClosedForGood
<1>1. FamiliesInv /\ [Backend!Next]_Backend!vars =>
        [\A f \in Tokens : f \in spent =>
           /\ f \in spent' /\ \A g \in Tokens : head'[g] # f
           /\ head[f] = NoToken => head'[f] = NoToken]_Backend!vars
  BY SpentStays
<1> QED
  BY <1>1, FamiliesInit, FamiliesNext, PTL DEF Backend!Spec, Backend!ClosedForGood

-----------------------------------------------------------------------------
(* One request at a time, whatever is lost. *)

\* The one open request carries the refresh cookie the browser still has, and what
\* it got from a refresh it got for a token.
OneOpen ==
    sequential =>
        /\ \A s, r \in Slots : Busy(s) /\ Busy(r) => s = r
        /\ \A s \in Slots : Busy(s) => req[s].refresh = jar.refresh

\* What a handler's step does to the requests: it opens none, and keeps the token
\* of those that stay open.
KeepsOpen == \A r \in Slots : Busy(r)' => Busy(r) /\ req'[r].refresh = req[r].refresh

LEMMA OneKeepsOpen ==
  ASSUME BffInv, NEW s \in Slots, Busy(s), NEW pc, NEW x,
         \/ GoTo(s, pc)
         \/ req' = [req EXCEPT ![s].pc = pc, ![s].access = x]
         \/ req' = [req EXCEPT ![s].pc = pc, ![s].got = x]
         \/ req' = [req EXCEPT ![s].pc = pc, ![s].seen = x]
  PROVE  KeepsOpen
<1>1. req'[s].refresh = req[s].refresh /\ \A r \in Slots \ {s} : req'[r] = req[r]
  BY Moved
<1> QED
  BY <1>1 DEF KeepsOpen, Busy

LEMMA ClosedKeepsOpen ==
  ASSUME BffInv, NEW s \in Slots, Closed(s)
  PROVE  KeepsOpen
  BY NoReqIs DEF BffInv, TypeOK, Closed, KeepsOpen, Busy

LEMMA SettledKeepsOpen ==
  ASSUME BffInv, NEW s \in Slots, InFlight(s),
         \A r \in Slots \ Joined(s) : req'[r] = req[r],
         \A r \in Joined(s) : req'[r].refresh = req[r].refresh
  PROVE  KeepsOpen
<1>1. \A r \in Joined(s) : Busy(r)
  BY JoinedAre DEF Busy, Flying
<1> QED
  BY <1>1 DEF KeepsOpen, Busy

LEMMA AnsweredKeepsOpen ==
  ASSUME BffInv, NEW s \in Slots, RefreshAnswered(s)
  PROVE  KeepsOpen
<1> DEFINE n == req[s].got
           After(r) == IF n = NoToken THEN "clear" ELSE IF r.kind = "refresh" THEN "set" ELSE "retry"
           Continue(r) == [r EXCEPT !.got = n, !.pc = After(r)]
<1>1. /\ InFlight(s)
      /\ req' = [r \in Slots |-> IF r \in Joined(s) THEN Continue(req[r]) ELSE req[r]]
  BY DEF RefreshAnswered, Settle, InFlight, Flying
<1>2. ASSUME NEW r \in Joined(s) PROVE req'[r].refresh = req[r].refresh
  <2>1. r \in Slots /\ req[r] \in Requests
    BY <1>1, JoinedAre
  <2>2. req'[r] = [req[r] EXCEPT !.got = n, !.pc = After(req[r])]
    BY <1>1, <2>1
  <2> HIDE DEF n, After
  <2> QED
    BY <2>1, <2>2 DEF Requests
<1>3. \A r \in Slots \ Joined(s) : req'[r] = req[r]
  BY <1>1
<1> QED
  BY <1>1, <1>2, <1>3, SettledKeepsOpen

LEMMA FailedKeepsOpen ==
  ASSUME BffInv, NEW s \in Slots, RefreshFailed(s)
  PROVE  KeepsOpen
<1> DEFINE Continue(r) == [r EXCEPT !.got = NoToken, !.pc = "keep"]
<1>1. /\ InFlight(s)
      /\ req' = [r \in Slots |-> IF r \in Joined(s) THEN Continue(req[r]) ELSE req[r]]
  BY DEF RefreshFailed, Settle, InFlight, Flying
<1>2. ASSUME NEW r \in Joined(s) PROVE req'[r].refresh = req[r].refresh
  <2>1. r \in Slots /\ req[r] \in Requests
    BY <1>1, JoinedAre
  <2>2. req'[r] = [req[r] EXCEPT !.got = NoToken, !.pc = "keep"]
    BY <1>1, <2>1
  <2> QED
    BY <2>1, <2>2 DEF Requests
<1>3. \A r \in Slots \ Joined(s) : req'[r] = req[r]
  BY <1>1
<1> QED
  BY <1>1, <1>2, <1>3, SettledKeepsOpen

LEMMA RefreshAccessTokenKeepsOpen ==
  ASSUME BffInv, NEW s \in Slots, Busy(s), RefreshAccessToken(s)
  PROVE  KeepsOpen
<1>1. GoTo(s, "join") \/ GoTo(s, "call")
  BY DEF RefreshAccessToken
<1> QED
  BY <1>1, OneKeepsOpen

LEMMA ServedKeepsOpen ==
  ASSUME BffInv, NEW s \in Slots, ServeRefresh(s) \/ ServeLogin(s) \/ ServeLogout(s)
  PROVE  KeepsOpen
<1>1. Busy(s)
  BY DEF Busy, ServeRefresh, ServeLogin, ServeLogout, CloseSeen
<1>2. \E pc, x : \/ GoTo(s, pc)
                \/ req' = [req EXCEPT ![s].pc = pc, ![s].got = x]
                \/ req' = [req EXCEPT ![s].pc = pc, ![s].seen = x]
  <2>1. ASSUME NEW closing, NEW closed,
               CloseFamilyOf(s, closing, closed) \/ CloseSeen(s, closing, closed)
        PROVE  \E pc, x : GoTo(s, pc) \/ req' = [req EXCEPT ![s].pc = pc, ![s].seen = x]
    BY <2>1 DEF CloseFamilyOf, CloseSeen, GoTo
  <2> QED
    BY <2>1 DEF ServeRefresh, ServeLogin, ServeLogout
<1> QED
  BY <1>1, <1>2, OneKeepsOpen

LEMMA WentKeepsOpen ==
  ASSUME BffInv, NEW s \in Slots,
         \/ ArriveLogout(s) \/ ArriveLogin(s) \/ ArriveSession(s)
         \/ Try(s) \/ Retry(s) \/ LoginMe(s)
  PROVE  KeepsOpen
<1> DEFINE Went == \E pc, x : GoTo(s, pc) \/ req' = [req EXCEPT ![s].pc = pc, ![s].access = x]
<1>1. Busy(s)
  BY DEF Busy, ArriveLogout, ArriveLogin, ArriveSession, Try, Retry, LoginMe
<1>2. ArriveLogout(s) \/ ArriveLogin(s) => Went
  BY DEF ArriveLogout, ArriveLogin
<1>3. ArriveSession(s) \/ Try(s) => RefreshAccessToken(s) \/ Went
  BY DEF ArriveSession, Try
<1>4. Retry(s) \/ LoginMe(s) => Went
  BY DEF Retry, LoginMe
<1>5. RefreshAccessToken(s) \/ Went
  BY <1>2, <1>3, <1>4
<1> QED
  BY <1>1, <1>5, OneKeepsOpen, RefreshAccessTokenKeepsOpen

\* A handler's step keeps what is open open; only an answer that arrives changes
\* the cookies, and its request is closed by then.
LEMMA HandleKeepsOpen ==
  ASSUME BffInv, NEW s \in Slots, Handle(s)
  PROVE  KeepsOpen /\ (jar' = jar \/ (Deliver(s) /\ Busy(s)))
<1>1. CASE Deliver(s) \/ Lose(s)
  <2>1. Closed(s) /\ Busy(s)
    BY <1>1 DEF Deliver, Lose, Busy, Answers
  <2>2. KeepsOpen
    BY <2>1, ClosedKeepsOpen
  <2> QED
    BY <1>1, <2>1, <2>2 DEF Lose
<1>2. CASE RefreshAnswered(s) \/ RefreshFailed(s)
  BY <1>2, AnsweredKeepsOpen, FailedKeepsOpen DEF RefreshAnswered, RefreshFailed
<1>3. CASE ServeRefresh(s) \/ ServeLogin(s) \/ ServeLogout(s)
  BY <1>3, ServedKeepsOpen DEF ServeRefresh, ServeLogin, ServeLogout
<1>4. CASE \/ ArriveLogout(s) \/ ArriveLogin(s) \/ ArriveSession(s)
           \/ Try(s) \/ Retry(s) \/ LoginMe(s)
  <2>1. jar' = jar
    BY <1>4 DEF ArriveLogout, ArriveLogin, ArriveSession, Try, Retry, LoginMe
  <2> QED
    BY <1>4, <2>1, WentKeepsOpen
<1> QED
  BY <1>1, <1>2, <1>3, <1>4 DEF Handle

LEMMA InitOneOpen == Init => OneOpen
  BY NoReqIs DEF Init, OneOpen, Busy

LEMMA NextOneOpen == BffInv /\ OneOpen /\ [Next]_vars => OneOpen'
<1> SUFFICES ASSUME BffInv, OneOpen, [Next]_vars PROVE OneOpen'
  OBVIOUS
<1>0. req \in [Slots -> Requests]
  BY DEF BffInv, TypeOK
<1>1. ASSUME NEW s \in Slots, Handle(s) PROVE OneOpen'
  <2>1. world' = world
    BY <1>1 DEF Handle, ArriveLogout, ArriveLogin, ArriveSession, Try, ServeRefresh,
       RefreshAnswered, RefreshFailed, Retry, ServeLogin, LoginMe, ServeLogout, Deliver, Lose
  <2>2. KeepsOpen /\ (jar' = jar \/ (Deliver(s) /\ Busy(s)))
    BY <1>1, HandleKeepsOpen
  <2>3. Deliver(s) => ~Busy(s)'
    BY <1>0, NoReqIs DEF Deliver, Closed, Busy
  <2> QED
    BY <2>1, <2>2, <2>3 DEF OneOpen, KeepsOpen
<1>2. ASSUME NEW s \in Slots, NEW kind \in Sends, Send(s, kind) PROVE OneOpen'
  <2>1. /\ sequential => \A r \in Slots : ~Busy(r)
        /\ UNCHANGED <<jar, world>>
    BY <1>2 DEF Send, Busy
  <2>2. \A r \in Slots \ {s} : req'[r] = req[r]
    BY <1>0, <1>2 DEF Send, Open
  <2>3. req'[s].refresh = jar.refresh
    BY <1>0, <1>2 DEF Send, Open, NoReq
  <2> QED
    BY <2>1, <2>2, <2>3 DEF OneOpen, Busy
<1>3. CASE AccessExpires
  <2>1. jar \in [access : BOOLEAN, refresh : Tokens \cup {NoToken}]
    BY DEF BffInv, TypeOK
  <2>2. UNCHANGED <<req, world>> /\ jar' = [jar EXCEPT !.access = FALSE]
    BY <1>3 DEF AccessExpires
  <2>3. jar'.refresh = jar.refresh
    BY <2>1, <2>2
  <2> QED
    BY <2>2, <2>3 DEF OneOpen, Busy
<1>4. (\E t \in Tokens : ServeLate(t)) \/ (\E F \in SUBSET Tokens : Revoke(F)) \/ Reactivate
        => UNCHANGED <<req, jar, world>>
  BY DEF ServeLate, Revoke, Reactivate
<1>5. UNCHANGED vars => UNCHANGED <<req, jar, world>>
  BY DEF vars
<1>6. CASE UNCHANGED <<req, jar, world>>
  BY <1>6 DEF OneOpen, Busy
<1> QED
  BY <1>1, <1>2, <1>3, <1>4, <1>5, <1>6 DEF Next

\* What LogoutSticks says of one delivery.
OnlyLoginOpens ==
    \A s \in Slots :
        /\ Deliver(s)
        /\ jar.refresh = NoToken
        /\ jar'.refresh # NoToken
        => req[s].kind = "login"

\* A browser that waits for each answer gets a session only by logging in, also
\* when calls fail and answers are lost: no answer to an earlier request puts
\* cookies back that a logout, or a refused refresh, has cleared.  (Requests that
\* overlap the logout do put them back, which the violated LogoutSticks shows.)
THEOREM BffSequentialLogoutSticks == Spec => [][sequential => OnlyLoginOpens]_vars
<1>1. ASSUME BffInv, OneOpen, sequential, NEW s \in Slots, Deliver(s),
             jar.refresh = NoToken, jar'.refresh # NoToken
      PROVE  req[s].kind = "login"
  <2>1. Busy(s) /\ RequestOK(req[s]) /\ req[s].refresh = NoToken /\ NoToken \notin spent
    BY <1>1 DEF Deliver, Answers, Busy, OneOpen, BffInv, TypeOK
  <2>2. req[s].pc = "set" /\ req[s].got # NoToken
    BY <1>1 DEF Deliver, Answers
  <2> QED
    BY <2>1, <2>2 DEF RequestOK
<1>2. BffInv /\ OneOpen => [sequential => OnlyLoginOpens]_vars
  BY <1>1 DEF OnlyLoginOpens
<1> QED
  BY <1>2, InitOneOpen, NextOneOpen, BffInvariant, PTL DEF Spec
=============================================================================
