-------------------------- MODULE Account_proofs --------------------------
(***************************************************************************)
(* What holds of an account for any number of requests, codes, connections *)
(* and failures.                                                           *)
(***************************************************************************)
EXTENDS Account, FiniteSetTheorems, TLAPS

AllSubmissions == Submissions \cup Issuances \cup Others

UserType == [password : {"chosen", "scrambled", "erased"}, verified : BOOLEAN, deleted : BOOLEAN]

ReqType == [op : AllSubmissions \cup {Nil}, code : 0..MaxCodes,
            session : {"current", "stale"}, snapshot : SUBSET Codes]

Places == {"idle", "begin", "miss", "consume", "rewrite", "commit", "scramble",
           "configured", "invalidate", "insert", "erase", "revoke", "issue"}

Types ==
    /\ user \in UserType
    /\ codes \in [Codes -> CodeType \cup {Nil}]
    /\ sessions \subseteq {"current", "stale"}
    /\ issued \in 0..MaxCodes
    /\ pc \in [Slots -> Places]
    /\ req \in [Slots -> ReqType]
    /\ used \in [Codes -> Nat]
    /\ calm \in BOOLEAN
    /\ aborts \in 0..MaxAborts

\* The names given to the parts of the type invariant change nothing.
LEMMA TypesAreTypeOK == Types <=> TypeOK
BY DEF Types, TypeOK, UserType, ReqType, Places, AllSubmissions

-----------------------------------------------------------------------------
(* The invariant *)

\* A reset's transaction has consumed the code of s.
Locks(s) == pc[s] \in {"rewrite", "commit"} /\ req[s].op = "confirm_reset"

Submitting(s) == pc[s] \in {"begin", "miss", "consume"} \/ Locks(s)

Issuing(s) == pc[s] \in {"scramble", "configured", "invalidate", "insert"}

\* Codes submitted or to be invalidated exist; a code to be issued does not yet,
\* and is nobody else's.
CodesInv ==
    /\ \A t \in Codes : codes[t] # Nil => t <= issued
    /\ \A s \in Slots : Submitting(s) => req[s].code \in Codes /\ codes[req[s].code] # Nil
    /\ \A s \in Slots : Issuing(s) => req[s].code \in 1..issued /\ codes[req[s].code] = Nil
    /\ \A s, o \in Slots : Issuing(s) /\ Issuing(o) /\ req[s].code = req[o].code => s = o
    /\ \A s \in Slots : pc[s] = "insert" => \A t \in req[s].snapshot : codes[t] # Nil

\* A code that may yet be consumed has taken effect once for each failure at
\* most, unless a reset that has it locked has written its password.
UsedInv ==
    /\ \A s \in Slots : Locks(s) => ~codes[req[s].code].consumed
    /\ \A s, o \in Slots : Locks(s) /\ Locks(o) /\ req[s].code = req[o].code => s = o
    /\ \A s \in Slots : pc[s] = "commit" => req[s].op = "confirm_reset"
    /\ \A t \in Codes : used[t] <= 1 + aborts
    /\ \A t \in Codes :
           \/ used[t] <= aborts
           \/ codes[t] # Nil /\ codes[t].consumed
           \/ \E s \in Slots : pc[s] = "commit" /\ req[s].code = t

Inv == Types /\ CodesInv /\ UsedInv

-----------------------------------------------------------------------------
(* Records keep their types *)

\* A token that is not there is told from every token.
LEMMA NilIsNoCode == Nil \notin CodeType
BY AccountAssumption

\* What an update of a token's row does to it.
LEMMA CodeFields ==
    ASSUME NEW c \in CodeType
    PROVE  /\ c.attempts \in Nat /\ c.consumed \in BOOLEAN /\ c.purpose \in Purposes
           /\ [c EXCEPT !.attempts = c.attempts + 1] \in CodeType
           /\ [c EXCEPT !.attempts = c.attempts + 1].consumed = c.consumed
           /\ [c EXCEPT !.consumed = TRUE] \in CodeType
           /\ [c EXCEPT !.consumed = TRUE].consumed
           /\ [c EXCEPT !.expired = TRUE] \in CodeType
           /\ [c EXCEPT !.expired = TRUE].consumed = c.consumed
<1>0. c.consumed \in BOOLEAN
  BY Zenon DEF CodeType
<1>1. c.attempts \in Nat /\ c.purpose \in Purposes
  BY DEF CodeType
<1>2. [c EXCEPT !.attempts = c.attempts + 1] \in CodeType
  BY <1>1, SMT DEF CodeType
<1>3. [c EXCEPT !.consumed = TRUE] \in CodeType /\ [c EXCEPT !.expired = TRUE] \in CodeType
  BY Zenon DEF CodeType
<1>4. /\ [c EXCEPT !.attempts = c.attempts + 1].consumed = c.consumed
      /\ [c EXCEPT !.expired = TRUE].consumed = c.consumed
  BY SMT DEF CodeType
<1>5. [c EXCEPT !.consumed = TRUE].consumed
  BY Zenon DEF CodeType
<1> QED BY <1>0, <1>1, <1>2, <1>3, <1>4, <1>5

LEMMA NewCode == ASSUME NEW op PROVE Code(Purpose(op)) \in CodeType
<1>1. Purpose(op) \in Purposes
  BY DEF Purpose, Purposes
<1> QED BY <1>1 DEF Code, CodeType

\* What a handler does to the record of its request.
LEMMA ReqFields ==
    ASSUME NEW r \in ReqType
    PROVE  /\ r.code \in 0..MaxCodes /\ r.snapshot \subseteq Codes /\ r.session \in {"current", "stale"}
           /\ \A k \in {"current", "stale"} :
                 LET q == [r EXCEPT !.session = k]
                 IN  q \in ReqType /\ q.op = r.op /\ q.code = r.code /\ q.snapshot = r.snapshot
           /\ \A S \in SUBSET Codes :
                 LET q == [r EXCEPT !.snapshot = S]
                 IN  q \in ReqType /\ q.op = r.op /\ q.code = r.code /\ q.snapshot = S
BY DEF ReqType

LEMMA BlankType == Blank \in ReqType
BY AccountAssumption DEF Blank, ReqType, AllSubmissions

LEMMA RequestType ==
    ASSUME NEW op \in AllSubmissions
    PROVE  /\ Request(op) \in ReqType /\ Request(op).op = op
           /\ \A t \in 0..MaxCodes :
                 LET q == [Request(op) EXCEPT !.code = t]
                 IN  q \in ReqType /\ q.op = op /\ q.code = t
<1>1. Request(op) = [op |-> op, code |-> 0, session |-> "current", snapshot |-> {}]
  BY DEF Request, Blank
<1>2. 0 \in 0..MaxCodes
  BY AccountAssumption
<1> QED BY <1>1, <1>2 DEF ReqType

LEMMA UserFields ==
    ASSUME NEW u \in UserType
    PROVE  /\ u.deleted \in BOOLEAN /\ u.verified \in BOOLEAN
           /\ \A v \in BOOLEAN : [u EXCEPT !.verified = v] \in UserType
           /\ u = [u EXCEPT !.verified = u.verified]
           /\ \A p \in {"chosen", "scrambled"} : [u EXCEPT !.password = p] \in UserType
           /\ [u EXCEPT !.deleted = TRUE, !.password = "erased"] \in UserType
BY DEF UserType
-----------------------------------------------------------------------------
(* The invariant is inductive *)

USE AccountAssumption, NilIsNoCode DEF Codes, Keeps, Places

LEMMA InitInv == Init => Inv
<1> SUFFICES ASSUME Init PROVE Inv
  OBVIOUS
<1>1. Types
  <2>1. \A t \in Codes : codes[t] \in CodeType \cup {Nil}
    BY DEF Init, Code, CodeType, Purposes
  <2>2. user \in UserType /\ issued \in 0..MaxCodes
    BY DEF Init, UserType
  <2>3. \A t \in Codes : codes[t] \in CodeType \cup {Nil} /\ codes = [o \in Codes |-> codes[o]]
    BY <2>1 DEF Init
  <2> QED BY <2>2, <2>3, BlankType DEF Init, Types
<1>2. CodesInv
  BY DEF Init, CodesInv, Submitting, Issuing, Locks
<1>3. UsedInv
  BY DEF Init, UsedInv, Locks
<1> QED BY <1>1, <1>2, <1>3 DEF Inv

\* What a request holds are codes.
LEMMA RequestCodes ==
    Inv => \A o \in Slots : /\ req[o].snapshot \subseteq Codes
                            /\ Issuing(o) => req[o].code \in Codes
                            /\ Locks(o) => req[o].code \in Codes
<1> SUFFICES ASSUME Inv, NEW o \in Slots
             PROVE  /\ req[o].snapshot \subseteq Codes
                    /\ Issuing(o) => req[o].code \in Codes
                    /\ Locks(o) => req[o].code \in Codes
  OBVIOUS
<1>1. req[o] \in ReqType
  BY DEF Inv, Types
<1>2. req[o].snapshot \subseteq Codes
  BY <1>1, ReqFields
<1>3. Issuing(o) => req[o].code \in Codes
  BY DEF Inv, Types, CodesInv
<1>4. Locks(o) => req[o].code \in Codes
  BY DEF Inv, CodesInv, Submitting
<1> QED BY <1>2, <1>3, <1>4

\* No code is issued or consumed.
SameCodes ==
    \A t \in Codes : /\ codes'[t] = Nil <=> codes[t] = Nil
                     /\ codes'[t].consumed = codes[t].consumed

\* A slot that ends leaves nothing behind.
LEMMA EndsInv ==
    ASSUME Inv, NEW s \in Slots, Ends(s), SameCodes, UNCHANGED <<issued, used>>,
           aborts' \in {aborts, aborts + 1}, pc[s] = "commit" => aborts' = aborts + 1
    PROVE  CodesInv' /\ UsedInv' /\ pc' \in [Slots -> Places] /\ req' \in [Slots -> ReqType]
<1>1. pc' \in [Slots -> Places] /\ req' \in [Slots -> ReqType]
  BY BlankType DEF Ends, Inv, Types
<1>2. /\ pc'[s] = "idle"
      /\ \A o \in Slots : o # s => pc'[o] = pc[o] /\ req'[o] = req[o]
  BY DEF Ends, Inv, Types
<1>3. \A o \in Slots : /\ Submitting(o)' => o # s /\ Submitting(o) /\ req'[o] = req[o]
                       /\ Issuing(o)' => o # s /\ Issuing(o) /\ req'[o] = req[o]
                       /\ Locks(o)' => o # s /\ Locks(o) /\ req'[o] = req[o]
                       /\ pc'[o] = "insert" => pc[o] = "insert" /\ req'[o] = req[o]
  BY <1>2 DEF Submitting, Issuing, Locks
<1>4. \A o \in Slots : /\ req[o].snapshot \subseteq Codes
                       /\ Issuing(o) => req[o].code \in Codes
                       /\ Locks(o) => req[o].code \in Codes
  BY RequestCodes
<1>5. CodesInv'
  BY <1>3, <1>4 DEF Inv, CodesInv, SameCodes
<1>6. ASSUME NEW t \in Codes
      PROVE  /\ used'[t] <= 1 + aborts'
             /\ \/ used'[t] <= aborts'
                \/ codes'[t] # Nil /\ codes'[t].consumed
                \/ \E o \in Slots : pc'[o] = "commit" /\ req'[o].code = t
  <2>1. /\ used[t] <= 1 + aborts
        /\ \/ used[t] <= aborts
           \/ codes[t] # Nil /\ codes[t].consumed
           \/ \E o \in Slots : pc[o] = "commit" /\ req[o].code = t
    BY DEF Inv, UsedInv
  <2>2. aborts \in Nat /\ used[t] \in Nat /\ used'[t] = used[t]
    BY DEF Inv, Types
  <2>3. CASE pc[s] = "commit"
    BY <2>1, <2>2, <2>3
  <2>4. CASE pc[s] # "commit"
    <3>1. \A o \in Slots : pc[o] = "commit" => pc'[o] = "commit" /\ req'[o] = req[o]
      BY <1>2, <2>4
    <3> QED BY <2>1, <2>2, <3>1 DEF SameCodes
  <2> QED BY <2>3, <2>4
<1>7. /\ \A o \in Slots : Locks(o)' => ~codes'[req'[o].code].consumed
      /\ \A o \in Slots : pc'[o] = "commit" => req'[o].op = "confirm_reset"
  BY <1>2, <1>3, <1>4 DEF Inv, UsedInv, SameCodes
<1>8. UsedInv'
  BY <1>3, <1>6, <1>7 DEF Inv, UsedInv
<1> QED BY <1>1, <1>5, <1>8

\* The other requests, and what this one is about, stay as they are.
SameRequests ==
    /\ req' \in [Slots -> ReqType]
    /\ \A o \in Slots : /\ req'[o].op = req[o].op /\ req'[o].code = req[o].code
                        /\ req'[o].snapshot = req[o].snapshot

\* A request consumes its code, which no other has locked, and uses it perhaps.
Consumes(s) ==
    /\ req[s].code \in Codes /\ codes[req[s].code] # Nil
    /\ \A o \in Slots \ {s} : Locks(o) => req[o].code # req[s].code
    /\ codes' = [codes EXCEPT ![req[s].code].consumed = TRUE]
    /\ \/ UNCHANGED used
       \/ /\ used' = [used EXCEPT ![req[s].code] = @ + 1] /\ pc[s] = "consume"
          /\ ~codes[req[s].code].consumed

\* A slot that is done with its code, and may have consumed it, leaves it behind.
LEMMA LeavesInv ==
    ASSUME Inv, NEW s \in Slots, NEW at \in {"revoke", "issue"}, pc' = [pc EXCEPT ![s] = at],
           SameRequests, UNCHANGED <<issued, aborts>>,
           \/ SameCodes /\ UNCHANGED used /\ pc[s] # "commit"
           \/ Consumes(s)
    PROVE  CodesInv' /\ UsedInv'
<1>0. \A t \in Codes : codes[t] # Nil => codes[t] \in CodeType
  BY DEF Inv, Types
<1>1. \A t \in Codes : codes'[t] = Nil <=> codes[t] = Nil
  <2>1. CASE SameCodes
    BY <2>1 DEF SameCodes
  <2>2. CASE Consumes(s)
    <3>1. codes'[req[s].code] = [codes[req[s].code] EXCEPT !.consumed = TRUE]
      BY <2>2 DEF Consumes, Inv, Types
    <3>2. codes[req[s].code] \in CodeType
      BY <1>0, <2>2 DEF Consumes
    <3>3. codes'[req[s].code] \in CodeType
      <4>1. \A c \in CodeType : [c EXCEPT !.consumed = TRUE] \in CodeType
        BY CodeFields
      <4> QED BY <3>1, <3>2, <4>1
    <3> QED BY <2>2, <3>3 DEF Consumes, Inv, Types
  <2> QED BY <2>1, <2>2
<1>2. pc'[s] = at /\ \A o \in Slots : o # s => pc'[o] = pc[o]
  BY DEF Inv, Types
<1>3. \A o \in Slots : /\ Submitting(o)' => o # s /\ Submitting(o)
                       /\ Issuing(o)' => o # s /\ Issuing(o)
                       /\ Locks(o)' => o # s /\ Locks(o)
                       /\ pc'[o] \in {"insert", "commit"} => o # s /\ pc'[o] = pc[o]
  BY <1>2 DEF Submitting, Issuing, Locks, SameRequests
<1>4. \A o \in Slots : /\ req[o].snapshot \subseteq Codes
                       /\ Issuing(o) => req[o].code \in Codes
                       /\ Locks(o) => req[o].code \in Codes
  BY RequestCodes
<1>5. CodesInv'
  BY <1>1, <1>3, <1>4 DEF Inv, CodesInv, SameRequests
<1>6. /\ \A o \in Slots : Locks(o)' => ~codes'[req'[o].code].consumed
      /\ \A o \in Slots : pc'[o] = "commit" => req'[o].op = "confirm_reset"
      /\ \A o, q \in Slots : Locks(o)' /\ Locks(q)' /\ req'[o].code = req'[q].code => o = q
  <2>1. \A o \in Slots : Locks(o)' => codes'[req[o].code].consumed = codes[req[o].code].consumed
    BY <1>3, <1>4 DEF SameCodes, Consumes, Inv, Types
  <2> QED BY <1>3, <2>1 DEF Inv, UsedInv, SameRequests
<1>7. ASSUME NEW t \in Codes
      PROVE  /\ used'[t] <= 1 + aborts'
             /\ \/ used'[t] <= aborts'
                \/ codes'[t] # Nil /\ codes'[t].consumed
                \/ \E o \in Slots : pc'[o] = "commit" /\ req'[o].code = t
  <2>1. /\ used[t] <= 1 + aborts
        /\ \/ used[t] <= aborts
           \/ codes[t] # Nil /\ codes[t].consumed
           \/ \E o \in Slots : pc[o] = "commit" /\ req[o].code = t
    BY DEF Inv, UsedInv
  <2>2. aborts \in Nat /\ used[t] \in Nat
    BY DEF Inv, Types
  <2>3. \A o \in Slots : o # s /\ pc[o] = "commit" /\ req[o].code = t
                            => pc'[o] = "commit" /\ req'[o].code = t
    BY <1>2 DEF SameRequests
  <2>4. CASE SameCodes /\ UNCHANGED used /\ pc[s] # "commit"
    BY <2>1, <2>2, <2>3, <2>4 DEF SameCodes
  <2>5. CASE Consumes(s)
    <3>1. CASE t = req[s].code
      <4>1. codes'[t] # Nil /\ codes'[t].consumed
        BY <1>0, <1>1, <2>5, <3>1, CodeFields DEF Consumes, Inv, Types
      <4>2. CASE UNCHANGED used
        BY <2>1, <2>2, <4>1, <4>2
      <4>3. CASE /\ used' = [used EXCEPT ![req[s].code] = @ + 1] /\ pc[s] = "consume"
                 /\ ~codes[req[s].code].consumed
        <5>1. ~ \E o \in Slots : pc[o] = "commit" /\ req[o].code = t
          BY <2>5, <3>1, <4>3 DEF Consumes, Locks, Inv, UsedInv
        <5>2. used[t] <= aborts
          BY <2>1, <4>3, <3>1, <5>1
        <5>3. used'[t] = used[t] + 1
          BY <3>1, <4>3 DEF Inv, Types
        <5> QED BY <2>2, <4>1, <5>2, <5>3
      <4> QED BY <2>5, <4>2, <4>3 DEF Consumes
    <3>2. CASE t # req[s].code
      <4>1. codes'[t] = codes[t] /\ used'[t] = used[t]
        BY <2>5, <3>2 DEF Consumes, Inv, Types
      <4> QED BY <2>1, <2>2, <2>3, <3>2, <4>1
    <3> QED BY <3>1, <3>2
  <2> QED BY <2>4, <2>5
<1>8. UsedInv'
  BY <1>6, <1>7 DEF UsedInv
<1> QED BY <1>5, <1>8

\* Consuming the code of a request that has the transaction's turn.
LEMMA ConsumesCode ==
    ASSUME Inv, NEW s \in Slots, At(s, "consume"), ~codes[req[s].code].consumed,
           Consumed(s), Used(s), UNCHANGED req
    PROVE  /\ Consumes(s) /\ SameRequests
           /\ codes' \in [Codes -> CodeType \cup {Nil}] /\ used' \in [Codes -> Nat]
<1>1. req[s].code \in Codes /\ codes[req[s].code] # Nil /\ codes[req[s].code] \in CodeType
  BY DEF At, Inv, Types, CodesInv, Submitting
<1>2. \A o \in Slots \ {s} : Locks(o) => req[o].code # req[s].code
  BY DEF At, WaitsForRow, CodeLocked, Locks
<1>3. Consumes(s)
  BY <1>1, <1>2 DEF Consumes, Consumed, Used, At
<1>4. codes' = [codes EXCEPT ![req[s].code] = [codes[req[s].code] EXCEPT !.consumed = TRUE]]
  BY DEF Consumed
<1>5. codes' \in [Codes -> CodeType \cup {Nil}]
  BY <1>1, <1>4, CodeFields DEF Inv, Types
<1> QED BY <1>1, <1>3, <1>5 DEF Used, SameRequests, Inv, Types

\* A password is set: the requests of the others are about the same things.
LEMMA RewrittenRequests ==
    ASSUME Inv, NEW s \in Slots, NEW at \in Places, Rewritten(s, at)
    PROVE  /\ SameRequests /\ pc' = [pc EXCEPT ![s] = at] /\ pc' \in [Slots -> Places]
           /\ sessions' \subseteq {"current", "stale"}
<1>1. \A o \in Slots : req[o] \in ReqType
  BY DEF Inv, Types
<1>2. ASSUME NEW o \in Slots
      PROVE  /\ req'[o] \in ReqType
             /\ req'[o].op = req[o].op /\ req'[o].code = req[o].code
             /\ req'[o].snapshot = req[o].snapshot
  <2>1. \/ req'[o] = req[o]
        \/ req'[o] = [req[o] EXCEPT !.session = "current"]
        \/ req'[o] = [req[o] EXCEPT !.session = "stale"]
    BY DEF Rewritten
  <2>2. \A k \in {"current", "stale"} :
           LET q == [req[o] EXCEPT !.session = k]
           IN  q \in ReqType /\ q.op = req[o].op /\ q.code = req[o].code
               /\ q.snapshot = req[o].snapshot
    BY <1>1, ReqFields
  <2> QED BY <1>1, <2>1, <2>2
<1>3. req' \in [Slots -> ReqType]
  BY <1>2 DEF Rewritten
<1> QED BY <1>2, <1>3 DEF Rewritten, SameRequests, Inv, Types

\* Every step of a request keeps the invariant.
LEMMA StepInv == ASSUME Inv, NEW s \in Slots, Step(s) PROVE Inv'
<1> USE DEF Inv, Types
<1>0. /\ pc[s] \in Places /\ req[s] \in ReqType
      /\ req[s].code \in 0..MaxCodes /\ req[s].snapshot \subseteq Codes
      /\ req[s].session \in {"current", "stale"}
      /\ \A t \in Codes : codes[t] # Nil => codes[t] \in CodeType
  <2>1. req[s] \in ReqType
    OBVIOUS
  <2>2. /\ req[s].code \in 0..MaxCodes /\ req[s].snapshot \subseteq Codes
        /\ req[s].session \in {"current", "stale"}
    BY <2>1 DEF ReqType
  <2> QED BY <2>1, <2>2
<1>a. Submitting(s) => req[s].code \in Codes /\ codes[req[s].code] \in CodeType
  BY DEF CodesInv
<1>b. UNCHANGED <<issued, calm, aborts>>
  BY DEF Step, Miss, Begin, ConsumeFails, ConsumeVerify, ConsumeChange, ConsumeReset, Rewrite,
         CommitReset, Scramble, Configured, Invalidate, Insert, Erase, Revoke, Issue
<1>1. CASE Miss(s)
  <2>1. SameCodes /\ codes' \in [Codes -> CodeType \cup {Nil}]
    <3>1. codes[req[s].code] \in CodeType /\ req[s].code \in Codes
      BY <1>1, <1>a DEF Miss, At, Submitting
    <3>2. codes' = [codes EXCEPT ![req[s].code] = [codes[req[s].code] EXCEPT !.attempts = codes[req[s].code].attempts + 1]]
      BY <1>1, <3>1 DEF Miss
    <3>3. \A t \in Codes : t # req[s].code => codes'[t] = codes[t]
      BY <3>2
    <3>4. /\ codes'[req[s].code] \in CodeType
          /\ codes'[req[s].code].consumed = codes[req[s].code].consumed
      <4> DEFINE c == codes[req[s].code]
      <4>1. codes'[req[s].code] = [c EXCEPT !.attempts = c.attempts + 1]
        BY <3>1, <3>2
      <4>2. /\ [c EXCEPT !.attempts = c.attempts + 1] \in CodeType
            /\ [c EXCEPT !.attempts = c.attempts + 1].consumed = c.consumed
        BY <3>1, CodeFields
      <4> QED BY <4>1, <4>2
    <3>5. codes' \in [Codes -> CodeType \cup {Nil}]
      BY <3>1, <3>2, <3>3, <3>4
    <3> QED BY <3>1, <3>3, <3>4, <3>5 DEF SameCodes
  <2> QED BY <1>1, <2>1, EndsInv DEF Miss, At
<1>2. CASE Begin(s)
  <2>1. Types'
    BY <1>0, <1>2 DEF At, CodesInv, Submitting, Locks, Begin, GoesOn
  <2>2. CodesInv'
    BY <1>0, <1>2 DEF At, CodesInv, Submitting, Issuing, Locks, Begin, GoesOn
  <2>3. UsedInv'
    BY <1>0, <1>2 DEF At, WaitsForRow, CodeLocked, CodesInv, UsedInv, Submitting, Issuing, Locks, Begin, GoesOn
  <2> QED BY <2>1, <2>2, <2>3
<1>3. CASE ConsumeFails(s)
  <2>1. SameCodes
    BY <1>3 DEF ConsumeFails, SameCodes
  <2> QED BY <1>3, <2>1, EndsInv DEF ConsumeFails, At
<1>4. CASE ConsumeVerify(s)
  <2>1. Consumes(s) /\ SameRequests /\ codes' \in [Codes -> CodeType \cup {Nil}] /\ used' \in [Codes -> Nat]
    BY <1>4, ConsumesCode DEF ConsumeVerify, Consumed, Used, GoesOn
  <2>2. CodesInv' /\ UsedInv'
    BY <1>4, <2>1, LeavesInv DEF ConsumeVerify, GoesOn
  <2>3. user' \in UserType
    BY <1>4, UserFields DEF ConsumeVerify
  <2> QED BY <1>4, <2>1, <2>2, <2>3 DEF ConsumeVerify, GoesOn
<1>5. CASE ConsumeChange(s)
  <2>1. CASE Consumed(s) /\ Used(s) /\ GoesOn(s, "revoke")
    <3>1. Consumes(s) /\ SameRequests /\ codes' \in [Codes -> CodeType \cup {Nil}] /\ used' \in [Codes -> Nat]
      BY <1>5, <2>1, ConsumesCode DEF ConsumeChange, GoesOn
    <3>2. CodesInv' /\ UsedInv'
      BY <1>5, <2>1, <3>1, LeavesInv DEF ConsumeChange, GoesOn
    <3> QED BY <1>5, <2>1, <3>1, <3>2 DEF ConsumeChange, GoesOn
  <2>2. CASE Ends(s) /\ UNCHANGED <<codes, used>>
    <3>1. SameCodes
      BY <2>2 DEF SameCodes
    <3> QED BY <1>5, <2>2, <3>1, EndsInv DEF ConsumeChange, At
  <2> QED BY <1>5, <2>1, <2>2 DEF ConsumeChange
<1>6. CASE ConsumeReset(s)
  <2>1. Types'
    BY <1>0, <1>6 DEF At, CodesInv, Submitting, Locks, ConsumeReset, GoesOn
  <2>2. CodesInv'
    BY <1>0, <1>6 DEF At, CodesInv, Submitting, Issuing, Locks, ConsumeReset, GoesOn
  <2>3. UsedInv'
    BY <1>0, <1>6 DEF At, WaitsForRow, CodeLocked, CodesInv, UsedInv, Submitting, Issuing, Locks, ConsumeReset, GoesOn
  <2> QED BY <2>1, <2>2, <2>3
<1>7. CASE Rewrite(s)
  <2>1. CASE Ends(s) /\ UNCHANGED <<user, sessions, used>>
    <3>1. SameCodes
      BY <1>7, <2>1 DEF Rewrite, SameCodes
    <3> QED BY <1>7, <2>1, <3>1, EndsInv DEF Rewrite, At
  <2>2. CASE /\ user' = [user EXCEPT !.password = "chosen"] /\ UNCHANGED used
             /\ Rewritten(s, "revoke")
    <3>1. SameCodes
      BY <1>7 DEF Rewrite, SameCodes
    <3>2. SameRequests /\ pc' = [pc EXCEPT ![s] = "revoke"] /\ pc' \in [Slots -> Places]
          /\ sessions' \subseteq {"current", "stale"}
      BY <2>2, RewrittenRequests
    <3>3. CodesInv' /\ UsedInv'
      BY <1>7, <2>2, <3>1, <3>2, LeavesInv DEF Rewrite, At
    <3>4. user' \in UserType
      BY <2>2, UserFields
    <3> QED BY <1>7, <2>2, <3>2, <3>3, <3>4 DEF Rewrite, SameRequests
  <2>3. CASE /\ user' = [user EXCEPT !.password = "chosen"] /\ Used(s)
             /\ Rewritten(s, "commit") /\ req[s].op = "confirm_reset"
    <3>1. SameRequests /\ pc' = [pc EXCEPT ![s] = "commit"] /\ pc' \in [Slots -> Places]
          /\ sessions' \subseteq {"current", "stale"}
      BY <2>3, RewrittenRequests
    <3>2. Locks(s) /\ req[s].code \in Codes /\ ~codes[req[s].code].consumed
      BY <1>7, <1>a, <2>3 DEF Rewrite, At, Locks, Submitting, UsedInv
    <3>3. \A o \in Slots : /\ Submitting(o)' <=> Submitting(o)
                           /\ Issuing(o)' <=> Issuing(o)
                           /\ Locks(o)' <=> Locks(o)
                           /\ pc'[o] = "insert" <=> pc[o] = "insert"
                           /\ pc'[o] = "commit" <=> o = s \/ pc[o] = "commit"
      BY <1>7, <2>3, <3>1 DEF Rewrite, At, SameRequests, Submitting, Issuing, Locks
    <3>a. UNCHANGED <<codes, issued, aborts>>
      BY <1>7 DEF Rewrite
    <3>b. \A o \in Slots : req'[o].op = req[o].op /\ req'[o].code = req[o].code
                           /\ req'[o].snapshot = req[o].snapshot
      BY <3>1 DEF SameRequests
    <3>4. CodesInv'
      <4> HIDE DEF Inv, Types
      <4>1. CodesInv
        BY DEF Inv
      <4> QED BY <3>3, <3>a, <3>b, <4>1 DEF CodesInv
    <3>5. \A t \in Codes : /\ used'[t] = IF t = req[s].code THEN used[t] + 1 ELSE used[t]
                           /\ used[t] \in Nat
      BY <2>3, <3>2 DEF Used
    <3>6. used[req[s].code] <= aborts
      <4>1. ~ \E o \in Slots : pc[o] = "commit" /\ req[o].code = req[s].code
        BY <1>7, <3>2 DEF Rewrite, At, UsedInv, Locks
      <4> QED BY <3>2, <4>1 DEF UsedInv
    <3>7. ASSUME NEW t \in Codes
          PROVE  /\ used'[t] <= 1 + aborts'
                 /\ \/ used'[t] <= aborts'
                    \/ codes'[t] # Nil /\ codes'[t].consumed
                    \/ \E o \in Slots : pc'[o] = "commit" /\ req'[o].code = t
      <4>1. CASE t = req[s].code
        BY <1>7, <3>1, <3>3, <3>5, <3>6, <4>1 DEF Rewrite, SameRequests
      <4>2. CASE t # req[s].code
        BY <1>7, <3>1, <3>3, <3>5, <4>2 DEF Rewrite, UsedInv, SameRequests
      <4> QED BY <4>1, <4>2
    <3>8. UsedInv'
      <4> HIDE DEF Inv, Types
      <4>1. UsedInv
        BY DEF Inv
      <4> QED BY <2>3, <3>3, <3>7, <3>a, <3>b, <4>1 DEF UsedInv
    <3>9. user' \in UserType
      BY <2>3, UserFields
    <3>c. used' \in [Codes -> Nat]
      BY <2>3, <3>2 DEF Used
    <3> QED BY <1>7, <3>1, <3>4, <3>8, <3>9, <3>c DEF Rewrite, SameRequests
  <2> QED BY <1>7, <2>1, <2>2, <2>3 DEF Rewrite
<1>8. CASE CommitReset(s)
  <2>1. Locks(s) /\ req[s].code \in Codes /\ codes[req[s].code] \in CodeType
    BY <1>8, <1>a DEF CommitReset, At, Locks, Submitting, UsedInv
  <2>2. Consumes(s)
    BY <1>8, <2>1 DEF CommitReset, Consumed, Consumes, UsedInv
  <2>3. SameRequests
    BY <1>8 DEF CommitReset, GoesOn, SameRequests
  <2>4. CodesInv' /\ UsedInv'
    BY <1>8, <2>2, <2>3, LeavesInv DEF CommitReset, GoesOn
  <2>5. codes' \in [Codes -> CodeType \cup {Nil}]
    <3>1. codes' = [codes EXCEPT ![req[s].code] = [codes[req[s].code] EXCEPT !.consumed = TRUE]]
      BY <1>8 DEF CommitReset, Consumed
    <3>2. \A c \in CodeType : [c EXCEPT !.consumed = TRUE] \in CodeType
      BY CodeFields
    <3> QED BY <2>1, <3>1, <3>2
  <2> QED BY <1>8, <2>3, <2>4, <2>5 DEF CommitReset, GoesOn, SameRequests
<1>9. CASE Scramble(s)
  <2>1. Types'
    BY <1>0, <1>9 DEF At, CodesInv, Submitting, Locks, Scramble, GoesOn
  <2>2. CodesInv'
    BY <1>0, <1>9 DEF At, CodesInv, Submitting, Issuing, Locks, Scramble, GoesOn
  <2>3. UsedInv'
    BY <1>0, <1>9 DEF At, WaitsForRow, CodeLocked, CodesInv, UsedInv, Submitting, Issuing, Locks, Scramble, GoesOn
  <2> QED BY <2>1, <2>2, <2>3
<1>10. CASE Configured(s)
  <2>1. CASE Ends(s)
    <3>1. SameCodes
      BY <1>10, <2>1 DEF Configured, SameCodes
    <3> QED BY <1>10, <2>1, <3>1, EndsInv DEF Configured, At
  <2>2. CASE GoesOn(s, "invalidate")
    <3>1. Types'
      BY <1>0, <1>10, <2>2 DEF Configured, GoesOn
    <3>2. CodesInv'
      BY <1>0, <1>10, <2>2 DEF Configured, At, CodesInv, Submitting, Issuing, Locks, GoesOn
    <3>3. UsedInv'
      BY <1>0, <1>10, <2>2 DEF Configured, At, UsedInv, CodesInv, Submitting, Locks, GoesOn
    <3> QED BY <3>1, <3>2, <3>3
  <2> QED BY <1>10, <2>1, <2>2 DEF Configured
<1>11. CASE Invalidate(s)
  <2>1. Types'
    <3>1. Open(Purpose(req[s].op)) \in SUBSET Codes
      BY DEF Open
    <3>2. [req[s] EXCEPT !.snapshot = Open(Purpose(req[s].op))] \in ReqType
      BY <1>0, <3>1, ReqFields
    <3> QED BY <1>11, <3>2 DEF Invalidate
  <2>2. CodesInv'
    BY <1>0, <1>11 DEF Invalidate, At, Open, CodesInv, Submitting, Issuing, Locks, ReqType
  <2>3. UsedInv'
    BY <1>0, <1>11 DEF Invalidate, At, CodesInv, UsedInv, Submitting, Locks, ReqType
  <2> QED BY <2>1, <2>2, <2>3
<1>12. CASE Insert(s)
  <2> DEFINE c == req[s].code
             T == req[s].snapshot
  <2>1. /\ pc[s] = "insert" /\ c \in Codes /\ c <= issued /\ codes[c] = Nil
        /\ \A t \in T : t \in Codes /\ codes[t] \in CodeType /\ t # c
    <3>1. pc[s] = "insert" /\ Issuing(s)
      BY <1>12 DEF Insert, At, Issuing
    <3>2. c \in 1..issued /\ codes[c] = Nil /\ \A t \in T : codes[t] # Nil
      BY <3>1 DEF CodesInv
    <3> QED BY <1>0, <3>1, <3>2
  <2>2. \A o \in Slots : Locks(o) => req[o].code \notin T
    BY <1>12 DEF Insert, At, WaitsForRow, CodeLocked, Locks
  <2>3. /\ codes'[c] \in CodeType
        /\ \A t \in T : codes'[t] \in CodeType /\ codes'[t].consumed
        /\ \A t \in Codes : t # c /\ t \notin T => codes'[t] = codes[t]
        /\ codes' \in [Codes -> CodeType \cup {Nil}]
    <3>1. codes' = [t \in Codes |-> CASE t = c   -> Code(Purpose(req[s].op))
                                      [] t \in T -> [codes[t] EXCEPT !.consumed = TRUE]
                                      [] OTHER   -> codes[t]]
      BY <1>12 DEF Insert
    <3>2. codes'[c] = Code(Purpose(req[s].op))
      BY <2>1, <3>1
    <3>3. \A t \in T : codes'[t] = [codes[t] EXCEPT !.consumed = TRUE]
      BY <2>1, <3>1
    <3>4. \A t \in Codes : t # c /\ t \notin T => codes'[t] = codes[t]
      BY <3>1
    <3>5. \A t \in T : codes'[t] \in CodeType /\ codes'[t].consumed
      <4>1. \A x \in CodeType : /\ [x EXCEPT !.consumed = TRUE] \in CodeType
                                /\ [x EXCEPT !.consumed = TRUE].consumed
        BY CodeFields
      <4> SUFFICES ASSUME NEW t \in T PROVE codes'[t] \in CodeType /\ codes'[t].consumed
        OBVIOUS
      <4>2. codes[t] \in CodeType /\ codes'[t] = [codes[t] EXCEPT !.consumed = TRUE]
        BY <2>1, <3>3
      <4>3. codes'[t] \in CodeType
        BY <4>1, <4>2
      <4>4. codes'[t].consumed
        BY <4>1, <4>2, Zenon
      <4> QED BY <4>3, <4>4
    <3>6. codes'[c] \in CodeType
      BY <3>2, NewCode
    <3>7. \A t \in Codes : codes'[t] \in CodeType \cup {Nil}
      BY <3>4, <3>5, <3>6
    <3>8. codes' \in [Codes -> CodeType \cup {Nil}]
      BY <3>1, <3>7
    <3> QED BY <3>4, <3>5, <3>6, <3>8
  <2>4. /\ user' \in UserType /\ sessions' \subseteq {"current", "stale"}
        /\ pc' \in [Slots -> Places] /\ req' \in [Slots -> ReqType]
        /\ pc'[s] \in {"idle", "revoke"}
        /\ \A o \in Slots : o # s => /\ pc'[o] = pc[o]
                                     /\ req'[o].op = req[o].op /\ req'[o].code = req[o].code
                                     /\ req'[o].snapshot = req[o].snapshot
    <3>1. CASE Ends(s) /\ UNCHANGED <<user, sessions>>
      BY <3>1, BlankType DEF Ends
    <3>2. CASE GoesOn(s, "revoke") /\ UNCHANGED <<user, sessions>>
      BY <3>2 DEF GoesOn
    <3>3. CASE user' = [user EXCEPT !.password = "scrambled"] /\ Rewritten(s, "revoke")
      <4>1. /\ SameRequests /\ pc' = [pc EXCEPT ![s] = "revoke"] /\ pc' \in [Slots -> Places]
            /\ sessions' \subseteq {"current", "stale"}
        BY <3>3, RewrittenRequests
      <4>2. user' \in UserType
        BY <3>3, UserFields
      <4> QED BY <4>1, <4>2 DEF SameRequests
    <3> QED BY <1>12, <3>1, <3>2, <3>3 DEF Insert
  <2>5. UNCHANGED used
    BY <1>12 DEF Insert
  <2>6. \A o \in Slots : /\ Submitting(o)' => o # s /\ Submitting(o)
                         /\ Issuing(o)' => o # s /\ Issuing(o)
                         /\ Locks(o)' => o # s /\ Locks(o)
                         /\ pc'[o] \in {"insert", "commit"} => o # s /\ pc'[o] = pc[o]
    BY <2>4 DEF Submitting, Issuing, Locks
  <2>7. CodesInv'
    <3>1. \A t \in Codes : codes'[t] # Nil => t <= issued'
      BY <1>0, <2>1, <2>3, <1>b DEF CodesInv
    <3>2. \A t \in Codes : codes[t] # Nil => codes'[t] # Nil
      BY <2>1, <2>3
    <3>3. \A o \in Slots : Submitting(o)' => req'[o].code \in Codes /\ codes'[req'[o].code] # Nil
      BY <2>4, <2>6, <3>2 DEF CodesInv
    <3>4. \A o \in Slots : Issuing(o)' => req'[o].code \in 1..issued' /\ codes'[req'[o].code] = Nil
      <4> SUFFICES ASSUME NEW o \in Slots, Issuing(o)'
                   PROVE  req'[o].code \in 1..issued' /\ codes'[req'[o].code] = Nil
        OBVIOUS
      <4>1. o # s /\ Issuing(o) /\ req'[o].code = req[o].code
        BY <2>4, <2>6
      <4>2. req[o].code \in 1..issued /\ req[o].code \in Codes /\ codes[req[o].code] = Nil
        BY <4>1 DEF CodesInv
      <4>3. req[o].code # c
        BY <1>12, <4>1 DEF CodesInv, Issuing, Insert, At
      <4>4. req[o].code \notin T
        BY <2>1, <4>2
      <4> QED BY <1>b, <2>3, <4>1, <4>2, <4>3, <4>4
    <3>5. \A o, q \in Slots : Issuing(o)' /\ Issuing(q)' /\ req'[o].code = req'[q].code => o = q
      BY <2>4, <2>6 DEF CodesInv
    <3>6. \A o \in Slots : pc'[o] = "insert" => \A t \in req'[o].snapshot : codes'[t] # Nil
      BY <2>4, <2>6, <3>2, RequestCodes DEF CodesInv
    <3> QED BY <3>1, <3>3, <3>4, <3>5, <3>6 DEF CodesInv
  <2>8. ASSUME NEW t \in Codes
        PROVE  /\ used'[t] <= 1 + aborts'
               /\ \/ used'[t] <= aborts'
                  \/ codes'[t] # Nil /\ codes'[t].consumed
                  \/ \E o \in Slots : pc'[o] = "commit" /\ req'[o].code = t
    <3>1. /\ used[t] <= 1 + aborts
          /\ \/ used[t] <= aborts
             \/ codes[t] # Nil /\ codes[t].consumed
             \/ \E o \in Slots : pc[o] = "commit" /\ req[o].code = t
      BY DEF UsedInv
    <3>2. \A o \in Slots : pc[o] = "commit" => o # s /\ codes[req[o].code] # Nil
      BY <2>1 DEF CodesInv, UsedInv, Submitting, Locks
    <3>3. CASE t = c
      BY <1>b, <2>1, <2>5, <3>1, <3>2, <3>3
    <3>4. CASE t \in T
      <4>1. codes'[t] # Nil /\ codes'[t].consumed
        BY <2>3, <3>4
      <4>2. used'[t] <= 1 + aborts'
        BY <1>b, <2>5, <3>1
      <4> QED BY <4>1, <4>2
    <3>5. CASE t # c /\ t \notin T
      BY <1>b, <2>3, <2>4, <2>5, <3>1, <3>2, <3>5
    <3> QED BY <3>3, <3>4, <3>5
  <2>9. \A o \in Slots : Locks(o)' => ~codes'[req'[o].code].consumed
    <3> SUFFICES ASSUME NEW o \in Slots, Locks(o)' PROVE ~codes'[req'[o].code].consumed
      OBVIOUS
    <3>1. Locks(o) /\ req'[o].code = req[o].code
      BY <2>4, <2>6
    <3>2. /\ req[o].code \in Codes /\ codes[req[o].code] # Nil
          /\ ~codes[req[o].code].consumed /\ req[o].code \notin T
      BY <2>2, <3>1 DEF CodesInv, Submitting, UsedInv
    <3> QED BY <2>1, <2>3, <3>1, <3>2
  <2>10. UsedInv'
    BY <2>4, <2>6, <2>8, <2>9 DEF UsedInv
  <2> HIDE DEF c, T
  <2> QED BY <1>b, <2>3, <2>4, <2>5, <2>7, <2>10
<1>13. CASE Erase(s)
  <2>1. CASE Ends(s) /\ UNCHANGED <<user, sessions>>
    <3>1. SameCodes
      BY <1>13, <2>1 DEF Erase, SameCodes
    <3> QED BY <1>13, <2>1, <3>1, EndsInv DEF Erase, At
  <2>2. CASE /\ user' = [user EXCEPT !.deleted = TRUE, !.password = "erased"]
             /\ Rewritten(s, "revoke")
    <3>1. SameCodes
      BY <1>13 DEF Erase, SameCodes
    <3>2. SameRequests /\ pc' = [pc EXCEPT ![s] = "revoke"] /\ pc' \in [Slots -> Places]
          /\ sessions' \subseteq {"current", "stale"}
      BY <2>2, RewrittenRequests
    <3>3. CodesInv' /\ UsedInv'
      BY <1>13, <2>2, <3>1, <3>2, LeavesInv DEF Erase, At
    <3>4. user' \in UserType
      BY <2>2, UserFields
    <3> QED BY <1>13, <2>2, <3>2, <3>3, <3>4 DEF Erase, SameRequests
  <2> QED BY <1>13, <2>1, <2>2 DEF Erase
<1>14. CASE Revoke(s)
  <2>1. CASE Ends(s)
    <3>1. SameCodes
      BY <1>14, <2>1 DEF Revoke, SameCodes
    <3> QED BY <1>14, <2>1, <3>1, EndsInv DEF Revoke, At
  <2>2. CASE GoesOn(s, "issue")
    <3>1. SameCodes /\ SameRequests
      BY <1>14, <2>2 DEF Revoke, SameCodes, GoesOn, SameRequests
    <3>2. CodesInv' /\ UsedInv'
      BY <1>14, <2>2, <3>1, LeavesInv DEF Revoke, At, GoesOn
    <3> QED BY <1>14, <2>2, <3>2 DEF Revoke, GoesOn
  <2> QED BY <1>14, <2>1, <2>2 DEF Revoke
<1>15. CASE Issue(s)
  <2>1. SameCodes
    BY <1>15 DEF Issue, SameCodes
  <2>2. sessions' \subseteq {"current", "stale"}
    BY <1>0, <1>15 DEF Issue
  <2> QED BY <1>15, <2>1, <2>2, EndsInv DEF Issue, At
<1> QED BY <1>1, <1>2, <1>3, <1>4, <1>5, <1>6, <1>7, <1>8, <1>9, <1>10, <1>11, <1>12, <1>13,
           <1>14, <1>15 DEF Step

\* A request that arrives finds its slot empty and holds nothing yet.
LEMMA StartsInv ==
    ASSUME Inv, NEW s \in Slots, NEW at \in Places, NEW q \in ReqType, Starts(s, at, q),
           \/ UNCHANGED issued
           \/ issued' = issued + 1 /\ issued' \in 0..MaxCodes,
           \/ at \in {"begin", "miss"} /\ q.code \in Codes /\ codes[q.code] # Nil
           \/ /\ at \in {"scramble", "configured", "invalidate"}
              /\ q.code = issued' /\ issued' = issued + 1
           \/ at \in {"issue", "erase"}
           \/ at = "rewrite" /\ q.op = "change_password"
    PROVE  Inv'
<1>1. /\ pc[s] = "idle" /\ pc'[s] = at /\ req'[s] = q
      /\ \A o \in Slots : o # s => pc'[o] = pc[o] /\ req'[o] = req[o]
      /\ pc' \in [Slots -> Places] /\ req' \in [Slots -> ReqType]
      /\ UNCHANGED <<user, codes, sessions, used, aborts>> /\ calm' \in BOOLEAN
  BY DEF Starts, At, Inv, Types
<1>2. Types'
  BY <1>1 DEF Inv, Types
<1>3. at \notin {"insert", "commit"} /\ issued \in Nat /\ issued' \in Nat /\ issued <= issued'
  BY DEF Inv, Types
<1>4. /\ \A o \in Slots : o # s => /\ Submitting(o)' <=> Submitting(o)
                                   /\ Issuing(o)' <=> Issuing(o)
                                   /\ Locks(o)' <=> Locks(o)
      /\ ~Locks(s) /\ ~Locks(s)'
  BY <1>1, <1>3 DEF Submitting, Issuing, Locks
<1>5. CodesInv'
  <2>1. \A t \in Codes : codes'[t] # Nil => t <= issued'
    BY <1>1, <1>3 DEF Inv, CodesInv
  <2>2. \A o \in Slots : Submitting(o)' => req'[o].code \in Codes /\ codes'[req'[o].code] # Nil
    <3>1. Submitting(s)' => at \in {"begin", "miss"}
      BY <1>1, <1>3 DEF Submitting, Locks
    <3> QED BY <1>1, <1>4, <3>1 DEF Inv, CodesInv
  <2>3. Issuing(s)' => req'[s].code = issued' /\ issued' = issued + 1
    BY <1>1, <1>3 DEF Issuing
  <2>4. \A o \in Slots : o # s /\ Issuing(o)' => /\ req'[o].code \in 1..issued
                                                 /\ codes'[req'[o].code] = Nil
    BY <1>1, <1>4 DEF Inv, CodesInv
  <2>5. Issuing(s)' => codes'[issued'] = Nil
    <3> SUFFICES ASSUME Issuing(s)' PROVE codes[issued + 1] = Nil
      BY <1>1, <2>3
    <3>1. issued + 1 \in Codes
      BY <2>3, <1>3 DEF Inv, Types
    <3> QED BY <1>3, <3>1 DEF Inv, CodesInv
  <2>6. \A o \in Slots : Issuing(o)' => req'[o].code \in 1..issued' /\ codes'[req'[o].code] = Nil
    BY <1>3, <2>3, <2>4, <2>5
  <2>7. \A o, p \in Slots : Issuing(o)' /\ Issuing(p)' /\ req'[o].code = req'[p].code => o = p
    <3> SUFFICES ASSUME NEW o \in Slots, NEW p \in Slots, Issuing(o)', Issuing(p)',
                        req'[o].code = req'[p].code
                 PROVE  o = p
      OBVIOUS
    <3>1. CASE o # s /\ p # s
      BY <1>1, <1>4, <3>1 DEF Inv, CodesInv
    <3>2. CASE o = s /\ p # s
      BY <1>3, <2>3, <2>4, <3>2
    <3>3. CASE o # s /\ p = s
      BY <1>3, <2>3, <2>4, <3>3
    <3> QED BY <3>1, <3>2, <3>3
  <2>8. \A o \in Slots : pc'[o] = "insert" => \A t \in req'[o].snapshot : codes'[t] # Nil
    BY <1>1, <1>3 DEF Inv, CodesInv
  <2> QED BY <2>1, <2>2, <2>6, <2>7, <2>8 DEF CodesInv
<1>6. UsedInv'
  <2>1. \A o \in Slots : Locks(o)' => Locks(o) /\ req'[o] = req[o]
    BY <1>1, <1>4
  <2>2. \A o \in Slots : pc[o] = "commit" <=> pc'[o] = "commit"
    BY <1>1, <1>3
  <2>3. \A o \in Slots : pc[o] = "commit" => req'[o] = req[o]
    BY <1>1
  <2> QED BY <1>1, <2>1, <2>2, <2>3 DEF Inv, UsedInv
<1> QED BY <1>2, <1>5, <1>6 DEF Inv

LEMMA ArriveInv == ASSUME Inv, NEW s \in Slots, Arrive(s) PROVE Inv'
<1>1. ASSUME NEW op \in Submissions, NEW right \in BOOLEAN, Submit(s, op, right) PROVE Inv'
  <2>1. PICK t \in FindActive(Purpose(op)) :
             Starts(s, IF right THEN "begin" ELSE "miss", [Request(op) EXCEPT !.code = t])
    BY <1>1 DEF Submit
  <2>2. t \in Codes /\ codes[t] # Nil
    BY <2>1 DEF FindActive, Open
  <2>3. /\ [Request(op) EXCEPT !.code = t] \in ReqType
        /\ [Request(op) EXCEPT !.code = t].code = t
    <3>1. op \in AllSubmissions /\ t \in 0..MaxCodes
      BY <2>2 DEF AllSubmissions
    <3> QED BY <3>1, RequestType
  <2> DEFINE at == IF right THEN "begin" ELSE "miss"
  <2>4. at \in {"begin", "miss"} /\ at \in Places
    OBVIOUS
  <2>5. UNCHANGED issued
    BY <1>1 DEF Submit
  <2> HIDE DEF at
  <2> QED BY <2>1, <2>2, <2>3, <2>4, <2>5, StartsInv DEF at
<1>2. ASSUME NEW op \in Issuances, BeginIssue(s, op) PROVE Inv'
  <2> DEFINE at == CASE op = "admin_reset"   -> "scramble"
                     [] op = "request_reset" -> "configured"
                     [] OTHER                -> "invalidate"
  <2>1. /\ Starts(s, at, [Request(op) EXCEPT !.code = issued + 1])
        /\ issued < MaxCodes /\ issued' = issued + 1
    BY <1>2 DEF BeginIssue
  <2>2. issued' \in 0..MaxCodes /\ issued + 1 \in 0..MaxCodes
    BY <2>1 DEF Inv, Types
  <2>3. /\ [Request(op) EXCEPT !.code = issued + 1] \in ReqType
        /\ [Request(op) EXCEPT !.code = issued + 1].code = issued + 1
    <3>1. op \in AllSubmissions
      BY DEF AllSubmissions
    <3> QED BY <2>2, <3>1, RequestType
  <2>4. at \in {"scramble", "configured", "invalidate"} /\ at \in Places
    OBVIOUS
  <2> HIDE DEF at
  <2> QED BY <2>1, <2>2, <2>3, <2>4, StartsInv
<1>3. ASSUME Login(s) PROVE Inv'
  <2>1. Request("login") \in ReqType
    BY RequestType DEF AllSubmissions, Others
  <2> QED BY <1>3, <2>1, StartsInv DEF Login
<1>4. ASSUME ChangePassword(s) PROVE Inv'
  <2>1. Request("change_password") \in ReqType /\ Request("change_password").op = "change_password"
    BY RequestType DEF AllSubmissions, Others
  <2> QED BY <1>4, <2>1, StartsInv DEF ChangePassword
<1>5. ASSUME NEW op \in {"delete", "admin_delete"}, Delete(s, op) PROVE Inv'
  <2>1. Request(op) \in ReqType
    BY RequestType DEF AllSubmissions, Others
  <2> QED BY <1>5, <2>1, StartsInv DEF Delete
<1> QED BY <1>1, <1>2, <1>3, <1>4, <1>5 DEF Arrive

LEMMA NextInv == Inv /\ [Next]_vars => Inv'
<1> SUFFICES ASSUME Inv, [Next]_vars PROVE Inv'
  OBVIOUS
<1>1. ASSUME NEW s \in Slots, Abort(s) PROVE Inv'
  <2>1. SameCodes
    BY <1>1 DEF Abort, SameCodes
  <2>2. aborts' = aborts + 1 /\ aborts' \in 0..MaxAborts
    BY <1>1 DEF Abort, Inv, Types
  <2>3. CodesInv' /\ UsedInv' /\ pc' \in [Slots -> Places] /\ req' \in [Slots -> ReqType]
    BY <1>1, <2>1, <2>2, EndsInv DEF Abort
  <2> QED BY <1>1, <2>2, <2>3 DEF Abort, Inv, Types
<1>2. ASSUME NEW t \in Codes, Expire(t) PROVE Inv'
  <2>1. codes[t] \in CodeType
    BY <1>2 DEF Expire, Inv, Types
  <2>2. /\ codes' = [codes EXCEPT ![t] = [codes[t] EXCEPT !.expired = TRUE]]
        /\ UNCHANGED <<user, sessions, issued, pc, req, used, calm, aborts>>
    BY <1>2 DEF Expire
  <2>3. /\ [codes[t] EXCEPT !.expired = TRUE] \in CodeType
        /\ [codes[t] EXCEPT !.expired = TRUE].consumed = codes[t].consumed
    BY <2>1, CodeFields
  <2>4. codes' \in [Codes -> CodeType \cup {Nil}] /\ SameCodes
    BY <2>1, <2>2, <2>3 DEF SameCodes, Inv, Types
  <2>5. Types'
    BY <2>2, <2>4 DEF Inv, Types
  <2>6. CodesInv'
    BY <2>2, <2>4, RequestCodes DEF SameCodes, Inv, CodesInv, Submitting, Issuing, Locks
  <2>7. UsedInv'
    BY <2>2, <2>4, RequestCodes DEF SameCodes, Inv, UsedInv, Locks
  <2> QED BY <2>5, <2>6, <2>7 DEF Inv
<1>3. ASSUME NEW kind \in {"current", "stale"}, Logout(kind) PROVE Inv'
  <2>1. Types' /\ UNCHANGED <<codes, issued, pc, req, used, aborts>>
    BY <1>3 DEF Logout, Inv, Types
  <2> QED BY <2>1 DEF Inv, CodesInv, UsedInv, Submitting, Issuing, Locks
<1>4. CASE UNCHANGED vars
  BY <1>4 DEF vars, Inv, Types, CodesInv, UsedInv, Submitting, Issuing, Locks
<1> QED BY <1>1, <1>2, <1>3, <1>4, StepInv, ArriveInv DEF Next

\* The inductive invariant holds in every reachable state of the account.
THEOREM Inductive == Spec => []Inv
BY InitInv, NextInv, PTL DEF Spec

\* The variables of an account keep their types.
THEOREM Typed == Spec => []TypeOK
<1>1. Inv => TypeOK
  BY TypesAreTypeOK DEF Inv
<1> QED BY <1>1, Inductive, PTL

\* A code takes effect once, and once more at most for each request that failed
\* half-way (repo/verification.go:81-95).
THEOREM CodesWorkOnce == Spec => []CodeOnce
<1>1. Inv => CodeOnce
  BY DEF Inv, UsedInv, CodeOnce
<1> QED BY <1>1, Inductive, PTL

-----------------------------------------------------------------------------
\* Nothing gives a deleted account a password back, or verifies it
\* (deleted_at IS NULL in every update of repo/user.go).
THEOREM DeletedStaysDeleted == Spec => DeletedIsFinal
<1>1. ASSUME Inv, [Next]_vars, user.deleted PROVE user' = user
  <2>1. user \in UserType
    BY <1>1 DEF Inv, Types
  <2>2. ASSUME NEW s \in Slots, Step(s) PROVE user' = user
    <3>1. CASE ConsumeVerify(s)
      <4>1. (user.verified \/ ~user.deleted) = user.verified
        BY <1>1, <2>1, UserFields, Zenon
      <4> QED BY <2>1, <3>1, <4>1, UserFields DEF ConsumeVerify
    <3>2. CASE ~ConsumeVerify(s)
      BY <1>1, <2>2, <3>2 DEF Step, Miss, Begin, ConsumeFails, ConsumeChange, ConsumeReset,
         Rewrite, CommitReset, Scramble, Configured, Invalidate, Insert, Erase, Revoke, Issue
    <3> QED BY <3>1, <3>2
  <2>3. ASSUME NEW s \in Slots, Arrive(s) \/ Abort(s) PROVE user' = user
    BY <2>3 DEF Arrive, Submit, BeginIssue, Login, ChangePassword, Delete, Starts, Abort
  <2>4. ASSUME UNCHANGED vars PROVE user' = user
    BY <2>4 DEF vars
  <2> QED BY <1>1, <2>2, <2>3, <2>4 DEF Next, Expire, Logout
<1>2. Inv /\ [Next]_vars => [user.deleted => user' = user]_user
  BY <1>1
<1> QED BY <1>2, Inductive, PTL DEF Spec, DeletedIsFinal

-----------------------------------------------------------------------------
(* Attempts *)

\* The slots that are about to count a wrong submission of t.
Missing(t) == {s \in Slots : pc[s] = "miss" /\ req[s].code = t}

\* A wrong submission was let through before the limit: what is counted and what
\* is about to be stays one for each slot above it.
MissInv == \A t \in Codes : codes[t] # Nil =>
               codes[t].attempts + Cardinality(Missing(t)) < MaxAttempts + Cardinality(Slots)

LEMMA MissingIsFinite ==
    ASSUME NEW S, S \subseteq Slots
    PROVE  IsFiniteSet(S) /\ Cardinality(S) \in Nat /\ Cardinality(S) <= Cardinality(Slots)
           /\ Cardinality(Slots) \in Nat
BY FS_Subset, FS_CardinalityType

\* What no step but a wrong submission and its count does.
NoMore(t) ==
    /\ Missing(t)' \subseteq Missing(t)
    /\ codes'[t] # Nil => \/ codes[t] # Nil /\ codes'[t].attempts = codes[t].attempts
                          \/ codes'[t].attempts = 0

LEMMA NoMoreAttempts ==
    ASSUME Inv, NEW s \in Slots, Step(s), ~Miss(s), NEW t \in Codes
    PROVE  NoMore(t)
<1>0. codes[t] # Nil => codes[t] \in CodeType
  BY DEF Inv, Types
<1>1. codes'[t] # Nil => \/ codes[t] # Nil /\ codes'[t].attempts = codes[t].attempts
                         \/ codes'[t].attempts = 0
  <2>1. CASE UNCHANGED codes
    <3>1. codes[t] # Nil \/ codes'[t] = Nil
      BY <2>1
    <3> QED BY <2>1, <3>1
  <2>2. CASE Consumed(s) /\ Submitting(s)
    <3>1. req[s].code \in Codes /\ codes[req[s].code] \in CodeType
      BY <2>2 DEF Inv, Types, CodesInv
    <3>2. codes' = [codes EXCEPT ![req[s].code] = [codes[req[s].code] EXCEPT !.consumed = TRUE]]
      BY <2>2 DEF Consumed
    <3>3. \A c \in CodeType : [c EXCEPT !.consumed = TRUE].attempts = c.attempts
      BY DEF CodeType
    <3> QED BY <3>1, <3>2, <3>3 DEF Inv, Types
  <2>3. CASE Insert(s)
    <3>1. codes'[t] = CASE t = req[s].code       -> Code(Purpose(req[s].op))
                        [] t \in req[s].snapshot -> [codes[t] EXCEPT !.consumed = TRUE]
                        [] OTHER                 -> codes[t]
      BY <2>3 DEF Insert
    <3>2. CASE t = req[s].code
      <4>0. t \notin req[s].snapshot
        BY <2>3, <3>2 DEF Insert, At, Issuing, Inv, CodesInv
      <4>1. codes'[t] = Code(Purpose(req[s].op))
        BY <3>1, <3>2, <4>0
      <4>2. \A p : Code(p).attempts = 0
        BY DEF Code
      <4> QED BY <4>1, <4>2
    <3>3. CASE t # req[s].code /\ t \in req[s].snapshot
      <4>1. codes'[t] = [codes[t] EXCEPT !.consumed = TRUE]
        BY <3>1, <3>3
      <4>2. codes[t] # Nil
        BY <2>3, <3>3 DEF Insert, At, Inv, CodesInv
      <4>3. \A c \in CodeType : [c EXCEPT !.consumed = TRUE].attempts = c.attempts
        BY DEF CodeType
      <4> QED BY <1>0, <4>1, <4>2, <4>3
    <3>4. CASE t # req[s].code /\ t \notin req[s].snapshot
      <4>1. codes'[t] = codes[t]
        BY <3>1, <3>4
      <4> QED BY <4>1
    <3> QED BY <3>2, <3>3, <3>4
  <2>4. UNCHANGED codes \/ (Consumed(s) /\ Submitting(s)) \/ Insert(s)
    <3>1. CASE CommitReset(s)
      BY <3>1 DEF CommitReset, At, Submitting, Locks, Inv, UsedInv
    <3>2. CASE ~CommitReset(s)
      BY <3>2 DEF Step, Begin, ConsumeFails, ConsumeVerify, ConsumeChange, ConsumeReset, Rewrite,
         At, Submitting, Scramble, Configured, Invalidate, Erase, Revoke, Issue
    <3> QED BY <3>1, <3>2
  <2> QED BY <2>1, <2>2, <2>3, <2>4
<1>2. \A o \in Slots : pc'[o] = "miss" => o # s /\ pc[o] = "miss" /\ req'[o].code = req[o].code
  <2>1. CASE Ends(s)
    BY <2>1 DEF Ends, Inv, Types
  <2>2. CASE \E at \in Places \ {"miss"} : GoesOn(s, at)
    BY <2>2 DEF GoesOn, Inv, Types
  <2>3. CASE \E at \in {"revoke", "commit"} : Rewritten(s, at)
    <3>1. PICK at \in {"revoke", "commit"} : Rewritten(s, at)
      BY <2>3
    <3>2. SameRequests /\ pc' = [pc EXCEPT ![s] = at]
      BY <3>1, RewrittenRequests
    <3> QED BY <3>2 DEF SameRequests, Inv, Types
  <2>4. CASE Invalidate(s)
    BY <2>4 DEF Invalidate, Inv, Types
  <2> QED BY <2>1, <2>2, <2>3, <2>4 DEF Step, Begin, ConsumeFails, ConsumeVerify, ConsumeChange,
         ConsumeReset, Rewrite, CommitReset, Scramble, Configured, Insert, Erase, Revoke, Issue
<1> QED BY <1>1, <1>2 DEF NoMore, Missing

\* However many wrong submissions race with the count, each slot adds one at
\* most (service/verification.go:74-78, 289-293, 471-475).
THEOREM AttemptsAreBounded == Spec => []AttemptsBounded
<1>0. \A t : Missing(t) \subseteq Slots
  BY DEF Missing
<1>1. Init => MissInv
  <2> SUFFICES ASSUME Init, NEW t \in Codes, codes[t] # Nil
               PROVE  codes[t].attempts + Cardinality(Missing(t)) < MaxAttempts + Cardinality(Slots)
    BY DEF MissInv
  <2>1. codes[t].attempts = 0
    BY DEF Init, Code
  <2> QED BY <1>0, <2>1, MissingIsFinite
<1>2. Inv /\ MissInv /\ [Next]_vars => MissInv'
  <2> SUFFICES ASSUME Inv, MissInv, [Next]_vars, NEW t \in Codes, codes'[t] # Nil
               PROVE  codes'[t].attempts + Cardinality(Missing(t)') < MaxAttempts + Cardinality(Slots)
    BY DEF MissInv
  <2>0. codes[t] # Nil => codes[t] \in CodeType /\ codes[t].attempts \in Nat
    <3>1. codes[t] # Nil => codes[t] \in CodeType
      BY DEF Inv, Types
    <3> QED BY <3>1, CodeFields
  <2>1. Missing(t)' \subseteq Slots
    BY DEF Missing
  <2>2. ASSUME NoMore(t)
        PROVE  codes'[t].attempts + Cardinality(Missing(t)') < MaxAttempts + Cardinality(Slots)
    <3>1. CASE codes[t] # Nil /\ codes'[t].attempts = codes[t].attempts
      <4>1. Cardinality(Missing(t)') <= Cardinality(Missing(t)) /\ Cardinality(Missing(t)') \in Nat
            /\ Cardinality(Missing(t)) \in Nat
        BY <1>0, <2>2, MissingIsFinite, FS_Subset DEF NoMore
      <4>2. Cardinality(Slots) \in Nat
        BY MissingIsFinite
      <4> QED BY <2>0, <3>1, <4>1, <4>2 DEF MissInv
    <3>2. CASE codes'[t].attempts = 0
      BY <2>1, <3>2, MissingIsFinite
    <3> QED BY <2>2, <3>1, <3>2 DEF NoMore
  <2>3. ASSUME NEW s \in Slots, Miss(s)
        PROVE  codes'[t].attempts + Cardinality(Missing(t)') < MaxAttempts + Cardinality(Slots)
    <3>1. /\ req[s].code \in Codes /\ codes[req[s].code] \in CodeType /\ pc[s] = "miss"
      BY <2>3 DEF Miss, At, Inv, Types, CodesInv, Submitting
    <3>2. \A o \in Slots : pc'[o] = "miss" <=> o # s /\ pc[o] = "miss"
      BY <2>3 DEF Miss, Ends, Inv, Types
    <3>3. \A o \in Slots : o # s => req'[o] = req[o]
      BY <2>3 DEF Miss, Ends, Inv, Types
    <3>4. CASE t = req[s].code
      <4>1. Missing(t)' = Missing(t) \ {s} /\ s \in Missing(t)
        BY <3>1, <3>2, <3>3, <3>4 DEF Missing
      <4>2. Cardinality(Missing(t)') = Cardinality(Missing(t)) - 1
        BY <1>0, <4>1, MissingIsFinite, FS_RemoveElement
      <4>3. codes'[t].attempts = codes[t].attempts + 1
        <5>1. codes' = [codes EXCEPT ![t] = [codes[t] EXCEPT !.attempts = codes[t].attempts + 1]]
          BY <2>3, <3>4 DEF Miss
        <5>2. \A c \in CodeType : [c EXCEPT !.attempts = c.attempts + 1].attempts = c.attempts + 1
          BY DEF CodeType
        <5> QED BY <3>1, <3>4, <5>1, <5>2 DEF Inv, Types
      <4>4. Cardinality(Missing(t)) \in Nat /\ Cardinality(Slots) \in Nat /\ codes[t] # Nil
        BY <1>0, <3>1, <3>4, MissingIsFinite
      <4> QED BY <2>0, <4>2, <4>3, <4>4 DEF MissInv
    <3>5. CASE t # req[s].code
      <4>1. codes'[t] = codes[t]
        BY <2>3, <3>5 DEF Miss, Inv, Types
      <4>2. Missing(t)' \subseteq Missing(t)
        BY <3>2, <3>3 DEF Missing
      <4> QED BY <2>2, <4>1, <4>2 DEF NoMore
    <3> QED BY <3>4, <3>5
  <2>4. ASSUME NEW s \in Slots, NEW op \in Submissions, NEW right \in BOOLEAN, Submit(s, op, right)
        PROVE  codes'[t].attempts + Cardinality(Missing(t)') < MaxAttempts + Cardinality(Slots)
    <3>1. PICK c \in FindActive(Purpose(op)) :
               /\ codes[c].attempts < MaxAttempts
               /\ Starts(s, IF right THEN "begin" ELSE "miss", [Request(op) EXCEPT !.code = c])
      BY <2>4 DEF Submit
    <3>2. c \in Codes /\ UNCHANGED codes
      BY <3>1 DEF FindActive, Open, Starts
    <3>3. CASE t = c
      <4>1. codes[t].attempts < MaxAttempts /\ codes'[t] = codes[t]
        BY <3>1, <3>2, <3>3
      <4>2. Cardinality(Missing(t)') \in Nat /\ Cardinality(Missing(t)') <= Cardinality(Slots)
            /\ Cardinality(Slots) \in Nat
        BY <2>1, MissingIsFinite
      <4>3. codes[t].attempts \in Nat
        BY <2>0, <3>2
      <4> QED BY <4>1, <4>2, <4>3
    <3>4. CASE t # c
      <4>1. [Request(op) EXCEPT !.code = c].code = c
        <5>1. op \in AllSubmissions /\ c \in 0..MaxCodes
          BY <3>2 DEF AllSubmissions
        <5> QED BY <5>1, RequestType
      <4>2. \A o \in Slots : pc'[o] = "miss" /\ req'[o].code = t => pc[o] = "miss" /\ req[o].code = t
        BY <3>1, <3>4, <4>1 DEF Starts, Inv, Types
      <4>3. Missing(t)' \subseteq Missing(t)
        BY <4>2 DEF Missing
      <4>4. codes'[t] = codes[t]
        BY <3>2
      <4> QED BY <2>2, <4>3, <4>4 DEF NoMore
    <3> QED BY <3>3, <3>4
  <2>5. ASSUME NEW s \in Slots, NEW at \in {"scramble", "configured", "invalidate", "issue", "rewrite", "erase"},
               NEW q, Starts(s, at, q)
        PROVE  NoMore(t)
    BY <2>5 DEF Starts, NoMore, Missing, Inv, Types
  <2>6. ASSUME NEW s \in Slots, Abort(s) PROVE NoMore(t)
    BY <2>6 DEF Abort, Ends, NoMore, Missing, Inv, Types
  <2>7. ASSUME NEW e \in Codes, Expire(e) PROVE NoMore(t)
    <3>1. codes' = [codes EXCEPT ![e] = [codes[e] EXCEPT !.expired = TRUE]] /\ UNCHANGED <<pc, req>>
          /\ codes[e] \in CodeType
      BY <2>7 DEF Expire, Inv, Types
    <3>2. \A c \in CodeType : [c EXCEPT !.expired = TRUE].attempts = c.attempts
      BY DEF CodeType
    <3>3. codes'[t] # Nil => codes[t] # Nil /\ codes'[t].attempts = codes[t].attempts
      BY <3>1, <3>2 DEF Inv, Types
    <3> QED BY <3>1, <3>3 DEF NoMore, Missing
  <2>8. ASSUME UNCHANGED <<codes, pc, req>> PROVE NoMore(t)
    BY <2>8 DEF NoMore, Missing
  <2>9. ASSUME NEW s \in Slots, Arrive(s)
        PROVE  codes'[t].attempts + Cardinality(Missing(t)') < MaxAttempts + Cardinality(Slots)
    BY <2>2, <2>4, <2>5, <2>9 DEF Arrive, BeginIssue, Login, ChangePassword, Delete
  <2> QED BY <2>2, <2>3, <2>6, <2>7, <2>8, <2>9, NoMoreAttempts DEF Next, Logout, vars
<1>3. Inv /\ MissInv => AttemptsBounded
  <2> SUFFICES ASSUME Inv, MissInv, NEW t \in Codes, codes[t] # Nil
               PROVE  codes[t].attempts < MaxAttempts + Cardinality(Slots)
    BY DEF AttemptsBounded
  <2>1. codes[t].attempts \in Nat
    <3>1. codes[t] \in CodeType
      BY DEF Inv, Types
    <3> QED BY <3>1, CodeFields
  <2>2. Cardinality(Missing(t)) \in Nat /\ Cardinality(Slots) \in Nat
    BY <1>0, MissingIsFinite
  <2> QED BY <2>1, <2>2 DEF MissInv
<1> QED BY <1>1, <1>2, <1>3, Inductive, PTL DEF Spec

-----------------------------------------------------------------------------
(* Requests that do not overlap *)

\* One request at most is under way.
OneRequest == \A s, o \in Slots : pc[s] = "idle" \/ pc[o] = "idle" \/ s = o

\* Each purpose has one open code at most.
OneOpen == \A purpose \in Purposes : \A t, o \in Open(purpose) : t = o

Deletions == {"delete", "admin_delete"}

\* What a request that is alone knows of the account where it is: the account is
\* there unless it has deleted it, and the codes it invalidates are the open ones.
Knows(at, r) ==
    at # "idle" =>
        /\ r.session = "current"
        /\ user.deleted => at = "revoke" /\ r.op \in Deletions
        /\ at = "erase" => r.op \in Deletions
        /\ at = "insert" => r.snapshot = Open(Purpose(r.op))

\* Sessions that know an older password, or are of a deleted account, are about
\* to be revoked.
Order ==
    /\ OneRequest /\ OneOpen
    /\ "stale" \in sessions => \E s \in Slots : pc[s] \in {"commit", "revoke"}
    /\ user.deleted /\ sessions # {} => \E s \in Slots : pc[s] = "revoke"
    /\ \A s \in Slots : Knows(pc[s], req[s])

CalmInv == (user.deleted => user.password = "erased") /\ (calm => Order)

\* A step of the only request keeps the order if it does so where it goes.
LEMMA AloneStays ==
    ASSUME Order, NEW s \in Slots, pc[s] # "idle",
           \A o \in Slots \ {s} : pc'[o] = pc[o],
           OneOpen',
           "stale" \in sessions' => pc'[s] \in {"commit", "revoke"},
           user'.deleted /\ sessions' # {} => pc'[s] = "revoke",
           Knows(pc[s], req[s])'
    PROVE  Order'
<1>1. \A o \in Slots \ {s} : pc'[o] = "idle"
  BY DEF Order, OneRequest
<1>2. OneRequest'
  BY <1>1 DEF OneRequest
<1>3. ASSUME NEW o \in Slots PROVE Knows(pc[o], req[o])'
  <2>1. CASE o = s
    BY <2>1
  <2>2. CASE o # s
    BY <1>1, <2>2 DEF Knows
  <2> QED BY <2>1, <2>2
<1> QED BY <1>2, <1>3 DEF Order

\* What the only request finds: it is the one that is about to revoke, if any.
LEMMA AloneFinds ==
    ASSUME Order, NEW s \in Slots, pc[s] # "idle"
    PROVE  /\ "stale" \in sessions => pc[s] \in {"commit", "revoke"}
           /\ user.deleted /\ sessions # {} => pc[s] = "revoke"
           /\ Knows(pc[s], req[s]) /\ OneOpen
BY DEF Order, OneRequest

\* Updates of a code that do not issue it open none.
LEMMA NoneOpened ==
    ASSUME OneOpen,
           \A t \in Codes : codes'[t] # Nil /\ ~codes'[t].consumed =>
               codes[t] # Nil /\ ~codes[t].consumed /\ codes'[t].purpose = codes[t].purpose
    PROVE  OneOpen'
<1>1. \A purpose \in Purposes : Open(purpose)' \subseteq Open(purpose)
  BY DEF Open
<1> QED BY <1>1 DEF OneOpen

\* A new account has no two codes and no session too many.
LEMMA InitCalm == Init => CalmInv
<1> SUFFICES ASSUME Init PROVE CalmInv
  OBVIOUS
<1>1. ~user.deleted /\ "stale" \notin sessions
  BY DEF Init
<1>2. OneOpen
  BY DEF Init, OneOpen, Open
<1>3. OneRequest /\ \A s \in Slots : Knows(pc[s], req[s])
  BY DEF Init, OneRequest, Knows
<1> QED BY <1>1, <1>2, <1>3 DEF CalmInv, Order

\* A request that arrives alone knows the account as it is.
LEMMA StartsCalm ==
    ASSUME Inv, CalmInv, NEW s \in Slots, NEW at \in Places \ {"idle", "insert"}, NEW q \in ReqType,
           Starts(s, at, q), q.session = "current", ~user.deleted,
           at = "erase" => q.op \in Deletions
    PROVE  CalmInv'
<1>1. /\ pc[s] = "idle" /\ pc'[s] = at /\ req'[s] = q
      /\ \A o \in Slots : o # s => pc'[o] = pc[o]
      /\ UNCHANGED <<user, codes, sessions>>
  BY DEF Starts, At, Inv, Types
<1>2. ASSUME calm' PROVE Order'
  <2>1. Order /\ \A o \in Slots \ {s} : pc'[o] = "idle" /\ pc[o] = "idle"
    BY <1>1, <1>2 DEF Starts, CalmInv
  <2>2. "stale" \notin sessions
    BY <1>1, <2>1 DEF Order
  <2>3. OneRequest' /\ OneOpen'
    BY <1>1, <2>1 DEF OneRequest, Order, OneOpen, Open
  <2>4. Knows(pc[s], req[s])'
    BY <1>1 DEF Knows
  <2>5. \A o \in Slots : Knows(pc[o], req[o])'
    BY <2>1, <2>4 DEF Knows
  <2> QED BY <1>1, <2>2, <2>3, <2>5 DEF Order
<1> QED BY <1>1, <1>2 DEF CalmInv

\* Every request that arrives finds an account that is not deleted.
LEMMA ArriveCalm == ASSUME Inv, CalmInv, NEW s \in Slots, Arrive(s) PROVE CalmInv'
<1>0. user \in UserType /\ (user.password = "chosen" => ~user.deleted)
  BY DEF Inv, Types, CalmInv
<1>9. ASSUME NEW op \in AllSubmissions, NEW t \in 0..MaxCodes
      PROVE  /\ Request(op) \in ReqType /\ Request(op).session = "current" /\ Request(op).op = op
             /\ [Request(op) EXCEPT !.code = t] \in ReqType
             /\ [Request(op) EXCEPT !.code = t].session = "current"
  <2>1. Request(op) = [op |-> op, code |-> 0, session |-> "current", snapshot |-> {}]
    BY DEF Request, Blank
  <2> QED BY <2>1, RequestType
<1>1. ASSUME NEW op \in Submissions, NEW right \in BOOLEAN, Submit(s, op, right) PROVE CalmInv'
  <2>1. PICK t \in FindActive(Purpose(op)) :
             Starts(s, IF right THEN "begin" ELSE "miss", [Request(op) EXCEPT !.code = t])
    BY <1>1 DEF Submit
  <2>2. op \in AllSubmissions /\ t \in 0..MaxCodes
    BY <2>1 DEF FindActive, Open, AllSubmissions
  <2>3. ~user.deleted
    BY <1>1 DEF Submit, MaySubmit, Authenticated, Submissions
  <2> DEFINE at == IF right THEN "begin" ELSE "miss"
  <2>4. at \in Places \ {"idle", "insert", "erase"}
    OBVIOUS
  <2> HIDE DEF at
  <2> QED BY <1>9, <2>1, <2>2, <2>3, <2>4, StartsCalm DEF at
<1>2. ASSUME NEW op \in Issuances, BeginIssue(s, op) PROVE CalmInv'
  <2> DEFINE at == CASE op = "admin_reset"   -> "scramble"
                     [] op = "request_reset" -> "configured"
                     [] OTHER                -> "invalidate"
  <2>1. Starts(s, at, [Request(op) EXCEPT !.code = issued + 1]) /\ issued < MaxCodes
    BY <1>2 DEF BeginIssue
  <2>2. op \in AllSubmissions /\ issued + 1 \in 0..MaxCodes
    BY <2>1 DEF AllSubmissions, Inv, Types
  <2>3. ~user.deleted
    BY <1>2 DEF BeginIssue, MayIssue, Authenticated, Issuances
  <2>4. at \in Places \ {"idle", "insert", "erase"}
    OBVIOUS
  <2> HIDE DEF at
  <2> QED BY <1>9, <2>1, <2>2, <2>3, <2>4, StartsCalm
<1>3. ASSUME Login(s) \/ ChangePassword(s) PROVE CalmInv'
  <2>1. /\ {"login", "change_password"} \subseteq AllSubmissions
        /\ {"issue", "rewrite"} \subseteq Places \ {"idle", "insert", "erase"}
    BY DEF AllSubmissions, Others
  <2>2. 0 \in 0..MaxCodes
    OBVIOUS
  <2> QED BY <1>0, <1>3, <1>9, <2>1, <2>2, StartsCalm DEF Login, ChangePassword
<1>4. ASSUME NEW op \in {"delete", "admin_delete"}, Delete(s, op) PROVE CalmInv'
  <2>1. op \in AllSubmissions /\ op \in Deletions /\ 0 \in 0..MaxCodes
    BY DEF AllSubmissions, Others, Deletions
  <2>2. Starts(s, "erase", Request(op)) /\ ~user.deleted
    BY <1>4 DEF Delete, Authenticated
  <2>3. "erase" \in Places \ {"idle", "insert"}
    OBVIOUS
  <2> QED BY <1>9, <2>1, <2>2, <2>3, StartsCalm
<1> QED BY <1>1, <1>2, <1>3, <1>4 DEF Arrive

\* A request that is alone ends where no session is about to be revoked.
LEMMA EndsCalm ==
    ASSUME Inv, Order, NEW s \in Slots, pc[s] \notin {"idle", "commit", "revoke"}, Ends(s),
           UNCHANGED <<user, sessions>>, OneOpen'
    PROVE  Order'
<1>1. pc'[s] = "idle" /\ \A o \in Slots \ {s} : pc'[o] = pc[o]
  BY DEF Ends, Inv, Types
<1>2. "stale" \notin sessions' /\ ~(user'.deleted /\ sessions' # {})
  BY AloneFinds
<1>3. Knows(pc[s], req[s])'
  BY <1>1 DEF Knows
<1> QED BY <1>1, <1>2, <1>3, AloneStays

\* A request that is alone goes on without writing a password or a session.
LEMMA GoesOnCalm ==
    ASSUME Inv, Order, NEW s \in Slots, NEW at \in Places \ {"idle", "insert", "erase"},
           pc[s] # "idle", pc[s] \in {"commit", "revoke"} => at = "revoke",
           GoesOn(s, at), user'.deleted = user.deleted, UNCHANGED sessions, OneOpen'
    PROVE  Order'
<1>1. pc'[s] = at /\ req' = req /\ \A o \in Slots \ {s} : pc'[o] = pc[o]
  BY DEF GoesOn, Inv, Types
<1>2. Knows(pc[s], req[s])'
  BY <1>1, AloneFinds DEF Knows
<1> QED BY <1>1, <1>2, AloneFinds, AloneStays

\* A password is set by a request that is alone: it is about to revoke the rest.
LEMMA RewrittenCalm ==
    ASSUME Inv, Order, NEW s \in Slots, NEW at \in {"commit", "revoke"},
           pc[s] # "idle", Rewritten(s, at),
           user'.deleted => at = "revoke" /\ req[s].op \in Deletions, OneOpen'
    PROVE  Order'
<1>1. pc'[s] = at /\ \A o \in Slots \ {s} : pc'[o] = pc[o]
  BY DEF Rewritten, Inv, Types
<1>2. req'[s] = [req[s] EXCEPT !.session = "current"] /\ req[s] \in ReqType
  BY DEF Rewritten, Inv, Types
<1>3. req'[s].session = "current" /\ req'[s].op = req[s].op
  BY <1>2 DEF ReqType
<1>4. Knows(pc[s], req[s])'
  BY <1>1, <1>3 DEF Knows
<1> QED BY <1>1, <1>4, AloneFinds, AloneStays

\* An insert opens one code where it closes those it has seen.
LEMMA InsertCalm ==
    ASSUME Inv, Order, NEW s \in Slots, Insert(s)
    PROVE  Order'
<1>1. pc[s] = "insert" /\ Knows("insert", req[s]) /\ OneOpen
  BY AloneFinds DEF Insert, At
<1>2. /\ ~user.deleted /\ req[s].snapshot = Open(Purpose(req[s].op))
  BY <1>1 DEF Knows, Deletions
<1>3. \A t \in Codes : codes[t] # Nil => codes[t] \in CodeType
  BY DEF Inv, Types
<1>4. /\ \A t \in req[s].snapshot \ {req[s].code} : codes'[t] = [codes[t] EXCEPT !.consumed = TRUE]
      /\ \A t \in Codes \ (req[s].snapshot \cup {req[s].code}) : codes'[t] = codes[t]
      /\ req[s].code \in Codes => codes'[req[s].code] = Code(Purpose(req[s].op))
  <2>1. req[s].snapshot \subseteq Codes /\ req[s].code \notin req[s].snapshot
    BY <1>1, <1>2 DEF Open, Inv, CodesInv, Issuing
  <2>2. codes' = [t \in Codes |->
                    CASE t = req[s].code        -> Code(Purpose(req[s].op))
                      [] t \in req[s].snapshot  -> [codes[t] EXCEPT !.consumed = TRUE]
                      [] OTHER                  -> codes[t]]
    BY DEF Insert
  <2>3. ASSUME NEW t \in Codes
        PROVE  /\ t = req[s].code => codes'[t] = Code(Purpose(req[s].op))
               /\ t # req[s].code /\ t \in req[s].snapshot
                     => codes'[t] = [codes[t] EXCEPT !.consumed = TRUE]
               /\ t # req[s].code /\ t \notin req[s].snapshot => codes'[t] = codes[t]
    <3>1. codes'[t] = CASE t = req[s].code        -> Code(Purpose(req[s].op))
                        [] t \in req[s].snapshot  -> [codes[t] EXCEPT !.consumed = TRUE]
                        [] OTHER                  -> codes[t]
      BY <2>2, <2>3, Zenon
    <3>2. CASE t = req[s].code
      BY <2>1, <3>1, <3>2
    <3>3. CASE t # req[s].code /\ t \in req[s].snapshot
      BY <3>1, <3>3
    <3>4. CASE t # req[s].code /\ t \notin req[s].snapshot
      BY <3>1, <3>4
    <3> QED BY <3>2, <3>3, <3>4
  <2> QED BY <2>1, <2>3
<1>5. Code(Purpose(req[s].op)).purpose = Purpose(req[s].op)
  BY DEF Code
<1>6. \A t \in req[s].snapshot \ {req[s].code} : codes'[t].consumed
  <2> SUFFICES ASSUME NEW t \in req[s].snapshot \ {req[s].code} PROVE codes'[t].consumed
    OBVIOUS
  <2>1. codes[t] \in CodeType
    BY <1>2, <1>3 DEF Open
  <2>2. [codes[t] EXCEPT !.consumed = TRUE].consumed
    BY <2>1, CodeFields
  <2> QED BY <1>4, <2>2, Zenon
<1>7. \A t \in Codes \ {req[s].code} :
          codes'[t] # Nil /\ ~codes'[t].consumed => codes'[t] = codes[t] /\ t \notin req[s].snapshot
  BY <1>4, <1>6
<1>8. OneOpen'
  <2> SUFFICES ASSUME NEW purpose \in Purposes, NEW t \in Open(purpose)', NEW o \in Open(purpose)'
               PROVE  t = o
    BY DEF OneOpen
  <2>1. /\ t \in Codes /\ codes'[t] # Nil /\ codes'[t].purpose = purpose /\ ~codes'[t].consumed
        /\ o \in Codes /\ codes'[o] # Nil /\ codes'[o].purpose = purpose /\ ~codes'[o].consumed
    BY DEF Open
  <2>2. CASE purpose = Purpose(req[s].op)
    <3>1. \A c \in Open(purpose)' : c = req[s].code
      BY <1>2, <1>7, <2>2 DEF Open
    <3> QED BY <3>1
  <2>3. CASE purpose # Purpose(req[s].op)
    <3>1. t # req[s].code /\ o # req[s].code
      BY <1>4, <1>5, <2>1, <2>3
    <3>2. t \in Open(purpose) /\ o \in Open(purpose)
      BY <1>7, <2>1, <3>1 DEF Open
    <3> QED BY <1>1, <3>2 DEF OneOpen
  <2> QED BY <2>2, <2>3
<1>9. CASE req[s].op # "admin_reset"
  <2>1. Ends(s) /\ UNCHANGED <<user, sessions>>
    BY <1>9 DEF Insert
  <2> QED BY <1>1, <1>8, <2>1, EndsCalm
<1>10. CASE req[s].op = "admin_reset"
  <2>1. Rewritten(s, "revoke") /\ user' = [user EXCEPT !.password = "scrambled"] /\ user \in UserType
    BY <1>2, <1>10 DEF Insert, Inv, Types
  <2>2. ~user'.deleted
    BY <1>2, <2>1 DEF UserType
  <2> QED BY <1>1, <1>8, <2>1, <2>2, RewrittenCalm
<1> QED BY <1>9, <1>10

\* Every step of a request that is alone keeps the order.
LEMMA StepCalm == ASSUME Inv, Order, NEW s \in Slots, Step(s) PROVE Order'
<1>0. /\ (OneOpen /\ Knows(pc[s], req[s])) \/ pc[s] = "idle"
      /\ user \in UserType /\ pc[s] \in Places
      /\ \A t \in Codes : codes[t] # Nil => codes[t] \in CodeType
      /\ Submitting(s) => req[s].code \in Codes /\ codes[req[s].code] \in CodeType
  BY AloneFinds DEF Inv, Types, CodesInv
<1>a. UNCHANGED codes => OneOpen'
  BY DEF Order, OneOpen, Open
<1>b. ASSUME Submitting(s), Consumed(s) PROVE OneOpen'
  <2> DEFINE c == codes[req[s].code]
  <2>1. codes' = [codes EXCEPT ![req[s].code] = [c EXCEPT !.consumed = TRUE]]
    BY <1>b DEF Consumed
  <2>2. codes'[req[s].code].consumed /\ \A t \in Codes : t # req[s].code => codes'[t] = codes[t]
    BY <1>0, <1>b, <2>1, CodeFields DEF Inv, Types
  <2> QED BY <2>2, NoneOpened DEF Order
<1>1. CASE Miss(s)
  <2> DEFINE c == codes[req[s].code]
  <2>1. pc[s] = "miss" /\ Submitting(s) /\ c \in CodeType
    BY <1>0, <1>1 DEF Miss, At, Submitting
  <2>2. codes' = [codes EXCEPT ![req[s].code] = [c EXCEPT !.attempts = c.attempts + 1]]
    BY <1>1 DEF Miss
  <2>3. [c EXCEPT !.attempts = c.attempts + 1].purpose = c.purpose
    BY <2>1 DEF CodeType
  <2>4. c # Nil /\ [c EXCEPT !.attempts = c.attempts + 1].consumed = c.consumed
    BY <2>1, CodeFields
  <2>5. \A t \in Codes : /\ t = req[s].code => /\ codes[t] # Nil /\ codes'[t].consumed = codes[t].consumed
                                               /\ codes'[t].purpose = codes[t].purpose
                         /\ t # req[s].code => codes'[t] = codes[t]
    BY <2>2, <2>3, <2>4 DEF Inv, Types
  <2>6. OneOpen'
    BY <2>5, NoneOpened DEF Order
  <2> QED BY <1>1, <2>1, <2>6, EndsCalm DEF Miss
<1>2. CASE Begin(s) \/ ConsumeReset(s) \/ Scramble(s)
  <2>1. \E at \in {"consume", "rewrite", "configured"} : GoesOn(s, at)
    BY <1>2 DEF Begin, ConsumeReset, Scramble
  <2>2. pc[s] \in {"begin", "consume", "scramble"} /\ UNCHANGED <<user, codes, sessions>>
    BY <1>2 DEF Begin, ConsumeReset, Scramble, At
  <2> QED BY <1>a, <2>1, <2>2, GoesOnCalm
<1>3. CASE ConsumeFails(s)
  BY <1>3, <1>a, EndsCalm DEF ConsumeFails, At
<1>4. CASE ConsumeVerify(s)
  <2>1. /\ pc[s] = "consume" /\ Consumed(s) /\ GoesOn(s, "issue") /\ UNCHANGED sessions
        /\ user' = [user EXCEPT !.verified = user.verified \/ ~user.deleted]
    BY <1>4 DEF ConsumeVerify, At
  <2>2. user'.deleted = user.deleted
    BY <1>0, <2>1 DEF UserType
  <2>3. OneOpen'
    BY <1>b, <2>1 DEF Submitting
  <2> QED BY <2>1, <2>2, <2>3, GoesOnCalm
<1>5. CASE ConsumeChange(s)
  <2>1. pc[s] = "consume" /\ UNCHANGED <<user, sessions>>
    BY <1>5 DEF ConsumeChange, At
  <2>2. CASE Consumed(s) /\ GoesOn(s, "revoke")
    <3>1. OneOpen'
      BY <1>b, <2>1, <2>2 DEF Submitting
    <3> QED BY <2>1, <2>2, <3>1, GoesOnCalm
  <2>3. CASE Ends(s) /\ UNCHANGED codes
    BY <1>a, <2>1, <2>3, EndsCalm
  <2> QED BY <1>5, <2>2, <2>3 DEF ConsumeChange
<1>6. CASE Rewrite(s)
  <2>1. pc[s] = "rewrite" /\ UNCHANGED codes /\ ~user.deleted
    BY <1>0, <1>6 DEF Rewrite, At, Knows
  <2>2. PICK at \in {"commit", "revoke"} : Rewritten(s, at)
    BY <1>6, <2>1 DEF Rewrite
  <2>3. ~user'.deleted
    BY <1>0, <1>6, <2>1 DEF Rewrite, UserType
  <2> QED BY <1>a, <2>1, <2>2, <2>3, RewrittenCalm
<1>7. CASE CommitReset(s)
  <2>1. pc[s] = "commit" /\ Consumed(s) /\ GoesOn(s, "revoke") /\ UNCHANGED <<user, sessions>>
    BY <1>7 DEF CommitReset, At
  <2>2. Submitting(s)
    BY <2>1 DEF Submitting, Locks, Inv, UsedInv
  <2>3. OneOpen'
    BY <1>b, <2>1, <2>2
  <2> QED BY <2>1, <2>3, GoesOnCalm
<1>8. CASE Configured(s)
  <2>1. pc[s] = "configured" /\ UNCHANGED <<user, codes, sessions>>
    BY <1>8 DEF Configured, At
  <2>2. GoesOn(s, "invalidate") \/ Ends(s)
    BY <1>8 DEF Configured
  <2> QED BY <1>a, <2>1, <2>2, GoesOnCalm, EndsCalm
<1>9. CASE Invalidate(s)
  <2>1. /\ pc[s] = "invalidate" /\ UNCHANGED <<user, codes, sessions>> /\ pc'[s] = "insert"
        /\ \A o \in Slots \ {s} : pc'[o] = pc[o]
        /\ req'[s] = [req[s] EXCEPT !.snapshot = Open(Purpose(req[s].op))] /\ req[s] \in ReqType
    BY <1>9 DEF Invalidate, At, Inv, Types
  <2>2. /\ req'[s].snapshot = Open(Purpose(req[s].op)) /\ req'[s].op = req[s].op
        /\ req'[s].session = req[s].session
    BY <2>1 DEF ReqType
  <2>3. Knows(pc[s], req[s])'
    BY <1>0, <2>1, <2>2 DEF Knows, Open
  <2> QED BY <1>a, <2>1, <2>3, AloneFinds, AloneStays
<1>10. CASE Insert(s)
  BY <1>10, InsertCalm
<1>11. CASE Erase(s)
  <2>1. pc[s] = "erase" /\ UNCHANGED codes /\ ~user.deleted /\ req[s].op \in Deletions
    BY <1>0, <1>11 DEF Erase, At, Knows
  <2>2. Rewritten(s, "revoke")
    BY <1>11, <2>1 DEF Erase
  <2> QED BY <1>a, <2>1, <2>2, RewrittenCalm
<1>12. CASE Revoke(s)
  <2>1. pc[s] = "revoke" /\ sessions' = {} /\ UNCHANGED <<user, codes>>
    BY <1>12 DEF Revoke, At
  <2>2. \A o \in Slots \ {s} : pc'[o] = pc[o]
    BY <1>12 DEF Revoke, GoesOn, Ends, Inv, Types
  <2>3. Knows(pc[s], req[s])'
    <3>1. CASE Ends(s)
      BY <3>1 DEF Ends, Knows, Inv, Types
    <3>2. CASE ~Ends(s)
      <4>1. pc'[s] = "issue" /\ req' = req /\ req[s].op \notin Deletions
        BY <1>12, <3>2 DEF Revoke, GoesOn, Deletions, Inv, Types
      <4> QED BY <1>0, <2>1, <4>1 DEF Knows
    <3> QED BY <3>1, <3>2
  <2> QED BY <1>a, <2>1, <2>2, <2>3, AloneStays
<1>13. CASE Issue(s)
  <2>1. pc[s] = "issue" /\ sessions' = sessions \cup {req[s].session} /\ UNCHANGED <<user, codes>>
    BY <1>13 DEF Issue, At
  <2>2. pc'[s] = "idle" /\ \A o \in Slots \ {s} : pc'[o] = pc[o]
    BY <1>13 DEF Issue, Ends, Inv, Types
  <2>3. "stale" \notin sessions /\ req[s].session = "current" /\ ~user.deleted
    BY <1>0, <2>1, AloneFinds DEF Knows
  <2>4. Knows(pc[s], req[s])'
    BY <2>2 DEF Knows
  <2> QED BY <1>a, <2>1, <2>2, <2>3, <2>4, AloneStays
<1> QED BY <1>1, <1>2, <1>3, <1>4, <1>5, <1>6, <1>7, <1>8, <1>9, <1>10, <1>11, <1>12, <1>13 DEF Step

\* A deleted account has no password, whoever asks for one.
LEMMA ErasedStep ==
    Inv /\ (user.deleted => user.password = "erased") /\ [Next]_vars
        => (user'.deleted => user'.password = "erased")
<1> SUFFICES ASSUME Inv, user.deleted => user.password = "erased", [Next]_vars, user'.deleted
             PROVE  user'.password = "erased"
  OBVIOUS
<1>1. user \in UserType
  BY DEF Inv, Types
<1>2. ASSUME NEW s \in Slots, Step(s) PROVE user'.password = "erased"
  <2>1. CASE ConsumeVerify(s)
    BY <1>1, <2>1 DEF ConsumeVerify, UserType
  <2>2. CASE Rewrite(s) \/ Insert(s)
    BY <1>1, <2>2 DEF Rewrite, Insert, UserType
  <2>3. CASE Erase(s)
    BY <1>1, <2>3 DEF Erase, UserType
  <2>4. CASE UNCHANGED user
    BY <2>4
  <2> QED
    BY <1>2, <2>1, <2>2, <2>3, <2>4 DEF Step, Miss, Begin, ConsumeFails, ConsumeChange,
       ConsumeReset, CommitReset, Scramble, Configured, Invalidate, Revoke, Issue
<1>3. ASSUME NEW s \in Slots, Arrive(s) \/ Abort(s) PROVE user' = user
  BY <1>3 DEF Arrive, Submit, BeginIssue, Login, ChangePassword, Delete, Starts, Abort
<1>4. UNCHANGED vars => user' = user
  BY DEF vars
<1> QED BY <1>2, <1>3, <1>4 DEF Next, Expire, Logout

\* Requests that do not overlap leave one open code for a purpose, no session
\* that knows an older password and none of a deleted account
\* (service/verification.go:133, 506-508; service/me.go:122, 207).
THEOREM CalmIsOrderly == Spec => []CalmAccount
<1>1. Inv /\ CalmInv /\ [Next]_vars => CalmInv'
  <2> SUFFICES ASSUME Inv, CalmInv, [Next]_vars PROVE CalmInv'
    OBVIOUS
  <2>0. user'.deleted => user'.password = "erased"
    BY ErasedStep DEF CalmInv
  <2>1. ASSUME NEW s \in Slots, Step(s) PROVE CalmInv'
    <3>1. UNCHANGED calm
      BY <2>1 DEF Step, Miss, Begin, ConsumeFails, ConsumeVerify, ConsumeChange, ConsumeReset,
         Rewrite, CommitReset, Scramble, Configured, Invalidate, Insert, Erase, Revoke, Issue
    <3> QED BY <2>0, <2>1, <3>1, StepCalm DEF CalmInv
  <2>2. ASSUME NEW s \in Slots, Abort(s) PROVE CalmInv'
    BY <2>0, <2>2 DEF Abort, CalmInv
  <2>3. ASSUME NEW t \in Codes, Expire(t) PROVE CalmInv'
    <3>1. /\ codes' = [codes EXCEPT ![t] = [codes[t] EXCEPT !.expired = TRUE]]
          /\ codes[t] \in CodeType /\ UNCHANGED <<user, sessions, pc, req, calm>>
      BY <2>3 DEF Expire, Inv, Types
    <3>2. /\ [codes[t] EXCEPT !.expired = TRUE].purpose = codes[t].purpose
          /\ [codes[t] EXCEPT !.expired = TRUE] # Nil
      <4>1. [codes[t] EXCEPT !.expired = TRUE] \in CodeType
        BY <3>1, CodeFields
      <4>2. [codes[t] EXCEPT !.expired = TRUE].purpose = codes[t].purpose
        BY <3>1 DEF CodeType
      <4> QED BY <4>1, <4>2
    <3>3. [codes[t] EXCEPT !.expired = TRUE].consumed = codes[t].consumed
      BY <3>1, CodeFields
    <3>4. \A o \in Codes : /\ codes'[o] = Nil <=> codes[o] = Nil
                           /\ codes[o] # Nil => /\ codes'[o].purpose = codes[o].purpose
                                                /\ codes'[o].consumed = codes[o].consumed
      BY <3>1, <3>2, <3>3 DEF Inv, Types
    <3>5. \A purpose : Open(purpose)' = Open(purpose)
      BY <3>4 DEF Open
    <3> QED BY <3>1, <3>5 DEF CalmInv, Order, OneRequest, OneOpen, Knows
  <2>4. ASSUME NEW kind \in {"current", "stale"}, Logout(kind) PROVE CalmInv'
    <3>1. sessions' = sessions \ {kind} /\ UNCHANGED <<user, codes, pc, req, calm>>
      BY <2>4 DEF Logout
    <3> QED BY <3>1 DEF CalmInv, Order, OneRequest, OneOpen, Knows, Open
  <2>5. CASE UNCHANGED vars
    BY <2>5 DEF vars, CalmInv, Order, OneRequest, OneOpen, Knows, Open
  <2> QED BY <2>1, <2>2, <2>3, <2>4, <2>5, ArriveCalm DEF Next
<1>2. Inv /\ CalmInv => CalmAccount
  <2> SUFFICES ASSUME CalmInv, calm, \A s \in Slots : pc[s] = "idle"
               PROVE  /\ "stale" \notin sessions
                      /\ user.deleted => sessions = {}
                      /\ \A purpose \in Purposes : Cardinality(Open(purpose)) <= 1
    BY DEF CalmAccount
  <2>1. "stale" \notin sessions /\ (user.deleted => sessions = {}) /\ OneOpen
    BY DEF CalmInv, Order
  <2>2. ASSUME NEW purpose \in Purposes PROVE Cardinality(Open(purpose)) <= 1
    <3>1. CASE Open(purpose) = {}
      BY <3>1, FS_EmptySet
    <3>2. CASE Open(purpose) # {}
      <4>1. PICK t : t \in Open(purpose)
        BY <3>2
      <4>2. Open(purpose) = {t}
        BY <2>1, <4>1 DEF OneOpen
      <4> QED BY <4>2, FS_Singleton
    <3> QED BY <3>1, <3>2
  <2> QED BY <2>1, <2>2
<1> QED BY <1>1, <1>2, InitCalm, Inductive, PTL DEF Spec

-----------------------------------------------------------------------------
(* Standstills *)

\* A request that submits a code got there by submitting one.
Submitted == \A s \in Slots : pc[s] \in {"begin", "consume"} => req[s].op \in Submissions

\* The guard of the step that s is at holds: where a code is consumed there is a
\* step for each operation that submits one, elsewhere the place is all of it.
MayStep(s) ==
    \/ \E at \in Places \ {"idle", "consume"} : At(s, at)
    \/ At(s, "consume") /\ req[s].op \in Submissions

\* If a request is under way, then one that is may take its next step, unless
\* the two resets wait for each other or the pool is dry.
Standstill ==
    (\E s \in Slots : pc[s] # "idle") =>
        (\E s \in Slots : MayStep(s)) \/ WaitForEachOther \/ PoolDry

\* A step of a request moves no other, and gets to consuming a code only from
\* beginning to.
LEMMA MovesOnly ==
    ASSUME Inv, NEW s \in Slots, Step(s) \/ Abort(s)
    PROVE  /\ \A o \in Slots \ {s} : pc'[o] = pc[o] /\ req'[o].op = req[o].op
           /\ pc'[s] # "begin"
           /\ pc'[s] = "consume" => pc[s] = "begin" /\ req'[s].op = req[s].op
<1>0. /\ pc \in [Slots -> Places] /\ req \in [Slots -> ReqType]
  BY DEF Inv, Types
<1>1. ASSUME Ends(s)
      PROVE  /\ \A o \in Slots \ {s} : pc'[o] = pc[o] /\ req'[o].op = req[o].op
             /\ pc'[s] = "idle"
  BY <1>0, <1>1 DEF Ends
<1>2. ASSUME NEW at, GoesOn(s, at)
      PROVE  /\ \A o \in Slots \ {s} : pc'[o] = pc[o] /\ req'[o].op = req[o].op
             /\ pc'[s] = at /\ req'[s].op = req[s].op
  BY <1>0, <1>2 DEF GoesOn
<1>3. ASSUME NEW at, Rewritten(s, at)
      PROVE  /\ \A o \in Slots \ {s} : pc'[o] = pc[o] /\ req'[o].op = req[o].op
             /\ pc'[s] = at
  <2>1. \A q \in ReqType : \A k : [q EXCEPT !.session = k].op = q.op
    BY DEF ReqType
  <2>2. \A o \in Slots \ {s} : req'[o].op = req[o].op
    BY <1>0, <1>3, <2>1 DEF Rewritten
  <2> QED BY <1>0, <1>3, <2>2 DEF Rewritten
<1>4. CASE Begin(s)
  BY <1>2, <1>4 DEF Begin, At
<1>5. CASE Invalidate(s)
  BY <1>0, <1>5 DEF Invalidate
<1>6. CASE Rewrite(s)
  BY <1>1, <1>3, <1>6 DEF Rewrite
<1>7. CASE Insert(s)
  BY <1>1, <1>2, <1>3, <1>7 DEF Insert
<1>8. CASE Erase(s)
  BY <1>1, <1>3, <1>8 DEF Erase
<1>9. CASE \/ Miss(s) \/ ConsumeFails(s) \/ ConsumeVerify(s) \/ ConsumeChange(s)
           \/ ConsumeReset(s) \/ CommitReset(s) \/ Scramble(s) \/ Configured(s)
           \/ Revoke(s) \/ Issue(s) \/ Abort(s)
  <2>1. Ends(s) \/ \E at \in {"issue", "revoke", "rewrite", "configured", "invalidate"} :
                        GoesOn(s, at)
    BY <1>9 DEF Miss, ConsumeFails, ConsumeVerify, ConsumeChange, ConsumeReset, CommitReset,
       Scramble, Configured, Revoke, Issue, Abort
  <2> QED BY <1>1, <1>2, <2>1
<1> QED BY <1>4, <1>5, <1>6, <1>7, <1>8, <1>9 DEF Step

\* Only a submission begins to consume a code.
LEMMA SubmittedStep == Inv /\ Submitted /\ [Next]_vars => Submitted'
<1> SUFFICES ASSUME Inv, Submitted, [Next]_vars PROVE Submitted'
  OBVIOUS
<1>1. ASSUME NEW s \in Slots, Step(s) \/ Abort(s) PROVE Submitted'
  BY <1>1, MovesOnly DEF Submitted
<1>2. ASSUME NEW s \in Slots, Arrive(s) PROVE Submitted'
  <2>1. PICK at, q : /\ Starts(s, at, q)
                     /\ at \in {"begin", "consume"} => q.op \in Submissions
    <3>1. \A op : Request(op).op = op /\ \A t : [Request(op) EXCEPT !.code = t].op = op
      BY DEF Request, Blank
    <3>2. ASSUME NEW op \in Submissions, NEW right \in BOOLEAN, Submit(s, op, right)
          PROVE  \E at, q : Starts(s, at, q) /\ q.op \in Submissions
      <4>1. PICK t \in FindActive(Purpose(op)) :
               Starts(s, IF right THEN "begin" ELSE "miss", [Request(op) EXCEPT !.code = t])
        BY <3>2 DEF Submit
      <4> DEFINE q == [Request(op) EXCEPT !.code = t]
      <4>2. q.op \in Submissions
        BY <3>1
      <4> HIDE DEF q
      <4> QED BY <4>1, <4>2 DEF q
    <3>3. ASSUME NEW op \in Issuances, BeginIssue(s, op)
          PROVE  \E at, q : Starts(s, at, q) /\ at \notin {"begin", "consume"}
      BY <3>3 DEF BeginIssue
    <3>4. ASSUME Login(s) \/ ChangePassword(s) \/ \E op \in {"delete", "admin_delete"} : Delete(s, op)
          PROVE  \E at, q : Starts(s, at, q) /\ at \notin {"begin", "consume"}
      BY <3>4 DEF Login, ChangePassword, Delete
    <3> QED BY <1>2, <3>2, <3>3, <3>4 DEF Arrive
  <2>2. /\ pc'[s] = at /\ req'[s] = q
        /\ \A o \in Slots \ {s} : pc'[o] = pc[o] /\ req'[o] = req[o]
    BY <2>1 DEF Starts, Inv, Types
  <2> QED BY <2>1, <2>2 DEF Submitted
<1>3. CASE UNCHANGED <<pc, req>>
  BY <1>3 DEF Submitted
<1> QED BY <1>1, <1>2, <1>3 DEF Next, Expire, Logout, vars

\* With a connection left nobody waits for one.  Then whoever waits for a code
\* waits for a reset that is writing its password, and so for the user's row;
\* and who has that row is an admin's reset, which waits for a code if it waits.
LEMMA NobodyElseWaits ==
    ASSUME Free, NEW s \in Slots, pc[s] # "idle",
           \A o \in Slots : pc[o] # "idle" => WaitsForRow(o) \/ WaitsForConnection(o)
    PROVE  WaitForEachOther
<1>1. \A o \in Slots : pc[o] # "idle" => WaitsForRow(o)
  BY DEF WaitsForConnection
<1>2. ASSUME NEW t, CodeLocked(t)
      PROVE  \E r \in Slots : /\ pc[r] = "rewrite" /\ req[r].op = "confirm_reset"
                              /\ req[r].code = t
  <2> PICK r \in Slots : /\ pc[r] \in {"rewrite", "commit"} /\ req[r].op = "confirm_reset"
                         /\ req[r].code = t
    BY <1>2 DEF CodeLocked
  <2> QED BY <1>1 DEF WaitsForRow
<1>3. UserLocked
  <2>1. ASSUME NEW t, CodeLocked(t) PROVE UserLocked
    BY <1>1, <1>2, <2>1 DEF WaitsForRow
  <2> QED BY <1>1, <2>1 DEF WaitsForRow
<1>4. PICK a \in Slots : /\ pc[a] \in {"configured", "invalidate", "insert"}
                         /\ req[a].op = "admin_reset"
  BY <1>3 DEF UserLocked
<1>5. pc[a] = "insert" /\ \E t \in req[a].snapshot : CodeLocked(t)
  BY <1>1, <1>4 DEF WaitsForRow
<1> QED BY <1>2, <1>4, <1>5 DEF WaitForEachOther

\* Requests of any number, on a pool of any size, hold each other up for good in
\* the two ways of HeldUp only: in every reachable state where something is
\* under way a request may take its next step, unless an admin's reset and the
\* user's wait for each other or every connection is held by one that waits.
THEOREM Standstills == Spec => []Standstill
<1>1. Init => Submitted
  BY DEF Init, Submitted
<1>2. Inv /\ Submitted => Standstill
  <2> SUFFICES ASSUME Inv, Submitted, NEW s \in Slots, pc[s] # "idle",
                      \A o \in Slots : ~MayStep(o), ~PoolDry
               PROVE  WaitForEachOther
    BY DEF Standstill
  <2>1. ASSUME NEW o \in Slots, pc[o] # "idle" PROVE WaitsForRow(o) \/ WaitsForConnection(o)
    <3>1. pc[o] \in Places
      BY DEF Inv, Types
    <3> QED BY <2>1, <3>1 DEF MayStep, At, Submitted, Places
  <2>2. Free
    <3>1. \A o \in Slots : InTransaction(o) => pc[o] # "idle"
      BY DEF InTransaction
    <3> QED BY <2>1, <3>1 DEF PoolDry
  <2> QED BY <2>1, <2>2, NobodyElseWaits
<1> QED BY <1>1, <1>2, SubmittedStep, Inductive, PTL DEF Spec

===========================================================================
