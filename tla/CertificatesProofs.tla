------------------------ MODULE CertificatesProofs -------------------------
(* What the managed certificate keeps for any lifetime, names, number of keys  *)
(* and number of faults.                                                       *)
EXTENDS Certificates, TLAPS

\* What an actor that begins, ends or does nothing looks like.
LEMMA IdleType ==
  ASSUME TypeOK
  PROVE  /\ NoCert \in Certificate /\ NoPair \in [key : Nat, cert : Certificate]
         /\ Idle \in Acting /\ Idle.pc = "idle"
         /\ Required \subseteq Name
BY DEF TypeOK, NoCert, NoPair, Idle, Acting, Steps, Certificate, Required, Local, Name

\* Replacing what one actor does.
LEMMA BecomesType ==
  ASSUME TypeOK, NEW a \in Actor, NEW r \in Acting, Becomes(a, r)
  PROVE  /\ actor' \in [Actor -> Acting]
         /\ actor'[a] = r
         /\ \A b \in Actor \ {a} : actor'[b] = actor[b]
BY DEF TypeOK, Becomes

\* What is signed is a certificate.
LEMMA SignedType ==
  ASSUME NEW at \in Int, NEW names \in SUBSET Name, NEW authority \in Nat, NEW k \in Nat
  PROVE  /\ Signed(at, names, authority, k) \in Certificate
         /\ Signed(at, names, authority, k).by = authority
BY ConstantsAssumption DEF Signed, Certificate

\* What an actor issues with a new key.
LEMMA IssueType ==
  ASSUME TypeOK, NEW a \in Actor, NEW authority \in Nat, NEW used \in Nat
  PROVE  /\ Issue(a, authority, used) \in Acting
         /\ Issue(a, authority, used).pc = "key"
         /\ Issue(a, authority, used).authority = authority
         /\ Issue(a, authority, used).cert.by = authority
<1>1. actor[a] \in Acting /\ used + 1 \in Nat
  BY DEF TypeOK
<1>2. /\ Signed(actor[a].at, actor[a].names, authority, used + 1) \in Certificate
      /\ Signed(actor[a].at, actor[a].names, authority, used + 1).by = authority
  BY <1>1, SignedType DEF Acting
<1> DEFINE signed == Signed(actor[a].at, actor[a].names, authority, used + 1)
<1> HIDE DEF signed
<1>3. Issue(a, authority, used)
        = [actor[a] EXCEPT !.pc = "key", !.authority = authority, !.key = used + 1, !.cert = signed]
  BY DEF Issue, signed
<1>4. signed \in Certificate /\ signed.by = authority
  BY <1>2 DEF signed
<1> QED BY <1>1, <1>3, <1>4 DEF Acting, Steps

\* The step of one actor that changes nothing but its pc.
LEMMA StepType ==
  ASSUME TypeOK, NEW a \in Actor, NEW pc \in Steps
  PROVE  /\ [actor[a] EXCEPT !.pc = pc] \in Acting
         /\ [actor[a] EXCEPT !.pc = pc].pc = pc
         /\ [actor[a] EXCEPT !.pc = pc].authority = actor[a].authority
         /\ [actor[a] EXCEPT !.pc = pc].cert = actor[a].cert
BY DEF TypeOK, Acting

LEMMA BecomesStep ==
  ASSUME TypeOK, NEW a \in Actor, NEW pc \in Steps, Becomes(a, [actor[a] EXCEPT !.pc = pc])
  PROVE  /\ actor' \in [Actor -> Acting]
         /\ actor'[a].pc = pc
         /\ actor'[a].authority = actor[a].authority
         /\ actor'[a].cert = actor[a].cert
         /\ \A b \in Actor \ {a} : actor'[b] = actor[b]
<1> DEFINE r == [actor[a] EXCEPT !.pc = pc]
<1>1. /\ r \in Acting /\ r.pc = pc /\ r.authority = actor[a].authority
      /\ r.cert = actor[a].cert
  BY StepType
<1>2. Becomes(a, r)
  OBVIOUS
<1> HIDE DEF r
<1> QED BY <1>1, <1>2, BecomesType

\* The certificate's state is well typed.
THEOREM CertificatesTypeCorrect == Spec => []TypeOK
<1>1. Init => TypeOK
  <2> SUFFICES ASSUME Init PROVE TypeOK
    OBVIOUS
  <2>1. NoCert \in Certificate
    BY DEF NoCert, Certificate
  <2>2. Idle \in Acting
    BY <2>1 DEF Idle, Acting, Steps
  <2>3. NoPair \in [key : Nat, cert : Certificate]
    BY <2>1 DEF NoPair
  <2>4. caKey \in Nat /\ caCert \in Nat /\ fresh \in Nat /\ published \subseteq Nat
    BY DEF Init
  <2>5. actor \in [Actor -> Acting]
    BY <2>2 DEF Init
  <2>6. raced \in BOOLEAN
    BY Zenon DEF Init
  <2>7. /\ now \in Nat /\ addresses \subseteq Address /\ key \in Nat
        /\ listener \in {"down", "load", "up"} /\ wake \in Int /\ good \in Int /\ faults \in Nat
    BY DEF Init
  <2>8. cert \in Certificate /\ presented \in [key : Nat, cert : Certificate]
    BY <2>1, <2>3 DEF Init
  <2> QED BY <2>4, <2>5, <2>6, <2>7, <2>8 DEF TypeOK
<1>2. TypeOK /\ [Next]_vars => TypeOK'
  <2> SUFFICES ASSUME TypeOK, [Next]_vars PROVE TypeOK'
    OBVIOUS
  <2>0. /\ NoCert \in Certificate /\ NoPair \in [key : Nat, cert : Certificate]
        /\ Idle \in Acting /\ Required \subseteq Name
    BY IdleType
  <2> USE <2>0
  <2>1. CASE UNCHANGED vars
    BY <2>1 DEF vars, files, TypeOK
  <2>2. ASSUME NEW a \in Actor, Examine(a) PROVE TypeOK'
    <3>1. actor' \in [Actor -> Acting] /\ fresh' \in Nat /\ raced' \in BOOLEAN
      <4>1. CASE /\ AuthorityState = "present" /\ Becomes(a, Ended(a))
                 /\ UNCHANGED <<fresh, raced>>
        <5>1. Ended(a) \in Acting
          BY StepType DEF Ended, Steps
        <5> QED BY <4>1, <5>1, BecomesType DEF TypeOK
      <4>2. CASE /\ AuthorityState = "present" /\ Becomes(a, Issue(a, caCert, fresh))
                 /\ fresh' = fresh + 1 /\ UNCHANGED raced
        <5>1. Issue(a, caCert, fresh) \in Acting
          BY IssueType DEF TypeOK
        <5> QED BY <4>2, <5>1, BecomesType DEF TypeOK
      <4>3. CASE /\ AuthorityState = "absent" /\ fresh' = fresh + 2
                 /\ Becomes(a, [Issue(a, fresh + 1, fresh + 1) EXCEPT !.pc = "caKey"])
                 /\ raced' = (raced \/ \E b \in Actor \ {a} : actor[b].pc \in {"caKey", "caCert"})
        <5>1. Issue(a, fresh + 1, fresh + 1) \in Acting
          BY IssueType DEF TypeOK
        <5>2. [Issue(a, fresh + 1, fresh + 1) EXCEPT !.pc = "caKey"] \in Acting
          BY <5>1 DEF Acting, Steps
        <5> QED BY <4>3, <5>2, BecomesType DEF TypeOK
      <4> QED BY <2>2, <4>1, <4>2, <4>3 DEF Examine
    <3> QED BY <2>2, <3>1 DEF Examine, TypeOK, files
  <2>3. ASSUME NEW a \in Actor, RenameCaKey(a) \/ RenameCaCert(a) \/ RenameKey(a)
        PROVE  TypeOK'
    <3>1. actor' \in [Actor -> Acting]
      BY <2>3, StepType, BecomesType DEF RenameCaKey, RenameCaCert, RenameKey, Steps
    <3>2. actor[a] \in Acting
      BY DEF TypeOK
    <3> QED BY <2>3, <3>1, <3>2 DEF RenameCaKey, RenameCaCert, RenameKey, TypeOK, Acting
  <2>4. ASSUME NEW a \in Actor, RenameCert(a) PROVE TypeOK'
    <3>1. actor' \in [Actor -> Acting]
      BY <2>4, StepType, BecomesType DEF RenameCert, Steps
    <3>2. actor[a] \in Acting
      BY DEF TypeOK
    <3> QED BY <2>4, <3>1, <3>2 DEF RenameCert, TypeOK, Acting
  <2>5. ASSUME NEW a \in Actor, Failed(a), faults' \in Nat PROVE TypeOK'
    <3>1. actor' \in [Actor -> Acting]
      BY <2>5, BecomesType DEF Failed
    <3> QED BY <2>5, <3>1, ConstantsAssumption DEF Failed, TypeOK, files
  <2>6. ASSUME NEW a \in Actor, Refuse(a) \/ Fail(a) PROVE TypeOK'
    BY <2>5, <2>6 DEF Refuse, Fail, Fault, TypeOK
  <2>7. ASSUME NEW a \in Actor, NEW force \in BOOLEAN, Begin(a, force)
        PROVE  actor' \in [Actor -> Acting]
    <3>0. now \in Int /\ Required \in SUBSET Name
      BY DEF TypeOK
    <3>1. [Idle EXCEPT !.pc = "read", !.at = now, !.names = Required, !.force = force] \in Acting
      BY <3>0, Zenon DEF Acting, Steps
    <3> QED BY <2>7, <3>1, BecomesType DEF Begin
  <2>8. ASSUME Load PROVE TypeOK'
    BY <2>8, <2>7 DEF Load, TypeOK, files, Actor
  <2>9. ASSUME Check PROVE TypeOK'
    BY <2>9, <2>7 DEF Check, TypeOK, files, Actor
  <2>10. ASSUME NEW force \in BOOLEAN, Generate(force) PROVE TypeOK'
    BY <2>10, <2>7 DEF Generate, TypeOK, files, Actor
  <2>11. ASSUME Loaded PROVE TypeOK'
    <3>1. actor' \in [Actor -> Acting]
      BY <2>11, BecomesType DEF Loaded, Actor
    <3>2. actor["server"] \in Acting
      BY DEF TypeOK, Actor
    <3> QED BY <2>11, <3>1, <3>2, ConstantsAssumption
         DEF Loaded, Present, TypeOK, files, Acting
  <2>12. ASSUME Renewed PROVE TypeOK'
    <3>1. actor' \in [Actor -> Acting]
      BY <2>12, BecomesType DEF Renewed, Actor
    <3>2. actor["server"] \in Acting
      BY DEF TypeOK, Actor
    <3> QED BY <2>12, <3>1, <3>2, ConstantsAssumption
         DEF Renewed, RenewKept, RenewIssued, Sleep, Present, TypeOK, files, Acting
  <2>13. ASSUME Stop PROVE TypeOK'
    BY <2>13 DEF Stop, Fault, TypeOK, files, Actor
  <2>14. ASSUME Crash PROVE TypeOK'
    BY <2>14 DEF Crash, Fault, TypeOK, files
  <2>15. ASSUME Lose PROVE TypeOK'
    <3>1. caKey' \in Nat /\ caCert' \in Nat /\ faults' \in Nat
      BY <2>15 DEF Lose, Fault, TypeOK
    <3> QED BY <2>15, <3>1 DEF Lose, TypeOK
  <2>16. ASSUME Rewire PROVE TypeOK'
    <3>1. addresses' \subseteq Address /\ faults' \in Nat
      BY <2>16 DEF Rewire, Fault, TypeOK
    <3> QED BY <2>16, <3>1 DEF Rewire, TypeOK, files
  <2>17. ASSUME SetBack PROVE TypeOK'
    <3>1. now' \in Nat /\ wake' \in Int /\ faults' \in Nat
      BY <2>17 DEF SetBack, Fault, TypeOK
    <3> QED BY <2>17, <3>1 DEF SetBack, TypeOK, files
  <2>18. ASSUME Tick PROVE TypeOK'
    <3>1. now' \in Nat
      BY <2>18 DEF Tick, TypeOK
    <3> QED BY <2>18, <3>1 DEF Tick, TypeOK, files
  <2> QED BY <2>1, <2>2, <2>3, <2>4, <2>6, <2>8, <2>9, <2>10, <2>11, <2>12, <2>13, <2>14,
             <2>15, <2>16, <2>17, <2>18 DEF Next, Ensure, Serve
<1> QED BY <1>1, <1>2, PTL DEF Spec

-----------------------------------------------------------------------------
Writing == {"caKey", "caCert", "key", "cert"}

\* A step that leaves the authority, the certificate and what was published alone, and
\* after which no actor writes that did not before.
LEMMA QuietKeepsSound ==
  ASSUME TypeOK, Sound, UNCHANGED <<caKey, caCert, cert, published, raced>>,
         \A b \in Actor : actor'[b] = actor[b] \/ actor'[b].pc \notin Writing
  PROVE  Sound'
<1>1. \A b \in Actor : actor'[b].pc \in Writing => actor'[b] = actor[b]
  OBVIOUS
<1>2. Numbered'
  BY <1>1 DEF Sound, Numbered, Creating, Writing
<1>3. ASSUME ~raced' PROVE OneCreates'
  BY <1>1, <1>3 DEF Sound, OneCreates, Creating, At, Writing
<1>4. ASSUME ~raced' PROVE Traced'
  BY <1>1, <1>4 DEF Sound, Traced, Creating, Writing
<1> QED BY <1>2, <1>3, <1>4 DEF Sound

\* The renames of create_authority: the file that the rename puts there was missing.
LEMMA CreateKeepsSound ==
  ASSUME TypeOK, Sound, NEW a \in Actor, RenameCaKey(a) \/ RenameCaCert(a)
  PROVE  Sound'
<1>1. PICK pc \in {"caCert", "key"} :
        /\ Becomes(a, [actor[a] EXCEPT !.pc = pc])
        /\ pc = "caCert" => RenameCaKey(a)
        /\ pc = "key" => RenameCaCert(a)
  BY DEF RenameCaKey, RenameCaCert
<1>2. /\ actor'[a].pc = pc /\ actor'[a].authority = actor[a].authority
      /\ actor'[a].cert = actor[a].cert
      /\ \A b \in Actor \ {a} : actor'[b] = actor[b]
  <2>1. pc \in Steps
    BY DEF Steps
  <2> QED BY <1>1, <2>1, BecomesStep
<1>3. Creating(a) /\ actor[a].authority # 0
  BY DEF RenameCaKey, RenameCaCert, Creating, At, Sound, Numbered
<1>4. raced' = raced /\ cert' = cert /\ published \subseteq published'
  BY DEF RenameCaKey, RenameCaCert
<1>5. published' \subseteq published \cup {actor[a].authority}
  BY DEF RenameCaKey, RenameCaCert
<1>6. Numbered'
  BY <1>2, <1>3, <1>5, <1>1 DEF Sound, Numbered, Creating
<1>7. ASSUME ~raced
      PROVE  /\ \A b \in Actor \ {a} : ~Creating(b)
             /\ caCert = 0
             /\ actor[a].cert.by = actor[a].authority
             /\ pc = "caCert" => caKey = 0
             /\ pc = "key" => caKey = actor[a].authority
  BY <1>3, <1>7, <1>1 DEF Sound, OneCreates, Traced, RenameCaKey, RenameCaCert, At
<1>8. CASE pc = "caCert"
  <2>1. caKey' = actor[a].authority /\ caCert' = caCert /\ published' = published
    BY <1>1, <1>8 DEF RenameCaKey
  <2>2. ASSUME ~raced' PROVE OneCreates'
    BY <1>2, <1>4, <1>7, <1>8, <2>1, <2>2 DEF OneCreates, Creating, At
  <2>3. ASSUME ~raced' PROVE Traced'
    BY <1>2, <1>3, <1>4, <1>7, <1>8, <2>1, <2>3 DEF Sound, Traced, Creating
  <2> QED BY <1>6, <2>2, <2>3 DEF Sound
<1>9. CASE pc = "key"
  <2>1. /\ caCert' = actor[a].authority /\ caKey' = caKey
        /\ caKey = caCert' => published' = published \cup {caKey}
    BY <1>1, <1>9 DEF RenameCaCert
  <2>2. ASSUME ~raced' PROVE OneCreates'
    BY <1>2, <1>4, <1>7, <1>9, <2>1, <2>2 DEF OneCreates, Creating, At
  <2>3. ASSUME ~raced' PROVE Traced'
    BY <1>2, <1>3, <1>4, <1>7, <1>9, <2>1, <2>3 DEF Sound, Traced, Creating
  <2> QED BY <1>6, <2>2, <2>3 DEF Sound
<1> QED BY <1>8, <1>9

\* The renames of the leaf: what is put there was signed by a published authority.
LEMMA LeafKeepsSound ==
  ASSUME TypeOK, Sound, NEW a \in Actor, RenameKey(a) \/ RenameCert(a)
  PROVE  Sound'
<1>1. CASE RenameKey(a)
  <2>1. /\ actor'[a].pc = "cert" /\ actor'[a].cert = actor[a].cert
        /\ \A b \in Actor \ {a} : actor'[b] = actor[b]
    <3>1. Becomes(a, [actor[a] EXCEPT !.pc = "cert"]) /\ "cert" \in Steps
      BY <1>1 DEF RenameKey, Steps
    <3> QED BY <3>1, BecomesStep
  <2>2. UNCHANGED <<caKey, caCert, cert, published, raced>> /\ actor[a].pc = "key"
    BY <1>1 DEF RenameKey, At
  <2>3. Numbered'
    BY <2>1, <2>2 DEF Sound, Numbered, Creating
  <2>4. ASSUME ~raced' PROVE OneCreates'
    BY <2>1, <2>2, <2>4 DEF Sound, OneCreates, Creating, At
  <2>5. ASSUME ~raced' PROVE Traced'
    BY <2>1, <2>2, <2>5 DEF Sound, Traced, Creating
  <2> QED BY <2>3, <2>4, <2>5 DEF Sound
<1>2. CASE RenameCert(a)
  <2>1. /\ actor'[a].pc \in {"issued", "idle"}
        /\ \A b \in Actor \ {a} : actor'[b] = actor[b]
    <3>1. CASE a = "server"
      <4>1. Becomes(a, [actor[a] EXCEPT !.pc = "issued"]) /\ "issued" \in Steps
        BY <1>2, <3>1 DEF RenameCert, Steps
      <4> QED BY <4>1, BecomesStep
    <3>2. CASE a # "server"
      <4>1. Becomes(a, Idle) /\ Idle \in Acting /\ Idle.pc = "idle"
        BY <1>2, <3>2, IdleType DEF RenameCert
      <4> QED BY <4>1, BecomesType
    <3> QED BY <3>1, <3>2
  <2>2. /\ UNCHANGED <<caKey, caCert, published, raced>>
        /\ actor[a].pc = "cert" /\ cert' = actor[a].cert
    BY <1>2 DEF RenameCert, At
  <2>3. Numbered'
    BY <2>1, <2>2 DEF Sound, Numbered, Creating
  <2>4. ASSUME ~raced' PROVE OneCreates'
    BY <2>1, <2>2, <2>4 DEF Sound, OneCreates, Creating, At
  <2>5. ASSUME ~raced' PROVE Traced'
    BY <2>1, <2>2, <2>5 DEF Sound, Traced, Creating
  <2> QED BY <2>3, <2>4, <2>5 DEF Sound
<1> QED BY <1>1, <1>2

\* The decision to issue: with the authority that stands on disk, or with one of its own
\* where there is none and nobody else is creating one.
LEMMA ExamineKeepsSound ==
  ASSUME TypeOK, Sound, NEW a \in Actor, Examine(a)
  PROVE  Sound'
<1>1. UNCHANGED <<caKey, caCert, cert, published>>
  BY DEF Examine, files
<1>2. CASE Becomes(a, Ended(a)) /\ UNCHANGED raced
  <2>1. Ended(a) \in Acting /\ Ended(a).pc \notin Writing
    BY StepType, IdleType DEF Ended, Steps, Writing
  <2>2. \A b \in Actor : actor'[b] = actor[b] \/ actor'[b].pc \notin Writing
    BY <1>2, <2>1, BecomesType
  <2> QED BY <1>1, <1>2, <2>2, QuietKeepsSound
<1>3. CASE /\ AuthorityState = "present" /\ Becomes(a, Issue(a, caCert, fresh))
           /\ UNCHANGED raced
  <2>1. /\ actor'[a].pc = "key" /\ actor'[a].cert.by = caCert
        /\ \A b \in Actor \ {a} : actor'[b] = actor[b]
    BY <1>3, IssueType, BecomesType DEF TypeOK
  <2>2. caKey # 0 /\ caKey = caCert
    BY <1>3 DEF AuthorityState
  <2>3. Numbered'
    BY <1>1, <2>1 DEF Sound, Numbered, Creating
  <2>4. ASSUME ~raced' PROVE OneCreates'
    BY <1>1, <1>3, <2>1, <2>4 DEF Sound, OneCreates, Creating, At
  <2>5. ASSUME ~raced' PROVE Traced'
    BY <1>1, <1>3, <2>1, <2>2, <2>5 DEF Sound, Traced, Creating
  <2> QED BY <2>3, <2>4, <2>5 DEF Sound
<1>4. CASE /\ AuthorityState = "absent"
           /\ Becomes(a, [Issue(a, fresh + 1, fresh + 1) EXCEPT !.pc = "caKey"])
           /\ raced' = (raced \/ \E b \in Actor \ {a} : actor[b].pc \in {"caKey", "caCert"})
  <2>0. fresh + 1 \in Nat /\ fresh + 1 # 0
    BY DEF TypeOK
  <2>1. /\ actor'[a].pc = "caKey" /\ actor'[a].authority = fresh + 1
        /\ actor'[a].cert.by = fresh + 1
        /\ \A b \in Actor \ {a} : actor'[b] = actor[b]
    <3> DEFINE i == Issue(a, fresh + 1, fresh + 1)
    <3>1. i \in Acting /\ i.authority = fresh + 1 /\ i.cert.by = fresh + 1
      BY <2>0, IssueType
    <3> HIDE DEF i
    <3>2. /\ [i EXCEPT !.pc = "caKey"] \in Acting /\ [i EXCEPT !.pc = "caKey"].pc = "caKey"
          /\ [i EXCEPT !.pc = "caKey"].authority = fresh + 1
          /\ [i EXCEPT !.pc = "caKey"].cert.by = fresh + 1
      BY <3>1 DEF Acting, Steps
    <3>3. Becomes(a, [i EXCEPT !.pc = "caKey"])
      BY <1>4 DEF i
    <3> QED BY <3>2, <3>3, BecomesType
  <2>2. caKey = 0 /\ caCert = 0
    BY <1>4 DEF AuthorityState
  <2>3. Numbered'
    BY <1>1, <2>0, <2>1 DEF Sound, Numbered, Creating
  <2>4. ASSUME ~raced' PROVE ~raced /\ \A b \in Actor \ {a} : ~Creating(b)
    BY <1>4, <2>4 DEF Creating
  <2>5. ASSUME ~raced' PROVE OneCreates'
    BY <1>1, <2>1, <2>2, <2>4, <2>5 DEF OneCreates, Creating, At
  <2>6. ASSUME ~raced' PROVE Traced'
    BY <1>1, <2>1, <2>2, <2>4, <2>6 DEF Sound, Traced, Creating
  <2> QED BY <2>3, <2>5, <2>6 DEF Sound
<1> QED BY <1>2, <1>3, <1>4 DEF Examine

\* The server stops: a renewal under way goes on as the dropped one.
LEMMA StopKeepsSound ==
  ASSUME TypeOK, Sound, Stop
  PROVE  Sound'
<1>1. UNCHANGED <<caKey, caCert, cert, published, raced>>
  BY DEF Stop, files
<1>2. /\ actor'["server"] = Idle /\ actor'["command"] = actor["command"]
      /\ actor'["dropped"] = Idle \/ actor'["dropped"] = actor["server"]
      /\ Actor = {"server", "dropped", "command"} /\ Idle.pc = "idle"
  BY IdleType DEF Stop, TypeOK, Actor
<1>3. Numbered'
  BY <1>1, <1>2 DEF Sound, Numbered, Creating
<1>4. ASSUME ~raced' PROVE OneCreates'
  BY <1>1, <1>2, <1>4 DEF Sound, OneCreates, Creating, At
<1>5. ASSUME ~raced' PROVE Traced'
  BY <1>1, <1>2, <1>5 DEF Sound, Traced, Creating
<1> QED BY <1>3, <1>4, <1>5 DEF Sound

\* A file of the authority is lost: nobody is creating it.
LEMMA LoseKeepsSound ==
  ASSUME TypeOK, Sound, Lose
  PROVE  Sound'
<1>1. /\ UNCHANGED <<cert, published, raced, actor>>
      /\ caKey' \in {0, caKey} /\ caCert' \in {0, caCert}
      /\ \A a \in Actor : ~Creating(a)
  BY DEF Lose, Creating, At
<1>2. Numbered'
  BY <1>1 DEF Sound, Numbered, Creating
<1>3. ASSUME ~raced' PROVE OneCreates'
  BY <1>1, <1>3 DEF OneCreates, Creating, At
<1>4. ASSUME ~raced' PROVE Traced'
  BY <1>1, <1>4 DEF Sound, Traced, Creating
<1> QED BY <1>2, <1>3, <1>4 DEF Sound

\* Beginning an issuance writes nothing yet.
LEMMA BeginIsQuiet ==
  ASSUME TypeOK, NEW a \in Actor, NEW force, Begin(a, force)
  PROVE  \A b \in Actor : actor'[b] = actor[b] \/ actor'[b].pc \notin Writing
<1>1. actor'[a].pc = "read" /\ \A b \in Actor \ {a} : actor'[b] = actor[b]
  BY DEF Begin, Becomes, TypeOK, Idle
<1> QED BY <1>1 DEF Writing

\* An actor that ends writes no more.
LEMMA EndIsQuiet ==
  ASSUME TypeOK, NEW a \in Actor, Becomes(a, Idle)
  PROVE  \A b \in Actor : actor'[b] = actor[b] \/ actor'[b].pc \notin Writing
BY IdleType, BecomesType DEF Writing

\* The invariant is kept by every step.
LEMMA NextKeepsSound ==
  ASSUME TypeOK, Sound, [Next]_vars
  PROVE  Sound'
<1>1. CASE UNCHANGED vars
  BY <1>1, QuietKeepsSound DEF vars, files
<1>2. ASSUME NEW a \in Actor, Refuse(a) \/ Fail(a) PROVE Sound'
  <2>1. Becomes(a, Idle) /\ UNCHANGED <<caKey, caCert, cert, published, raced>>
    BY <1>2 DEF Refuse, Fail, Failed, files
  <2> QED BY <2>1, EndIsQuiet, QuietKeepsSound
<1>3. ASSUME NEW a \in Actor, Ensure(a) PROVE Sound'
  BY <1>2, <1>3, ExamineKeepsSound, CreateKeepsSound, LeafKeepsSound DEF Ensure
<1>4. ASSUME Load \/ Check PROVE Sound'
  <2>1. /\ Begin("server", FALSE) /\ "server" \in Actor
        /\ UNCHANGED <<caKey, caCert, cert, published, raced>>
    BY <1>4 DEF Load, Check, files, Actor
  <2> QED BY <2>1, BeginIsQuiet, QuietKeepsSound
<1>5. ASSUME NEW force \in BOOLEAN, Generate(force) PROVE Sound'
  <2>1. /\ Begin("command", force) /\ "command" \in Actor
        /\ UNCHANGED <<caKey, caCert, cert, published, raced>>
    BY <1>5 DEF Generate, files, Actor
  <2> QED BY <2>1, BeginIsQuiet, QuietKeepsSound
<1>6. ASSUME Loaded \/ Renewed PROVE Sound'
  <2>1. /\ Becomes("server", Idle) /\ "server" \in Actor
        /\ UNCHANGED <<caKey, caCert, cert, published, raced>>
    BY <1>6 DEF Loaded, Renewed, files, Actor
  <2> QED BY <2>1, EndIsQuiet, QuietKeepsSound
<1>7. ASSUME Crash PROVE Sound'
  <2>1. /\ UNCHANGED <<caKey, caCert, cert, published, raced>>
        /\ \A b \in Actor : actor'[b] = Idle
    BY <1>7 DEF Crash, files
  <2>2. Idle.pc \notin Writing
    BY IdleType DEF Writing
  <2> QED BY <2>1, <2>2, QuietKeepsSound
<1>8. ASSUME Rewire \/ SetBack \/ Tick PROVE Sound'
  BY <1>8, QuietKeepsSound DEF Rewire, SetBack, Tick, files
<1> QED BY <1>1, <1>2, <1>3, <1>4, <1>5, <1>6, <1>7, <1>8, StopKeepsSound, LoseKeepsSound
     DEF Next, Serve

\* One actor at most creates the authority, and everything on disk or about to be was
\* signed by an authority that stood there, unless two actors created one at once
\* (Issuance::ensure, create_authority, write_pair).
THEOREM AlwaysSound == Spec => []Sound
<1>1. Init => Sound
  BY IdleType DEF Init, Sound, Numbered, OneCreates, Traced, Creating, At, Idle
<1>2. TypeOK /\ Sound /\ [Next]_vars => Sound'
  BY NextKeepsSound
<1> QED BY <1>1, <1>2, CertificatesTypeCorrect, PTL DEF Spec

\* The listener answers handshakes with a key that belongs to its certificate, issued by an
\* authority that stood on disk (Presented, certified_key).
THEOREM AlwaysUsable == Spec => []PresentedUsable
<1>1. Init => PresentedUsable
  BY DEF Init, PresentedUsable
<1>2. TypeOK /\ Sound /\ PresentedUsable /\ [Next]_vars => PresentedUsable'
  <2> SUFFICES ASSUME TypeOK, Sound, PresentedUsable, [Next]_vars PROVE PresentedUsable'
    OBVIOUS
  <2>0. ASSUME NEW a \in Actor, Examine(a) \/ RenameCaCert(a)
        PROVE  published \subseteq published' /\ (~raced' => ~raced)
    <3>1. CASE Examine(a)
      <4>1. /\ UNCHANGED published
            /\ \/ UNCHANGED raced
               \/ raced' = (raced \/ \E b \in Actor \ {a} : Creating(b))
        BY <3>1 DEF Examine, Creating
      <4>2. raced => raced'
        BY <4>1, Zenon
      <4>3. published' = published
        BY <4>1, Zenon
      <4> QED BY <4>2, <4>3
    <3>2. CASE RenameCaCert(a)
      BY <3>2 DEF RenameCaCert
    <3> QED BY <2>0, <3>1, <3>2
  <2>1. published \subseteq published' /\ (~raced' => ~raced)
    <3>1. CASE \E a \in Actor : Examine(a) \/ RenameCaCert(a)
      BY <2>0, <3>1
    <3>2. CASE UNCHANGED <<published, raced>>
      BY <3>2
    <3> QED BY <3>1, <3>2
         DEF Next, vars, Ensure, RenameCaKey, RenameKey, RenameCert, Refuse, Fail, Failed,
         Serve, Load, Loaded, Check, Renewed, Generate, Stop, Crash, Lose, Rewire, SetBack, Tick
  <2>2. CASE UNCHANGED presented
    BY <2>1, <2>2 DEF PresentedUsable
  <2>3. CASE presented' = NoPair
    BY <2>3 DEF PresentedUsable, NoPair
  <2>4. CASE Readable /\ Present /\ UNCHANGED <<published, raced>>
    <3>1. presented'.key = key /\ presented'.cert = cert /\ cert # NoCert /\ cert.key = key
      BY <2>4 DEF Present, Readable
    <3>2. ~raced => cert.by \in published
      BY <3>1 DEF Sound, Traced
    <3> QED BY <2>4, <3>1, <3>2 DEF PresentedUsable
  <2> QED BY <2>2, <2>3, <2>4
       DEF Next, vars, files, Ensure, Examine, RenameCaKey, RenameCaCert, RenameKey,
       RenameCert, Refuse, Fail, Failed, Serve, Load, Loaded, Check, Renewed, RenewKept,
       RenewIssued, Generate, Stop, Crash, Lose, Rewire, SetBack, Tick
<1> QED BY <1>1, <1>2, AlwaysSound, CertificatesTypeCorrect, PTL DEF Spec

\* While either file of an authority that clients may trust remains, nothing puts another
\* authority in its place (Authority::read, create_authority).
THEOREM AuthorityAlwaysKept == Spec => AuthorityKept
<1> DEFINE Kept == ~raced' => /\ caKey \in published => caKey' \in {caKey, 0}
                              /\ caCert \in published => caCert' \in {caCert, 0}
<1>1. Sound /\ [Next]_vars => [Kept]_vars
  <2> SUFFICES ASSUME Sound, Next, ~raced'
               PROVE  /\ caKey \in published => caKey' \in {caKey, 0}
                      /\ caCert \in published => caCert' \in {caCert, 0}
    OBVIOUS
  <2>1. ASSUME NEW a \in Actor, RenameCaKey(a) \/ RenameCaCert(a)
        PROVE  /\ caKey \in published => caKey' \in {caKey, 0}
               /\ caCert \in published => caCert' \in {caCert, 0}
    <3>1. ~raced
      BY <2>1 DEF RenameCaKey, RenameCaCert
    <3> QED BY <2>1, <3>1 DEF RenameCaKey, RenameCaCert, Sound, OneCreates, Numbered
  <2>2. CASE caKey' \in {caKey, 0} /\ caCert' \in {caCert, 0}
    BY <2>2
  <2> QED BY <2>1, <2>2
       DEF Next, files, Ensure, Examine, RenameKey, RenameCert, Refuse, Fail, Failed, Serve,
       Load, Loaded, Check, Renewed, Generate, Stop, Crash, Lose, Rewire, SetBack, Tick
<1> QED BY <1>1, AlwaysSound, PTL DEF Spec, AuthorityKept

-----------------------------------------------------------------------------
(* Fresh: how long what is presented stays valid.                            *)

\* A certificate is valid at a time and for a whole renewal window after it.
Current(c, t) == c.from <= t /\ t + Window <= c.until

\* Time passes over no issuance, so whoever is at one has read the present time.
OnTime == \A a \in Actor : actor[a].pc # "idle" => actor[a].at = now

\* What is about to be renamed into place is current, and no certificate that is there,
\* presented or about to be.
NewCerts ==
  /\ cert.key <= fresh /\ presented.cert.key <= fresh
  /\ \A a \in Actor : actor[a].pc \in Writing =>
       /\ actor[a].cert.key <= fresh /\ actor[a].cert.key # 0
       /\ actor[a].cert.key # cert.key /\ actor[a].cert.key # presented.cert.key
       /\ Current(actor[a].cert, actor[a].at)
  /\ \A a, b \in Actor : a # b /\ actor[a].pc \in Writing /\ actor[b].pc \in Writing =>
       actor[a].cert.key # actor[b].cert.key

\* When the server's check has come to its end, what is on disk is current, whoever put it
\* there since.
Checked == actor["server"].pc \in {"kept", "issued"} => Current(cert, actor["server"].at)

PresentedCurrent == listener = "up" /\ presented.cert = cert => Current(cert, good)

FreshInv == OnTime /\ NewCerts /\ Checked /\ PresentedCurrent

LEMMA WindowType == Window \in Nat /\ Window + Backdate < Life
<1>1. Life \div 3 \in Nat BY ConstantsAssumption
<1> QED BY <1>1, ConstantsAssumption, MarginAssumption DEF Window, Min2

\* What is signed now is current now.
LEMMA SignedCurrent ==
  ASSUME NEW at \in Int, NEW names \in SUBSET Name, NEW authority \in Nat, NEW k \in Nat
  PROVE  /\ Signed(at, names, authority, k).key = k
         /\ Current(Signed(at, names, authority, k), at)
<1>1. /\ Signed(at, names, authority, k).key = k
      /\ Signed(at, names, authority, k).from = at - Backdate
      /\ Signed(at, names, authority, k).until = at - Backdate + Life - 1
  BY DEF Signed
<1> QED BY <1>1, WindowType, ConstantsAssumption DEF Current

\* A step that signs nothing and renames no certificate.
LEMMA CalmKeeps ==
  ASSUME TypeOK, FreshInv, UNCHANGED <<now, cert, fresh>>,
         presented' = presented \/ presented'.cert = cert \/ presented'.cert.key = 0,
         \A b \in Actor :
           \/ actor'[b] = actor[b]
           \/ actor'[b].pc \notin Writing /\ (actor'[b].pc # "idle" => actor'[b].at = now)
           \/ /\ actor[b].pc \in Writing /\ actor'[b].pc \in Writing
              /\ actor'[b].cert = actor[b].cert /\ actor'[b].at = actor[b].at,
         Checked', PresentedCurrent'
  PROVE  FreshInv'
<1>0. "idle" \notin Writing BY DEF Writing
<1>1. OnTime' BY <1>0 DEF FreshInv, OnTime
<1>2. \A b \in Actor : actor'[b].pc \in Writing =>
        actor[b].pc \in Writing /\ actor'[b].cert = actor[b].cert /\ actor'[b].at = actor[b].at
  OBVIOUS
<1>3. presented'.cert.key \in {presented.cert.key, cert.key, 0} OBVIOUS
<1>4. fresh \in Nat BY DEF TypeOK
<1>5. NewCerts' BY <1>2, <1>3, <1>4 DEF FreshInv, NewCerts
<1> QED BY <1>1, <1>5 DEF FreshInv

LEMMA FreshInitially == Init => FreshInv
<1> SUFFICES ASSUME Init PROVE FreshInv OBVIOUS
<1>1. /\ \A a \in Actor : actor[a].pc = "idle"
      /\ cert.key = 0 /\ presented.cert.key = 0 /\ fresh \in {0, 1} /\ listener = "down"
      /\ "server" \in Actor
  BY DEF Init, Idle, NoCert, NoPair, Actor
<1> QED BY <1>1 DEF FreshInv, OnTime, NewCerts, Checked, PresentedCurrent, Writing

\* The decision: keep what is current, or sign with a key nobody has.
LEMMA ExamineKeepsFresh == ASSUME TypeOK, FreshInv, NEW a \in Actor, Examine(a) PROVE FreshInv'
<1>1. /\ actor[a].pc = "read" /\ actor[a].at = now /\ actor[a] \in Acting
      /\ UNCHANGED <<now, cert, presented, listener, good>>
  BY DEF Examine, At, FreshInv, OnTime, files, TypeOK
<1>2. CASE /\ Judge(actor[a].at, actor[a].names) = "current" /\ Becomes(a, Ended(a))
           /\ UNCHANGED fresh
  <2>1. Current(cert, now)
    <3>1. ~(cert.from > now) /\ ~(cert.until - now < Window) BY <1>1, <1>2 DEF Judge
    <3>2. cert.from \in Int /\ cert.until \in Int /\ now \in Int BY DEF TypeOK, Certificate
    <3> QED BY <3>1, <3>2, WindowType DEF Current
  <2>2. /\ Ended(a) \in Acting /\ Ended(a).pc \notin Writing
        /\ Ended(a).pc # "idle" => Ended(a).at = now
    <3>1. CASE a = "server"
      <4>1. Ended(a) = [actor[a] EXCEPT !.pc = "kept"] BY <3>1 DEF Ended
      <4> QED BY <1>1, <4>1 DEF Acting, Steps, Writing
    <3>2. CASE a # "server"
      <4>1. Ended(a) = Idle BY <3>2 DEF Ended
      <4> QED BY <4>1, IdleType DEF Writing
    <3> QED BY <3>1, <3>2
  <2>3. actor'[a] = Ended(a) /\ \A b \in Actor \ {a} : actor'[b] = actor[b]
    BY <1>2, <2>2, BecomesType
  <2>4. Checked'
    <3>1. CASE a = "server" BY <1>1, <2>1, <2>2, <2>3, <3>1 DEF Checked, Writing
    <3>2. CASE a # "server"
      <4>1. actor'["server"] = actor["server"] BY <2>3, <3>2 DEF Actor
      <4> QED BY <1>1, <4>1 DEF FreshInv, Checked
    <3> QED BY <3>1, <3>2
  <2>5. PresentedCurrent' BY <1>1 DEF FreshInv, PresentedCurrent
  <2> QED BY <1>1, <1>2, <2>2, <2>3, <2>4, <2>5, CalmKeeps
<1>3. ASSUME NEW r \in Acting, NEW k \in Nat, Becomes(a, r), r.at = now, r.pc \in Writing,
             fresh < k, fresh' = k, r.cert.key = k, Current(r.cert, now)
      PROVE  FreshInv'
  <2>1. actor'[a] = r /\ \A b \in Actor \ {a} : actor'[b] = actor[b] BY <1>3, BecomesType
  <2>2. OnTime' BY <1>1, <1>3, <2>1 DEF FreshInv, OnTime
  <2>3. fresh \in Nat /\ cert.key \in Nat /\ presented.cert.key \in Nat
        /\ \A b \in Actor : actor[b].cert.key \in Nat
    BY DEF TypeOK, Certificate, Acting
  <2>4. NewCerts' BY <1>1, <1>3, <2>1, <2>3 DEF FreshInv, NewCerts
  <2>5. Checked'
    <3>1. CASE a = "server" BY <1>3, <2>1, <3>1 DEF Checked, Writing
    <3>2. CASE a # "server"
      <4>1. actor'["server"] = actor["server"] BY <2>1, <3>2 DEF Actor
      <4> QED BY <1>1, <4>1 DEF FreshInv, Checked
    <3> QED BY <3>1, <3>2
  <2>6. PresentedCurrent' BY <1>1 DEF FreshInv, PresentedCurrent
  <2> QED BY <2>2, <2>4, <2>5, <2>6 DEF FreshInv
<1>4. ASSUME NEW authority \in Nat, NEW used \in Nat
      PROVE  /\ Issue(a, authority, used) \in Acting /\ Issue(a, authority, used).pc = "key"
             /\ Issue(a, authority, used).at = now
             /\ Issue(a, authority, used).cert.key = used + 1
             /\ Current(Issue(a, authority, used).cert, now)
  <2> DEFINE signed == Signed(actor[a].at, actor[a].names, authority, used + 1)
  <2>1. actor[a].at \in Int /\ actor[a].names \in SUBSET Name /\ used + 1 \in Nat
    BY <1>1 DEF Acting
  <2>2. signed.key = used + 1 /\ Current(signed, now) BY <1>1, <2>1, SignedCurrent
  <2>3. Issue(a, authority, used)
          = [actor[a] EXCEPT !.pc = "key", !.authority = authority, !.key = used + 1,
                             !.cert = signed]
    BY DEF Issue
  <2>4. Issue(a, authority, used) \in Acting BY IssueType
  <2> HIDE DEF signed
  <2>5. /\ Issue(a, authority, used).pc = "key" /\ Issue(a, authority, used).at = actor[a].at
        /\ Issue(a, authority, used).cert = signed
    BY <1>1, <2>3 DEF Acting
  <2> QED BY <1>1, <2>2, <2>4, <2>5
<1>5. CASE fresh' = fresh + 1 /\ Becomes(a, Issue(a, caCert, fresh))
  <2>1. caCert \in Nat /\ fresh \in Nat /\ fresh + 1 \in Nat /\ fresh < fresh + 1 BY DEF TypeOK
  <2>2. /\ Issue(a, caCert, fresh) \in Acting /\ Issue(a, caCert, fresh).pc \in Writing
        /\ Issue(a, caCert, fresh).at = now /\ Issue(a, caCert, fresh).cert.key = fresh + 1
        /\ Current(Issue(a, caCert, fresh).cert, now)
    BY <1>4, <2>1 DEF Writing
  <2> QED BY <1>3, <1>5, <2>1, <2>2
<1>6. CASE /\ fresh' = fresh + 2
           /\ Becomes(a, [Issue(a, fresh + 1, fresh + 1) EXCEPT !.pc = "caKey"])
  <2> DEFINE i == Issue(a, fresh + 1, fresh + 1)
  <2>1. fresh \in Nat /\ fresh + 1 \in Nat /\ fresh + 2 \in Nat /\ fresh < fresh + 2
        /\ fresh + 1 + 1 = fresh + 2
    BY DEF TypeOK
  <2>2. i \in Acting /\ i.at = now /\ i.cert.key = fresh + 2 /\ Current(i.cert, now)
    BY <1>4, <2>1
  <2>3. Becomes(a, [i EXCEPT !.pc = "caKey"]) BY <1>6
  <2> HIDE DEF i
  <2> DEFINE r == [i EXCEPT !.pc = "caKey"]
  <2>4. /\ r \in Acting /\ r.pc \in Writing /\ r.at = now /\ r.cert = i.cert
    BY <2>2 DEF Acting, Steps, Writing
  <2>5. Becomes(a, r) BY <2>3
  <2> HIDE DEF r
  <2> QED BY <1>3, <1>6, <2>1, <2>2, <2>4, <2>5
<1> QED BY <1>2, <1>5, <1>6 DEF Examine

\* The rename of a certificate: what it puts there is current, and is not what is presented.
LEMMA RenameKeepsFresh == ASSUME TypeOK, FreshInv, NEW a \in Actor, RenameCert(a) PROVE FreshInv'
<1>1. /\ actor[a].pc = "cert" /\ actor[a].pc \in Writing /\ actor[a].at = now
      /\ cert' = actor[a].cert
      /\ UNCHANGED <<now, listener, presented, good, fresh>>
  BY DEF RenameCert, At, FreshInv, OnTime, Writing
<1>2. /\ actor'[a].pc \notin Writing /\ (actor'[a].pc # "idle" => actor'[a].at = now)
      /\ \A b \in Actor \ {a} : actor'[b] = actor[b]
  <2>1. CASE a = "server"
    <3>1. actor' = [actor EXCEPT ![a] = [actor[a] EXCEPT !.pc = "issued"]] /\ actor[a] \in Acting
      BY <2>1 DEF RenameCert, Becomes, TypeOK
    <3> QED BY <1>1, <3>1 DEF TypeOK, Acting, Writing
  <2>2. CASE a # "server"
    <3>1. Becomes(a, Idle) BY <2>2 DEF RenameCert
    <3> QED BY <3>1, IdleType, BecomesType DEF Writing
  <2> QED BY <2>1, <2>2
<1>3. OnTime' BY <1>1, <1>2 DEF FreshInv, OnTime
<1>4. NewCerts' BY <1>1, <1>2 DEF FreshInv, NewCerts
<1>5. Current(cert', now) BY <1>1 DEF FreshInv, NewCerts
<1>6. Checked'
  <2>1. actor'["server"].pc # "idle" => actor'["server"].at = now'
    BY <1>3 DEF OnTime, Actor
  <2> QED BY <1>1, <1>5, <2>1 DEF Checked
<1>7. PresentedCurrent' BY <1>1 DEF FreshInv, NewCerts, PresentedCurrent
<1> QED BY <1>3, <1>4, <1>6, <1>7 DEF FreshInv

\* Somebody begins: the clock was read now.
LEMMA BeginFresh ==
  ASSUME TypeOK, NEW a \in Actor, NEW force, Begin(a, force)
  PROVE  /\ actor'[a].pc = "read" /\ actor'[a].at = now
         /\ \A b \in Actor \ {a} : actor'[b] = actor[b]
BY DEF Begin, Becomes, TypeOK, Idle

LEMMA NextKeepsFresh == TypeOK /\ FreshInv /\ [Next]_vars => FreshInv'
<1> SUFFICES ASSUME TypeOK, FreshInv, [Next]_vars PROVE FreshInv' OBVIOUS
<1>0. "server" \in Actor /\ "command" \in Actor /\ "idle" \notin Writing /\ "read" \notin Writing
  BY DEF Actor, Writing
<1>1. CASE UNCHANGED <<now, cert, fresh, presented, actor, listener, good>>
  BY <1>1, CalmKeeps DEF FreshInv, Checked, PresentedCurrent
<1>2. ASSUME NEW a \in Actor, Refuse(a) \/ Fail(a) PROVE FreshInv'
  <2>1. /\ Becomes(a, Idle) /\ UNCHANGED <<now, cert, presented, good, fresh>>
        /\ listener' = "up" => listener = "up"
    BY <1>2 DEF Refuse, Fail, Failed, files
  <2>2. actor'[a].pc = "idle" /\ \A b \in Actor \ {a} : actor'[b] = actor[b]
    BY <2>1, IdleType, BecomesType
  <2>3. Checked' BY <1>0, <2>1, <2>2 DEF FreshInv, Checked
  <2>4. PresentedCurrent' BY <2>1 DEF FreshInv, PresentedCurrent
  <2> QED BY <1>0, <2>1, <2>2, <2>3, <2>4, CalmKeeps
<1>3. ASSUME NEW a \in Actor, RenameCaKey(a) \/ RenameCaCert(a) \/ RenameKey(a) PROVE FreshInv'
  <2>1. /\ actor[a].pc \in Writing
        /\ \E pc \in {"caCert", "key", "cert"} : actor' = [actor EXCEPT ![a] = [actor[a] EXCEPT !.pc = pc]]
        /\ UNCHANGED <<now, cert, fresh, presented, listener, good>>
    BY <1>3 DEF RenameCaKey, RenameCaCert, RenameKey, Becomes, At, Writing
  <2>2. /\ actor'[a].pc \in {"caCert", "key", "cert"} /\ actor'[a].cert = actor[a].cert
        /\ actor'[a].at = actor[a].at
        /\ \A b \in Actor \ {a} : actor'[b] = actor[b]
    <3>1. actor[a] \in Acting BY DEF TypeOK
    <3> QED BY <2>1, <3>1 DEF TypeOK, Acting
  <2>3. Checked' BY <1>0, <2>1, <2>2 DEF FreshInv, Checked
  <2>4. PresentedCurrent' BY <2>1 DEF FreshInv, PresentedCurrent
  <2> QED BY <2>1, <2>2, <2>3, <2>4, CalmKeeps DEF Writing
<1>4. ASSUME NEW a \in Actor, Ensure(a) PROVE FreshInv'
  BY <1>2, <1>3, <1>4, ExamineKeepsFresh, RenameKeepsFresh DEF Ensure
<1>5. ASSUME NEW a \in Actor, NEW force, Begin(a, force), listener' = "up" => listener = "up",
             UNCHANGED <<now, cert, fresh, presented, good>>
      PROVE  FreshInv'
  <2>1. /\ actor'[a].pc = "read" /\ actor'[a].at = now
        /\ \A b \in Actor \ {a} : actor'[b] = actor[b]
    BY <1>5, BeginFresh
  <2>2. Checked' BY <1>0, <1>5, <2>1 DEF FreshInv, Checked
  <2>3. PresentedCurrent' BY <1>5 DEF FreshInv, PresentedCurrent
  <2> QED BY <1>0, <1>5, <2>1, <2>2, <2>3, CalmKeeps
<1>6. CASE Load \/ Check BY <1>0, <1>5, <1>6 DEF Load, Check, files
<1>7. ASSUME NEW force \in BOOLEAN, Generate(force) PROVE FreshInv'
  BY <1>0, <1>5, <1>7 DEF Generate, files
<1>8. CASE Loaded \/ Renewed
  <2>1. /\ Becomes("server", Idle) /\ UNCHANGED <<now, cert, fresh>>
        /\ good' = actor["server"].at /\ actor["server"].pc \in {"kept", "issued"}
        /\ presented' = presented \/ presented' = [key |-> key, cert |-> cert]
    BY <1>8 DEF Loaded, Renewed, RenewKept, RenewIssued, Present, At, files
  <2>2. actor'["server"].pc = "idle" /\ \A b \in Actor \ {"server"} : actor'[b] = actor[b]
    BY <1>0, <2>1, IdleType, BecomesType
  <2>3. presented' = presented \/ presented'.cert = cert BY <2>1
  <2>4. Checked' BY <2>2 DEF Checked
  <2>5. PresentedCurrent' BY <2>1 DEF FreshInv, Checked, PresentedCurrent
  <2> QED BY <1>0, <2>1, <2>2, <2>3, <2>4, <2>5, CalmKeeps
<1>9. CASE Stop
  <2>1. /\ UNCHANGED <<now, cert, fresh>> /\ listener' = "down" /\ presented'.cert.key = 0
        /\ actor["dropped"].pc = "idle"
    BY <1>9 DEF Stop, files, NoPair, NoCert, At
  <2>2. /\ actor'["server"].pc = "idle" /\ actor'["command"] = actor["command"]
        /\ actor'["dropped"].pc = "idle" \/ actor'["dropped"] = actor["server"]
    BY <1>9, IdleType DEF Stop, TypeOK, Actor
  <2>3. \A b \in Actor : b \in {"server", "dropped", "command"} BY DEF Actor
  <2>4. OnTime' BY <1>0, <2>1, <2>2, <2>3 DEF FreshInv, OnTime
  <2>5. fresh \in Nat BY DEF TypeOK
  <2>6. NewCerts' BY <1>0, <2>1, <2>2, <2>3, <2>5 DEF FreshInv, NewCerts
  <2>7. Checked' /\ PresentedCurrent' BY <2>1, <2>2 DEF Checked, PresentedCurrent
  <2> QED BY <2>4, <2>6, <2>7 DEF FreshInv
<1>10. CASE Crash
  <2>1. /\ UNCHANGED <<now, cert, fresh>> /\ listener' = "down" /\ presented'.cert.key = 0
        /\ \A b \in Actor : actor'[b].pc = "idle"
    BY <1>10, IdleType DEF Crash, files, NoPair, NoCert
  <2>2. Checked' /\ PresentedCurrent' BY <1>0, <2>1 DEF Checked, PresentedCurrent
  <2> QED BY <1>0, <2>1, <2>2, CalmKeeps
<1>11. CASE Lose \/ Rewire BY <1>1, <1>11 DEF Lose, Rewire, files
<1>12. CASE SetBack \/ Tick
  <2>1. /\ UNCHANGED <<cert, fresh, presented, actor, listener, good>>
        /\ \A b \in Actor : actor[b].pc = "idle"
    BY <1>12 DEF SetBack, Tick, files, At
  <2> QED BY <1>0, <2>1 DEF FreshInv, OnTime, NewCerts, Checked, PresentedCurrent
<1>13. CASE UNCHANGED vars BY <1>1, <1>13 DEF vars, files
<1> QED
  BY <1>2, <1>4, <1>6, <1>7, <1>8, <1>9, <1>10, <1>11, <1>12, <1>13 DEF Next, Serve

\* For any lifetime, backdating and number of failing checks, crashes, dropped renewals,
\* commands and clock changes, what the listener presents and the disk holds is valid for a
\* whole renewal window after the last check that succeeded (Leaf::judge, renewal_window).
THEOREM AlwaysFresh == Spec => []Fresh
<1>1. TypeOK /\ FreshInv => Fresh
  <2> SUFFICES ASSUME TypeOK, FreshInv, listener = "up", presented.cert = cert,
                      good <= now, now <= good + Window
               PROVE  presented.cert.from <= now /\ now <= presented.cert.until
    BY DEF Fresh
  <2>1. cert.from <= good /\ good + Window <= cert.until
    BY DEF FreshInv, PresentedCurrent, Current
  <2>2. cert.from \in Int /\ cert.until \in Int /\ now \in Int /\ good \in Int
    BY DEF TypeOK, Certificate
  <2> QED BY <2>1, <2>2, WindowType
<1> QED BY <1>1, FreshInitially, NextKeepsFresh, CertificatesTypeCorrect, PTL DEF Spec

=============================================================================
