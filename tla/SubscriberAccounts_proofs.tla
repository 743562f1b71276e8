---------------------- MODULE SubscriberAccounts_proofs ----------------------
(***************************************************************************)
(* Proofs about SubscriberAccounts, for any number of subscribers,         *)
(* usernames and packages, and of requests and failures in any order.      *)
(***************************************************************************)
EXTENDS SubscriberAccounts, SequenceTheorems, TLAPS

-----------------------------------------------------------------------------
(* The statements of a push, one by one.                                   *)

AttrSteps == {"deleteAttr", "insertAttr"} \X Attributes

\* A statement or two before others.
LEMMA StepsAhead ==
  ASSUME NEW x \in AttrSteps, NEW y \in AttrSteps, NEW t \in Seq(AttrSteps)
  PROVE  /\ <<x>> \o t \in Seq(AttrSteps) /\ <<x, y>> \o t \in Seq(AttrSteps)
         /\ <<x>> \o t # <<>> /\ <<x, y>> \o t # <<>>
         /\ Head(<<x>> \o t) = x /\ Tail(<<x>> \o t) = t
         /\ Head(<<x, y>> \o t) = x
         /\ Tail(<<x, y>> \o t) # <<>> /\ Tail(<<x, y>> \o t) \in Seq(AttrSteps)
         /\ Head(Tail(<<x, y>> \o t)) = y /\ Tail(Tail(<<x, y>> \o t)) = t
         /\ Len(<<x>> \o t) = Len(t) + 1 /\ Len(<<x, y>> \o t) = Len(t) + 2
         /\ Len(Tail(<<x, y>> \o t)) = Len(t) + 1
<1> HIDE DEF AttrSteps
<1>1. <<x>> \in Seq(AttrSteps) /\ <<x, y>> \in Seq(AttrSteps) /\ Len(t) \in Nat
  OBVIOUS
<1>2. /\ <<x>> \o t \in Seq(AttrSteps) /\ Len(<<x>> \o t) = Len(t) + 1
      /\ \A i \in 1..Len(t) + 1 : (<<x>> \o t)[i] = IF i <= 1 THEN x ELSE t[i - 1]
  BY <1>1
<1>3. /\ <<x, y>> \o t \in Seq(AttrSteps) /\ Len(<<x, y>> \o t) = Len(t) + 2
      /\ \A i \in 1..Len(t) + 2 : (<<x, y>> \o t)[i] = IF i = 1 THEN x ELSE IF i = 2 THEN y ELSE t[i - 2]
  BY <1>1
<1>4. Tail(<<x>> \o t) = t
  BY <1>1, <1>2, SeqEqual
<1>5. /\ Tail(<<x, y>> \o t) \in Seq(AttrSteps) /\ Len(Tail(<<x, y>> \o t)) = Len(t) + 1
      /\ \A i \in 1..Len(t) + 1 : Tail(<<x, y>> \o t)[i] = IF i = 1 THEN y ELSE t[i - 1]
  BY <1>1, <1>3
<1>6. Tail(Tail(<<x, y>> \o t)) = t
  <2> DEFINE u == Tail(<<x, y>> \o t)
  <2>1. u \in Seq(AttrSteps) /\ Len(u) = Len(t) + 1 /\ \A i \in 1..Len(t) + 1 : u[i] = IF i = 1 THEN y ELSE t[i - 1]
    BY <1>5
  <2> HIDE DEF u
  <2>2. Tail(u) = t
    BY <1>1, <2>1, SeqEqual
  <2> QED
    BY <2>2 DEF u
<1>7. <<x>> \o t # <<>> /\ <<x, y>> \o t # <<>> /\ Tail(<<x, y>> \o t) # <<>>
  <2>1. Len(<<x>> \o t) # 0 /\ Len(<<x, y>> \o t) # 0 /\ Len(Tail(<<x, y>> \o t)) # 0
    BY <1>1, <1>2, <1>3, <1>5
  <2> QED
    BY <2>1, Len(<<>>) = 0
<1>8. Head(<<x>> \o t) = x /\ Head(<<x, y>> \o t) = x /\ Head(Tail(<<x, y>> \o t)) = y
  <2>1. (<<x>> \o t)[1] = x /\ (<<x, y>> \o t)[1] = x /\ Tail(<<x, y>> \o t)[1] = y
    BY <1>1, <1>2, <1>3, <1>5
  <2> QED
    BY <1>2, <1>3, <1>5, <1>7, <2>1
<1> QED
  BY <1>2, <1>3, <1>4, <1>5, <1>6, <1>7, <1>8

LEMMA SetAhead ==
  ASSUME NEW a \in Attributes, NEW t \in Seq(AttrSteps)
  PROVE  /\ SetAttr(a) \o t \in Seq(AttrSteps) /\ Tail(SetAttr(a) \o t) \in Seq(AttrSteps)
         /\ SetAttr(a) \o t # <<>> /\ Tail(SetAttr(a) \o t) # <<>>
         /\ Head(SetAttr(a) \o t) = <<"deleteAttr", a>>
         /\ Head(Tail(SetAttr(a) \o t)) = <<"insertAttr", a>>
         /\ Tail(Tail(SetAttr(a) \o t)) = t
         /\ Len(SetAttr(a) \o t) = Len(t) + 2 /\ Len(Tail(SetAttr(a) \o t)) = Len(t) + 1
<1> DEFINE x == <<"deleteAttr", a>>
           y == <<"insertAttr", a>>
<1>1. x \in AttrSteps /\ y \in AttrSteps
  BY DEF AttrSteps, Attributes
<1>2. SetAttr(a) = <<x, y>>
  BY DEF SetAttr
<1> HIDE DEF x, y, AttrSteps
<1>3. /\ <<x, y>> \o t \in Seq(AttrSteps) /\ Tail(<<x, y>> \o t) \in Seq(AttrSteps)
      /\ <<x, y>> \o t # <<>> /\ Tail(<<x, y>> \o t) # <<>>
      /\ Head(<<x, y>> \o t) = x /\ Head(Tail(<<x, y>> \o t)) = y /\ Tail(Tail(<<x, y>> \o t)) = t
      /\ Len(<<x, y>> \o t) = Len(t) + 2 /\ Len(Tail(<<x, y>> \o t)) = Len(t) + 1
  <2>1. /\ <<x, y>> \o t \in Seq(AttrSteps) /\ Tail(<<x, y>> \o t) \in Seq(AttrSteps)
        /\ <<x, y>> \o t # <<>> /\ Tail(<<x, y>> \o t) # <<>>
    BY <1>1, StepsAhead, Zenon
  <2>2. Head(<<x, y>> \o t) = x
    BY <1>1, StepsAhead
  <2>4. Head(Tail(<<x, y>> \o t)) = y /\ Tail(Tail(<<x, y>> \o t)) = t
    BY <1>1, StepsAhead
  <2>3. Len(<<x, y>> \o t) = Len(t) + 2 /\ Len(Tail(<<x, y>> \o t)) = Len(t) + 1
    BY <1>1, StepsAhead, Zenon
  <2> QED
    BY <2>1, <2>2, <2>3, <2>4, Zenon
<1>4. /\ SetAttr(a) \o t \in Seq(AttrSteps) /\ Tail(SetAttr(a) \o t) \in Seq(AttrSteps)
      /\ SetAttr(a) \o t # <<>> /\ Tail(SetAttr(a) \o t) # <<>>
      /\ Head(SetAttr(a) \o t) = x /\ Head(Tail(SetAttr(a) \o t)) = y
      /\ Tail(Tail(SetAttr(a) \o t)) = t
      /\ Len(SetAttr(a) \o t) = Len(t) + 2 /\ Len(Tail(SetAttr(a) \o t)) = Len(t) + 1
  BY <1>2, <1>3, Zenon
<1> QED
  BY <1>4, Zenon DEF x, y

LEMMA ClearAhead ==
  ASSUME NEW a \in Attributes, NEW t \in Seq(AttrSteps)
  PROVE  /\ ClearAttr(a) \o t \in Seq(AttrSteps) /\ ClearAttr(a) \o t # <<>>
         /\ Head(ClearAttr(a) \o t) = <<"deleteAttr", a>>
         /\ Tail(ClearAttr(a) \o t) = t
         /\ Len(ClearAttr(a) \o t) = Len(t) + 1
<1> DEFINE x == <<"deleteAttr", a>>
<1>1. x \in AttrSteps
  BY DEF AttrSteps, Attributes
<1>2. ClearAttr(a) = <<x>>
  BY DEF ClearAttr
<1> HIDE DEF x, AttrSteps
<1>3. /\ <<x>> \o t \in Seq(AttrSteps) /\ <<x>> \o t # <<>>
      /\ Head(<<x>> \o t) = x /\ Tail(<<x>> \o t) = t
      /\ Len(<<x>> \o t) = Len(t) + 1
  BY <1>1, StepsAhead
<1>4. /\ ClearAttr(a) \o t \in Seq(AttrSteps) /\ ClearAttr(a) \o t # <<>>
      /\ Head(ClearAttr(a) \o t) = x /\ Tail(ClearAttr(a) \o t) = t
      /\ Len(ClearAttr(a) \o t) = Len(t) + 1
  BY <1>2, <1>3, Zenon
<1> QED
  BY <1>4, Zenon DEF x

LEMMA AttributesNamed ==
  /\ "Cleartext-Password" \in Attributes /\ "Auth-Type" \in Attributes
  /\ "Expiration" \in Attributes /\ "Rate-Limit" \in Attributes
BY DEF Attributes

LEMMA RateSteps ==
  /\ FromRate \in Seq(AttrSteps) /\ FromRate # <<>>
  /\ Tail(FromRate) \in Seq(AttrSteps) /\ Tail(FromRate) # <<>>
  /\ Head(FromRate) = <<"deleteAttr", "Rate-Limit">>
  /\ Head(Tail(FromRate)) = <<"insertAttr", "Rate-Limit">>
  /\ Tail(Tail(FromRate)) = <<>>
  /\ Len(FromRate) = 2 /\ Len(Tail(FromRate)) = 1
<1>1. <<"deleteAttr", "Rate-Limit">> \in AttrSteps /\ <<"insertAttr", "Rate-Limit">> \in AttrSteps
  BY DEF AttrSteps, Attributes
<1>2. FromRate \in Seq(AttrSteps)
  <2> DEFINE x == <<"deleteAttr", "Rate-Limit">>
             y == <<"insertAttr", "Rate-Limit">>
  <2>1. <<x, y>> \in Seq(AttrSteps)
    <3> HIDE DEF x, y, AttrSteps
    <3>1. x \in AttrSteps /\ y \in AttrSteps
      BY <1>1, Zenon DEF x, y
    <3> QED
      BY <3>1
  <2> QED
    BY <2>1, Zenon DEF FromRate, SetAttr
<1>3. FromRate \o <<>> = FromRate /\ <<>> \in Seq(AttrSteps)
  BY <1>2, ConcatEmptySeq
<1>4. FromRate = SetAttr("Rate-Limit") \o <<>>
  BY <1>3, Zenon DEF FromRate
<1>5. /\ Tail(FromRate) \in Seq(AttrSteps) /\ FromRate # <<>> /\ Tail(FromRate) # <<>>
      /\ Head(FromRate) = <<"deleteAttr", "Rate-Limit">>
      /\ Head(Tail(FromRate)) = <<"insertAttr", "Rate-Limit">> /\ Tail(Tail(FromRate)) = <<>>
      /\ Len(FromRate) = Len(<<>>) + 2 /\ Len(Tail(FromRate)) = Len(<<>>) + 1
  BY <1>3, <1>4, AttributesNamed, SetAhead, Zenon
<1>6. Len(FromRate) = 2 /\ Len(Tail(FromRate)) = 1
  BY <1>5
<1> QED
  BY <1>2, <1>5, <1>6, Zenon

LEMMA ExpirationSteps ==
  /\ FromExpiration \in Seq(AttrSteps) /\ FromExpiration # <<>>
  /\ Tail(FromExpiration) \in Seq(AttrSteps) /\ Tail(FromExpiration) # <<>>
  /\ Head(FromExpiration) = <<"deleteAttr", "Expiration">>
  /\ Head(Tail(FromExpiration)) = <<"insertAttr", "Expiration">>
  /\ Tail(Tail(FromExpiration)) = FromRate
  /\ Len(FromExpiration) = 4 /\ Len(Tail(FromExpiration)) = 3
<1>1. /\ FromExpiration \in Seq(AttrSteps) /\ FromExpiration # <<>>
      /\ Tail(FromExpiration) \in Seq(AttrSteps) /\ Tail(FromExpiration) # <<>>
      /\ Head(FromExpiration) = <<"deleteAttr", "Expiration">>
      /\ Head(Tail(FromExpiration)) = <<"insertAttr", "Expiration">>
      /\ Tail(Tail(FromExpiration)) = FromRate
      /\ Len(FromExpiration) = Len(FromRate) + 2 /\ Len(Tail(FromExpiration)) = Len(FromRate) + 1
  BY RateSteps, AttributesNamed, SetAhead, Zenon DEF FromExpiration
<1>2. Len(FromRate) = 2
  BY RateSteps, Zenon
<1>3. Len(FromExpiration) = 4 /\ Len(Tail(FromExpiration)) = 3
  BY <1>1, <1>2
<1> QED
  BY <1>1, <1>3, Zenon

LEMMA AuthTypeSteps ==
  ASSUME NEW standing
  PROVE  /\ FromAuthType(standing) \in Seq(AttrSteps) /\ FromAuthType(standing) # <<>>
         /\ Tail(FromAuthType(standing)) \in Seq(AttrSteps) /\ Tail(FromAuthType(standing)) # <<>>
         /\ Head(FromAuthType(standing)) = <<"deleteAttr", "Auth-Type">>
         /\ standing = "ACTIVE" => /\ Tail(FromAuthType(standing)) = FromExpiration
                                   /\ Len(FromAuthType(standing)) = 5
         /\ standing # "ACTIVE" => /\ Head(Tail(FromAuthType(standing))) = <<"insertAttr", "Auth-Type">>
                                   /\ Tail(Tail(FromAuthType(standing))) = FromExpiration
                                   /\ Len(FromAuthType(standing)) = 6
                                   /\ Len(Tail(FromAuthType(standing))) = 5
<1>1. Len(FromExpiration) = 4 /\ FromExpiration \in Seq(AttrSteps) /\ FromExpiration # <<>>
  BY ExpirationSteps, Zenon
<1>2. CASE standing = "ACTIVE"
  <2>1. FromAuthType(standing) = ClearAttr("Auth-Type") \o FromExpiration
    BY <1>2, Zenon DEF FromAuthType
  <2>2. /\ FromAuthType(standing) \in Seq(AttrSteps) /\ FromAuthType(standing) # <<>>
        /\ Head(FromAuthType(standing)) = <<"deleteAttr", "Auth-Type">>
        /\ Tail(FromAuthType(standing)) = FromExpiration
        /\ Len(FromAuthType(standing)) = Len(FromExpiration) + 1
    BY <1>1, <2>1, AttributesNamed, ClearAhead, Zenon
  <2>3. Len(FromAuthType(standing)) = 5
    BY <1>1, <2>2
  <2> QED
    BY <1>1, <1>2, <2>2, <2>3, Zenon
<1>3. CASE standing # "ACTIVE"
  <2>1. FromAuthType(standing) = SetAttr("Auth-Type") \o FromExpiration
    BY <1>3, Zenon DEF FromAuthType
  <2>2. /\ FromAuthType(standing) \in Seq(AttrSteps) /\ FromAuthType(standing) # <<>>
        /\ Tail(FromAuthType(standing)) \in Seq(AttrSteps) /\ Tail(FromAuthType(standing)) # <<>>
        /\ Head(FromAuthType(standing)) = <<"deleteAttr", "Auth-Type">>
        /\ Head(Tail(FromAuthType(standing))) = <<"insertAttr", "Auth-Type">>
        /\ Tail(Tail(FromAuthType(standing))) = FromExpiration
        /\ Len(FromAuthType(standing)) = Len(FromExpiration) + 2
        /\ Len(Tail(FromAuthType(standing))) = Len(FromExpiration) + 1
    <3>1. "Auth-Type" \in Attributes
      BY AttributesNamed, Zenon
    <3> DEFINE u == SetAttr("Auth-Type") \o FromExpiration
    <3>2. /\ u \in Seq(AttrSteps) /\ u # <<>> /\ Tail(u) \in Seq(AttrSteps) /\ Tail(u) # <<>>
          /\ Head(u) = <<"deleteAttr", "Auth-Type">> /\ Head(Tail(u)) = <<"insertAttr", "Auth-Type">>
          /\ Tail(Tail(u)) = FromExpiration
          /\ Len(u) = Len(FromExpiration) + 2 /\ Len(Tail(u)) = Len(FromExpiration) + 1
      BY <1>1, <3>1, SetAhead, Zenon
    <3> QED
      BY <2>1, <3>2, Zenon
  <2>3. Len(FromAuthType(standing)) = 6 /\ Len(Tail(FromAuthType(standing))) = 5
    BY <1>1, <2>2
  <2> QED
    BY <1>1, <1>3, <2>2, <2>3, Zenon
<1> QED
  BY <1>2, <1>3, Zenon

LEMMA PasswordSteps ==
  ASSUME NEW standing
  PROVE  /\ FromPassword(standing) \in Seq(AttrSteps) /\ FromPassword(standing) # <<>>
         /\ Tail(FromPassword(standing)) \in Seq(AttrSteps) /\ Tail(FromPassword(standing)) # <<>>
         /\ Head(FromPassword(standing)) = <<"deleteAttr", "Cleartext-Password">>
         /\ Head(Tail(FromPassword(standing))) = <<"insertAttr", "Cleartext-Password">>
         /\ Tail(Tail(FromPassword(standing))) = FromAuthType(standing)
         /\ Len(FromPassword(standing)) = Len(FromAuthType(standing)) + 2
         /\ Len(Tail(FromPassword(standing))) = Len(FromAuthType(standing)) + 1
BY AuthTypeSteps, AttributesNamed, SetAhead, Zenon DEF FromPassword

-----------------------------------------------------------------------------
(* The other statements: which comes next, and which may follow it.        *)

LEMMA WriteSteps ==
  ASSUME NEW r, NEW steps, WriteAhead(r, steps)
  PROVE  /\ steps # <<>>
         /\ \E i \in DOMAIN steps : steps[i][1] \in {"insertRow", "updateRow"}
         /\ \/ /\ r.kind = "create" /\ Head(steps)[1] = "assertPackage"
               /\ Tail(steps) = << <<"findExisting">>, <<"insertRow">>, <<"readPackage">> >>
            \/ /\ r.kind = "create" /\ Head(steps)[1] = "findExisting"
               /\ Tail(steps) = << <<"insertRow">>, <<"readPackage">> >>
            \/ /\ r.kind = "create" /\ Head(steps)[1] = "insertRow"
               /\ Tail(steps) = << <<"readPackage">> >>
            \/ /\ r.kind = "update" /\ "package" \in DOMAIN r.patch /\ Head(steps)[1] = "findOwned"
               /\ Tail(steps) = << <<"assertPackage">>, <<"updateRow">>, <<"readPackage">> >>
            \/ /\ r.kind = "update" /\ "package" \in DOMAIN r.patch /\ Head(steps)[1] = "assertPackage"
               /\ Tail(steps) = << <<"updateRow">>, <<"readPackage">> >>
            \/ /\ r.kind \in {"update", "setPassword"} /\ "package" \notin DOMAIN r.patch
               /\ Head(steps)[1] = "findOwned"
               /\ Tail(steps) = << <<"updateRow">>, <<"readPackage">> >>
            \/ /\ r.kind \in {"update", "setPassword"} /\ Head(steps)[1] = "updateRow"
               /\ steps = << <<"updateRow">>, <<"readPackage">> >>
               /\ Tail(steps) = << <<"readPackage">> >>
            \/ /\ r.kind \in {"revokePassword", "remove"} /\ Head(steps)[1] = "findOwned"
               /\ Tail(steps) = Tail(Withdrawal)
            \/ /\ r.kind \in {"revokePassword", "remove"} /\ Head(steps)[1] = "updateRow"
               /\ Tail(steps) = Tail(Tail(Withdrawal))
<1>1. CASE r.kind = "create" /\ steps = << <<"assertPackage">>, <<"findExisting">>, <<"insertRow">>, <<"readPackage">> >>
  <2>1. steps # <<>> /\ Head(steps)[1] = "assertPackage"
        /\ Tail(steps) = << <<"findExisting">>, <<"insertRow">>, <<"readPackage">> >>
    BY <1>1
  <2>2. 3 \in DOMAIN steps /\ steps[3][1] = "insertRow"
    BY <1>1
  <2> QED
    BY <1>1, <2>1, <2>2, Zenon
<1>2. CASE r.kind = "create" /\ steps = << <<"findExisting">>, <<"insertRow">>, <<"readPackage">> >>
  <2>1. steps # <<>> /\ Head(steps)[1] = "findExisting"
        /\ Tail(steps) = << <<"insertRow">>, <<"readPackage">> >>
    BY <1>2
  <2>2. 2 \in DOMAIN steps /\ steps[2][1] = "insertRow"
    BY <1>2
  <2> QED
    BY <1>2, <2>1, <2>2, Zenon
<1>3. CASE r.kind = "create" /\ steps = << <<"insertRow">>, <<"readPackage">> >>
  <2>1. steps # <<>> /\ Head(steps)[1] = "insertRow" /\ Tail(steps) = << <<"readPackage">> >>
    BY <1>3
  <2>2. 1 \in DOMAIN steps /\ steps[1][1] = "insertRow"
    BY <1>3
  <2> QED
    BY <1>3, <2>1, <2>2, Zenon
<1>4. CASE /\ r.kind = "update" /\ "package" \in DOMAIN r.patch
           /\ steps = << <<"findOwned">>, <<"assertPackage">>, <<"updateRow">>, <<"readPackage">> >>
  <2>1. steps # <<>> /\ Head(steps)[1] = "findOwned"
        /\ Tail(steps) = << <<"assertPackage">>, <<"updateRow">>, <<"readPackage">> >>
    BY <1>4
  <2>2. 3 \in DOMAIN steps /\ steps[3][1] = "updateRow"
    BY <1>4
  <2> QED
    BY <1>4, <2>1, <2>2, Zenon
<1>5. CASE /\ r.kind = "update" /\ "package" \in DOMAIN r.patch
           /\ steps = << <<"assertPackage">>, <<"updateRow">>, <<"readPackage">> >>
  <2>1. steps # <<>> /\ Head(steps)[1] = "assertPackage"
        /\ Tail(steps) = << <<"updateRow">>, <<"readPackage">> >>
    BY <1>5
  <2>2. 2 \in DOMAIN steps /\ steps[2][1] = "updateRow"
    BY <1>5
  <2> QED
    BY <1>5, <2>1, <2>2, Zenon
<1>6. CASE /\ r.kind \in {"update", "setPassword"} /\ "package" \notin DOMAIN r.patch
           /\ steps = << <<"findOwned">>, <<"updateRow">>, <<"readPackage">> >>
  <2>1. steps # <<>> /\ Head(steps)[1] = "findOwned"
        /\ Tail(steps) = << <<"updateRow">>, <<"readPackage">> >>
    BY <1>6
  <2>2. 2 \in DOMAIN steps /\ steps[2][1] = "updateRow"
    BY <1>6
  <2> QED
    BY <1>6, <2>1, <2>2, Zenon
<1>7. CASE r.kind \in {"update", "setPassword"} /\ steps = << <<"updateRow">>, <<"readPackage">> >>
  <2>1. steps # <<>> /\ Head(steps)[1] = "updateRow" /\ Tail(steps) = << <<"readPackage">> >>
    BY <1>7
  <2>2. 1 \in DOMAIN steps /\ steps[1][1] = "updateRow"
    BY <1>7
  <2> QED
    BY <1>7, <2>1, <2>2, Zenon
<1>8. CASE r.kind \in {"revokePassword", "remove"} /\ steps = Withdrawal
  <2>1. steps # <<>> /\ Head(steps)[1] = "findOwned"
    BY <1>8 DEF Withdrawal
  <2>2. 2 \in DOMAIN steps /\ steps[2][1] = "updateRow"
    BY <1>8 DEF Withdrawal
  <2> QED
    BY <1>8, <2>1, <2>2, Zenon
<1>9. CASE r.kind \in {"revokePassword", "remove"} /\ steps = Tail(Withdrawal)
  <2>1. steps # <<>> /\ Head(steps)[1] = "updateRow"
    BY <1>9 DEF Withdrawal
  <2>2. 1 \in DOMAIN steps /\ steps[1][1] = "updateRow"
    BY <1>9 DEF Withdrawal
  <2> QED
    BY <1>9, <2>1, <2>2, Zenon
<1> QED
  BY <1>1, <1>2, <1>3, <1>4, <1>5, <1>6, <1>7, <1>8, <1>9, Zenon DEF WriteAhead

LEMMA PlainSteps ==
  ASSUME NEW r, NEW steps, PlainFits(r, steps)
  PROVE  /\ steps # <<>> /\ r.package \in Packages
         /\ ~ \E i \in DOMAIN steps : steps[i][1] \in {"insertRow", "updateRow"}
         /\ \/ /\ r.kind = "bulkAssign" /\ Head(steps)[1] = "assertPackage"
               /\ Tail(steps) = << <<"updateRows">> >>
            \/ /\ r.kind = "bulkAssign" /\ Head(steps)[1] = "updateRows"
               /\ steps = << <<"updateRows">> >> /\ Tail(steps) = <<>>
            \/ /\ r.kind = "updatePackage" /\ Head(steps)[1] = "assertPackage"
               /\ Tail(steps) = << <<"updatePackage">> >>
            \/ /\ r.kind = "updatePackage" /\ Head(steps)[1] = "updatePackage" /\ Tail(steps) = <<>>
            \/ /\ r.kind = "removePackage" /\ Head(steps)[1] = "assertPackage"
               /\ Tail(steps) = << <<"findInUse">>, <<"deletePackage">> >>
            \/ /\ r.kind = "removePackage" /\ Head(steps)[1] = "findInUse"
               /\ Tail(steps) = << <<"deletePackage">> >>
            \/ /\ r.kind = "removePackage" /\ Head(steps)[1] = "deletePackage"
               /\ steps = << <<"deletePackage">> >> /\ Tail(steps) = <<>>
<1>1. CASE steps = << <<"assertPackage">>, <<"updateRows">> >>
  <2>1. steps # <<>> /\ Head(steps)[1] = "assertPackage" /\ Tail(steps) = << <<"updateRows">> >>
    BY <1>1
  <2>2. ~ \E i \in DOMAIN steps : steps[i][1] \in {"insertRow", "updateRow"}
    BY <1>1
  <2>3. r.kind = "bulkAssign" /\ r.package \in Packages
    BY <1>1 DEF PlainFits
  <2> QED
    BY <2>1, <2>2, <2>3, Zenon
<1>2. CASE steps = << <<"updateRows">> >>
  <2>1. steps # <<>> /\ Head(steps)[1] = "updateRows" /\ Tail(steps) = <<>>
    BY <1>2
  <2>2. ~ \E i \in DOMAIN steps : steps[i][1] \in {"insertRow", "updateRow"}
    BY <1>2
  <2>3. r.kind = "bulkAssign" /\ r.package \in Packages
    BY <1>2 DEF PlainFits
  <2> QED
    BY <1>2, <2>1, <2>2, <2>3, Zenon
<1>3. CASE steps = << <<"assertPackage">>, <<"updatePackage">> >>
  <2>1. steps # <<>> /\ Head(steps)[1] = "assertPackage" /\ Tail(steps) = << <<"updatePackage">> >>
    BY <1>3
  <2>2. ~ \E i \in DOMAIN steps : steps[i][1] \in {"insertRow", "updateRow"}
    BY <1>3
  <2>3. r.kind = "updatePackage" /\ r.package \in Packages
    BY <1>3 DEF PlainFits
  <2> QED
    BY <2>1, <2>2, <2>3, Zenon
<1>4. CASE steps = << <<"updatePackage">> >>
  <2>1. steps # <<>> /\ Head(steps)[1] = "updatePackage" /\ Tail(steps) = <<>>
    BY <1>4
  <2>2. ~ \E i \in DOMAIN steps : steps[i][1] \in {"insertRow", "updateRow"}
    BY <1>4
  <2>3. r.kind = "updatePackage" /\ r.package \in Packages
    BY <1>4 DEF PlainFits
  <2> QED
    BY <2>1, <2>2, <2>3, Zenon
<1>5. CASE steps = << <<"assertPackage">>, <<"findInUse">>, <<"deletePackage">> >>
  <2>1. /\ steps # <<>> /\ Head(steps)[1] = "assertPackage"
        /\ Tail(steps) = << <<"findInUse">>, <<"deletePackage">> >>
    BY <1>5
  <2>2. ~ \E i \in DOMAIN steps : steps[i][1] \in {"insertRow", "updateRow"}
    BY <1>5
  <2>3. r.kind = "removePackage" /\ r.package \in Packages
    BY <1>5 DEF PlainFits
  <2> QED
    BY <2>1, <2>2, <2>3, Zenon
<1>6. CASE steps = << <<"findInUse">>, <<"deletePackage">> >>
  <2>1. steps # <<>> /\ Head(steps)[1] = "findInUse" /\ Tail(steps) = << <<"deletePackage">> >>
    BY <1>6
  <2>2. ~ \E i \in DOMAIN steps : steps[i][1] \in {"insertRow", "updateRow"}
    BY <1>6
  <2>3. r.kind = "removePackage" /\ r.package \in Packages
    BY <1>6 DEF PlainFits
  <2> QED
    BY <2>1, <2>2, <2>3, Zenon
<1>7. CASE steps = << <<"deletePackage">> >>
  <2>1. steps # <<>> /\ Head(steps)[1] = "deletePackage" /\ Tail(steps) = <<>>
    BY <1>7
  <2>2. ~ \E i \in DOMAIN steps : steps[i][1] \in {"insertRow", "updateRow"}
    BY <1>7
  <2>3. r.kind = "removePackage" /\ r.package \in Packages
    BY <1>7 DEF PlainFits
  <2> QED
    BY <1>7, <2>1, <2>2, <2>3, Zenon
<1> QED
  BY <1>1, <1>2, <1>3, <1>4, <1>5, <1>6, <1>7 DEF PlainFits

Unwriting(steps) == \E i \in DOMAIN steps : steps[i][1] \in {"insertRow", "updateRow"}

LEMMA AttrsOnly ==
  ASSUME NEW t \in Seq(AttrSteps), t # <<>>
  PROVE  Head(t) \in AttrSteps /\ ~Unwriting(t)
         /\ Head(t)[1] \in {"deleteAttr", "insertAttr"} /\ Head(t)[2] \in Attributes
<1>1. ASSUME NEW x \in AttrSteps
      PROVE  x[1] \in {"deleteAttr", "insertAttr"} /\ x[2] \in Attributes
  BY DEF AttrSteps
<1>2. Head(t) \in AttrSteps /\ \A i \in DOMAIN t : t[i] \in AttrSteps
  <2> HIDE DEF AttrSteps
  <2> QED
    OBVIOUS
<1> QED
  BY <1>1, <1>2, Zenon DEF Unwriting

LEMMA PushSteps ==
  ASSUME NEW r, NEW steps, PushAhead(r, steps)
  PROVE  /\ steps \in Seq(AttrSteps) /\ steps # <<>> /\ ~Unwriting(steps)
         /\ Head(steps)[1] \in {"deleteAttr", "insertAttr"} /\ Head(steps)[2] \in Attributes
         /\ Tail(steps) = <<>> \/ PushAhead(r, Tail(steps))
<1> DEFINE w == r.copy.status
<1>1. CASE r.kind # "update" /\ steps = FromPassword(w)
  <2>1. steps \in Seq(AttrSteps) /\ steps # <<>>
    BY <1>1, PasswordSteps, Zenon
  <2>2. PushAhead(r, Tail(steps))
    BY <1>1, Zenon DEF PushAhead
  <2> QED
    BY <2>1, <2>2, AttrsOnly, Zenon
<1>2. CASE r.kind # "update" /\ steps = Tail(FromPassword(w))
  <2>1. steps \in Seq(AttrSteps) /\ steps # <<>> /\ Tail(steps) = FromAuthType(w)
    BY <1>2, PasswordSteps, Zenon
  <2>2. PushAhead(r, Tail(steps))
    BY <2>1, Zenon DEF PushAhead
  <2> QED
    BY <2>1, <2>2, AttrsOnly, Zenon
<1>3. CASE steps = FromAuthType(w)
  <2>1. steps \in Seq(AttrSteps) /\ steps # <<>>
    BY <1>3, AuthTypeSteps, Zenon
  <2>2. PushAhead(r, Tail(steps))
    BY <1>3, Zenon DEF PushAhead
  <2> QED
    BY <2>1, <2>2, AttrsOnly, Zenon
<1>4. CASE steps = Tail(FromAuthType(w))
  <2>1. /\ steps \in Seq(AttrSteps) /\ steps # <<>>
        /\ Tail(steps) \in {FromExpiration, Tail(FromExpiration)}
    BY <1>4, AuthTypeSteps, Zenon
  <2>2. PushAhead(r, Tail(steps))
    BY <2>1, Zenon DEF PushAhead
  <2> QED
    BY <2>1, <2>2, AttrsOnly, Zenon
<1>5. CASE steps \in {FromExpiration, Tail(FromExpiration)}
  <2>1. /\ steps \in Seq(AttrSteps) /\ steps # <<>>
        /\ Tail(steps) \in {Tail(FromExpiration), FromRate}
    BY <1>5, ExpirationSteps, Zenon
  <2>2. PushAhead(r, Tail(steps))
    BY <2>1, Zenon DEF PushAhead
  <2> QED
    BY <2>1, <2>2, AttrsOnly, Zenon
<1>6. CASE steps = FromRate
  <2>1. steps \in Seq(AttrSteps) /\ steps # <<>>
    BY <1>6, RateSteps, Zenon
  <2>2. PushAhead(r, Tail(steps))
    BY <1>6, Zenon DEF PushAhead
  <2> QED
    BY <2>1, <2>2, AttrsOnly, Zenon
<1>7. CASE steps = Tail(FromRate)
  <2>1. steps \in Seq(AttrSteps) /\ steps # <<>> /\ Tail(steps) = <<>>
    BY <1>7, RateSteps, Zenon
  <2> QED
    BY <2>1, AttrsOnly, Zenon
<1> QED
  BY <1>1, <1>2, <1>3, <1>4, <1>5, <1>6, <1>7, Zenon DEF PushAhead

LEMMA OneSteps ==
  ASSUME NEW r, NEW steps, OneFits(r, steps)
  PROVE  /\ steps # <<>> /\ PatchFits(r) /\ DOMAIN r = {"kind", "subs", "package", "patch", "copy"}
         /\ \/ /\ Head(steps)[1] \in {"assertPackage", "findExisting", "insertRow", "findOwned", "updateRow"}
               /\ WriteAhead(r, steps) /\ r.copy \in Accounts /\ Unwriting(steps)
            \/ /\ Head(steps)[1] = "readPackage" /\ steps = << <<"readPackage">> >>
               /\ r.kind \in {"create", "update", "setPassword"}
               /\ r.copy \in Accounts /\ ~Unwriting(steps)
            \/ /\ Head(steps)[1] \in {"deleteAttr", "insertAttr"} /\ PushAhead(r, steps)
               /\ r.kind \in {"create", "update", "setPassword"}
               /\ r.copy \in Copies /\ ~Unwriting(steps)
            \/ /\ Head(steps)[1] = "deleteUser" /\ Head(steps)[2] = "radcheck"
               /\ Tail(steps) = << <<"deleteUser", "radreply">> >> /\ steps = Tail(Tail(Withdrawal))
               /\ r.kind \in {"revokePassword", "remove"}
               /\ r.copy \in Accounts /\ ~Unwriting(steps)
            \/ /\ Head(steps)[1] = "deleteUser" /\ Head(steps)[2] = "radreply"
               /\ steps = << <<"deleteUser", "radreply">> >> /\ Tail(steps) = <<>>
               /\ r.kind \in {"revokePassword", "remove"}
               /\ r.copy \in Accounts /\ ~Unwriting(steps)
<1>1. PatchFits(r) /\ DOMAIN r = {"kind", "subs", "package", "patch", "copy"}
  BY Zenon DEF OneFits
<1>2. CASE WriteAhead(r, steps) /\ r.copy \in Accounts
  <2>1. Head(steps)[1] \in {"assertPackage", "findExisting", "insertRow", "findOwned", "updateRow"}
    BY <1>2, WriteSteps, Zenon
  <2>2. steps # <<>> /\ Unwriting(steps)
    BY <1>2, WriteSteps, Zenon DEF Unwriting
  <2> QED
    BY <1>1, <1>2, <2>1, <2>2, Zenon
<1>3. CASE /\ r.kind \in {"create", "update", "setPassword"}
           /\ steps = << <<"readPackage">> >> /\ r.copy \in Accounts
  <2>1. steps # <<>> /\ Head(steps)[1] = "readPackage"
    BY <1>3
  <2>2. ~Unwriting(steps)
    BY <1>3 DEF Unwriting
  <2> QED
    BY <1>1, <1>3, <2>1, <2>2, Zenon
<1>4. CASE /\ r.kind \in {"create", "update", "setPassword"}
           /\ PushAhead(r, steps) /\ r.copy \in Copies
  BY <1>1, <1>4, PushSteps, Zenon
<1>5. CASE /\ r.kind \in {"revokePassword", "remove"} /\ r.copy \in Accounts
           /\ steps = Tail(Tail(Withdrawal))
  <2>1. /\ steps # <<>> /\ Head(steps)[1] = "deleteUser" /\ Head(steps)[2] = "radcheck"
        /\ Tail(steps) = << <<"deleteUser", "radreply">> >>
    BY <1>5 DEF Withdrawal
  <2>2. ~Unwriting(steps)
    BY <1>5 DEF Unwriting, Withdrawal
  <2> QED
    BY <1>1, <1>5, <2>1, <2>2, Zenon
<1>6. CASE /\ r.kind \in {"revokePassword", "remove"} /\ r.copy \in Accounts
           /\ steps = << <<"deleteUser", "radreply">> >>
  <2>1. /\ steps # <<>> /\ Head(steps)[1] = "deleteUser" /\ Head(steps)[2] = "radreply"
        /\ Tail(steps) = <<>>
    BY <1>6
  <2>2. ~Unwriting(steps)
    BY <1>6 DEF Unwriting
  <2> QED
    BY <1>1, <1>6, <2>1, <2>2, Zenon
<1> QED
  BY <1>2, <1>3, <1>4, <1>5, <1>6, Zenon DEF OneFits

-----------------------------------------------------------------------------
(* Types, and the plan of every request.                                   *)

LEMMA TailFits ==
  ASSUME NEW r, NEW steps, RequestFits(r, steps), steps # <<>>
  PROVE  Tail(steps) = <<>> \/ RequestFits(r, Tail(steps))
<1>1. CASE r.subs = {} /\ PlainFits(r, steps)
  <2>1. CASE r.kind = "bulkAssign" /\ Tail(steps) = << <<"updateRows">> >>
    <3>1. PlainFits(r, Tail(steps))
      BY <1>1, <2>1, PlainSteps, Zenon DEF PlainFits
    <3> QED
      BY <1>1, <3>1, Zenon DEF RequestFits
  <2>2. CASE r.kind = "updatePackage" /\ Tail(steps) = << <<"updatePackage">> >>
    <3>1. PlainFits(r, Tail(steps))
      BY <1>1, <2>2, PlainSteps, Zenon DEF PlainFits
    <3> QED
      BY <1>1, <3>1, Zenon DEF RequestFits
  <2>3. CASE r.kind = "removePackage" /\ Tail(steps) = << <<"findInUse">>, <<"deletePackage">> >>
    <3>1. PlainFits(r, Tail(steps))
      BY <1>1, <2>3, PlainSteps, Zenon DEF PlainFits
    <3> QED
      BY <1>1, <3>1, Zenon DEF RequestFits
  <2>4. CASE r.kind = "removePackage" /\ Tail(steps) = << <<"deletePackage">> >>
    <3>1. PlainFits(r, Tail(steps))
      BY <1>1, <2>4, PlainSteps, Zenon DEF PlainFits
    <3> QED
      BY <1>1, <3>1, Zenon DEF RequestFits
  <2> QED
    BY <1>1, <2>1, <2>2, <2>3, <2>4, PlainSteps, Zenon
<1>2. CASE (\E s \in Subscribers : r.subs = {s}) /\ OneFits(r, steps)
  <2>1. CASE WriteAhead(r, steps) /\ r.copy \in Accounts
    <3>1. CASE WriteAhead(r, Tail(steps))
      BY <1>2, <2>1, <3>1, OneSteps, Zenon DEF RequestFits, OneFits
    <3>2. CASE Tail(steps) = << <<"readPackage">> >> /\ r.kind \in {"create", "update", "setPassword"}
      BY <1>2, <2>1, <3>2, OneSteps, Zenon DEF RequestFits, OneFits
    <3>3. CASE Tail(steps) = Tail(Tail(Withdrawal)) /\ r.kind \in {"revokePassword", "remove"}
      BY <1>2, <2>1, <3>3, OneSteps, Zenon DEF RequestFits, OneFits
    <3> QED
      BY <2>1, <3>1, <3>2, <3>3, WriteSteps, Zenon DEF WriteAhead
  <2>2. CASE steps = << <<"readPackage">> >>
    BY <2>2
  <2>3. CASE PushAhead(r, steps) /\ r.kind \in {"create", "update", "setPassword"} /\ r.copy \in Copies
    BY <1>2, <2>3, PushSteps, OneSteps, Zenon DEF RequestFits, OneFits
  <2>4. CASE /\ r.kind \in {"revokePassword", "remove"} /\ r.copy \in Accounts
             /\ Tail(steps) = << <<"deleteUser", "radreply">> >>
    BY <1>2, <2>4, OneSteps, Zenon DEF RequestFits, OneFits
  <2> QED
    BY <1>2, <2>1, <2>2, <2>3, <2>4, OneSteps, Zenon
<1> QED
  BY <1>1, <1>2, Zenon DEF RequestFits

\* A request that goes on with another copy of the row.
LEMMA CopyOnly ==
  ASSUME NEW r, DOMAIN r = {"kind", "subs", "package", "patch", "copy"}, NEW c
  PROVE  LET n == [r EXCEPT !.copy = c]
         IN /\ DOMAIN n = DOMAIN r /\ n.copy = c
            /\ n.kind = r.kind /\ n.subs = r.subs /\ n.package = r.package /\ n.patch = r.patch
OBVIOUS

LEMMA CopyFitted ==
  ASSUME NEW r, NEW steps, NEW c \in Accounts,
         RequestFits(r, steps), WriteAhead(r, steps), OneFits(r, steps)
  PROVE  RequestFits([r EXCEPT !.copy = c], steps)
<1> DEFINE n == [r EXCEPT !.copy = c]
<1>1. /\ DOMAIN n = DOMAIN r /\ n.copy = c
      /\ n.kind = r.kind /\ n.subs = r.subs /\ n.package = r.package /\ n.patch = r.patch
  BY OneSteps, CopyOnly, Zenon
<1> HIDE DEF n
<1>2. PatchFits(n) /\ WriteAhead(n, steps)
  BY <1>1, OneSteps, Zenon DEF PatchFits, WriteAhead
<1>3. OneFits(n, steps)
  BY <1>1, <1>2, OneSteps, Zenon DEF OneFits
<1>4. \E s \in Subscribers : r.subs = {s}
  <2>1. ~ PlainFits(r, steps)
    BY PlainSteps, OneSteps, Zenon DEF Unwriting
  <2>2. ~ (r = Idle /\ steps = <<>>)
    BY OneSteps, Zenon
  <2> QED
    BY <2>1, <2>2, Zenon DEF RequestFits
<1>5. RequestFits(n, steps)
  BY <1>1, <1>3, <1>4, Zenon DEF RequestFits
<1> QED
  BY <1>5, Zenon DEF n

LEMMA Replaced ==
  ASSUME AccountsTypeOK, NEW p \in Requests, NEW r, NEW steps,
         req' = [req EXCEPT ![p] = r], todo' = [todo EXCEPT ![p] = steps]
  PROVE  /\ DOMAIN req' = Requests /\ DOMAIN todo' = Requests
         /\ req'[p] = r /\ todo'[p] = steps
         /\ \A q \in Requests \ {p} : req'[q] = req[q] /\ todo'[q] = todo[q]
BY DEF AccountsTypeOK

\* What a request does to the list of requests, whatever it does beside.
LEMMA RequestStep ==
  ASSUME AccountsTypeOK, NEW p \in Requests, NEW r, NEW rest, Proceed(p, r, rest)
  PROVE  /\ DOMAIN req' = Requests /\ DOMAIN todo' = Requests
         /\ req'[p] = (IF rest = <<>> THEN Idle ELSE r) /\ todo'[p] = rest
         /\ \A q \in Requests \ {p} : req'[q] = req[q] /\ todo'[q] = todo[q]
<1>1. CASE rest = <<>>
  <2>1. req' = [req EXCEPT ![p] = Idle] /\ todo' = [todo EXCEPT ![p] = <<>>]
    BY <1>1, Zenon DEF Proceed
  <2> QED
    BY <1>1, <2>1, Replaced, Zenon
<1>2. CASE rest # <<>>
  <2>1. req' = [req EXCEPT ![p] = r] /\ todo' = [todo EXCEPT ![p] = rest]
    BY <1>2, Zenon DEF Proceed
  <2> QED
    BY <1>2, <2>1, Replaced, Zenon
<1> QED
  BY <1>1, <1>2, Zenon

LEMMA EitherStep ==
  ASSUME AccountsTypeOK, NEW p \in Requests, NEW n, NEW m, NEW rest,
         Proceed(p, n, rest) \/ Proceed(p, m, rest)
  PROVE  /\ todo'[p] = rest
         /\ rest = <<>> => req'[p] = Idle
         /\ rest # <<>> => req'[p] = n \/ req'[p] = m
         /\ \A q \in Requests \ {p} : req'[q] = req[q] /\ todo'[q] = todo[q]
<1>1. ASSUME NEW r, Proceed(p, r, rest)
      PROVE  /\ todo'[p] = rest
             /\ rest = <<>> => req'[p] = Idle
             /\ rest # <<>> => req'[p] = r
             /\ \A q \in Requests \ {p} : req'[q] = req[q] /\ todo'[q] = todo[q]
  <2>1. /\ req'[p] = (IF rest = <<>> THEN Idle ELSE r) /\ todo'[p] = rest
        /\ \A q \in Requests \ {p} : req'[q] = req[q] /\ todo'[q] = todo[q]
    BY <1>1, RequestStep, Zenon
  <2> QED
    BY <2>1
<1> QED
  BY <1>1, Zenon

LEMMA DoneStep ==
  ASSUME AccountsTypeOK, NEW p \in Requests, Next1(p), Tail(todo[p]) = <<>>
  PROVE  /\ req'[p] = Idle /\ todo'[p] = <<>>
         /\ \A q \in Requests \ {p} : req'[q] = req[q] /\ todo'[q] = todo[q]
<1>1. req' = [req EXCEPT ![p] = Idle] /\ todo' = [todo EXCEPT ![p] = <<>>]
  BY Zenon DEF Next1, Proceed
<1> QED
  BY <1>1, Replaced, Zenon

LEMMA ProceedFits ==
  ASSUME AccountsTypeOK, RequestsFit, NEW p \in Requests, NEW r, NEW rest, Proceed(p, r, rest),
         rest = <<>> \/ RequestFits(r, rest)
  PROVE  RequestsFit'
<1> SUFFICES ASSUME NEW q \in Requests
             PROVE  RequestFits(req'[q], todo'[q])
  BY Zenon DEF RequestsFit
<1>1. CASE q = p
  <2>1. todo'[p] = rest /\ req'[p] = (IF rest = <<>> THEN Idle ELSE r)
    BY RequestStep, Zenon
  <2>2. CASE rest = <<>>
    BY <1>1, <2>1, <2>2, Zenon DEF RequestFits
  <2>3. CASE rest # <<>>
    BY <1>1, <2>1, <2>3, Zenon
  <2> QED
    BY <2>2, <2>3, Zenon
<1>2. CASE q # p
  <2>1. req'[q] = req[q] /\ todo'[q] = todo[q]
    BY <1>2, RequestStep, Zenon
  <2>2. RequestFits(req[q], todo[q])
    BY Zenon DEF RequestsFit
  <2> QED
    BY <2>1, <2>2, Zenon
<1> QED
  BY <1>1, <1>2, Zenon

LEMMA EndFits ==
  ASSUME AccountsTypeOK, RequestsFit, NEW p \in Requests,
         req' = [req EXCEPT ![p] = Idle], todo' = [todo EXCEPT ![p] = <<>>]
  PROVE  RequestsFit'
<1> SUFFICES ASSUME NEW q \in Requests
             PROVE  RequestFits(req'[q], todo'[q])
  BY Zenon DEF RequestsFit
<1>1. CASE q = p
  BY <1>1, Replaced, Zenon DEF RequestFits
<1>2. CASE q # p
  <2>1. req'[q] = req[q] /\ todo'[q] = todo[q]
    BY <1>2, Replaced, Zenon
  <2>2. RequestFits(req[q], todo[q])
    BY Zenon DEF RequestsFit
  <2> QED
    BY <2>1, <2>2, Zenon
<1> QED
  BY <1>1, <1>2, Zenon

LEMMA AdmitFits ==
  ASSUME AccountsTypeOK, RequestsFit, NEW p \in Requests, NEW r, NEW steps,
         Admit(p, r, steps), RequestFits(r, steps)
  PROVE  RequestsFit'
<1> SUFFICES ASSUME NEW q \in Requests
             PROVE  RequestFits(req'[q], todo'[q])
  BY Zenon DEF RequestsFit
<1>1. req' = [req EXCEPT ![p] = r] /\ todo' = [todo EXCEPT ![p] = steps]
  BY Zenon DEF Admit
<1>2. CASE q = p
  BY <1>1, <1>2, Replaced, Zenon
<1>3. CASE q # p
  <2>1. req'[q] = req[q] /\ todo'[q] = todo[q]
    BY <1>1, <1>3, Replaced, Zenon
  <2>2. RequestFits(req[q], todo[q])
    BY Zenon DEF RequestsFit
  <2> QED
    BY <2>1, <2>2, Zenon
<1> QED
  BY <1>2, <1>3, Zenon

OneRequest(kind, s, k, patch) ==
  [kind |-> kind, subs |-> {s}, package |-> k, patch |-> patch, copy |-> row[s]]

LEMMA OneArrives ==
  ASSUME AccountsTypeOK, NEW kind, NEW s \in Subscribers, NEW k, NEW patch, NEW steps,
         PatchFits(OneRequest(kind, s, k, patch)), WriteAhead(OneRequest(kind, s, k, patch), steps)
  PROVE  /\ OneFits(OneRequest(kind, s, k, patch), steps)
         /\ RequestFits(OneRequest(kind, s, k, patch), steps)
<1> DEFINE r == OneRequest(kind, s, k, patch)
<1>1. DOMAIN r = {"kind", "subs", "package", "patch", "copy"} /\ r.subs = {s} /\ r.copy = row[s]
  BY DEF OneRequest
<1>2. row[s] \in Accounts
  BY DEF AccountsTypeOK
<1> HIDE DEF r
<1>3. OneFits(r, steps)
  BY <1>1, <1>2, Zenon DEF OneFits, r
<1>4. RequestFits(r, steps)
  BY <1>1, <1>3, Zenon DEF RequestFits
<1> QED
  BY <1>3, <1>4, Zenon DEF r

\* A request arrives with the statements its kind awaits.
LEMMA Arrives ==
  ASSUME AccountsTypeOK, NEW p \in Requests, Arrive(p)
  PROVE  \/ \E kind, k, patch, steps : \E s \in Subscribers :
              /\ AdmitOne(p, kind, s, k, patch, steps)
              /\ OneFits(OneRequest(kind, s, k, patch), steps)
              /\ RequestFits(OneRequest(kind, s, k, patch), steps)
              /\ \/ kind = "create" /\ Head(steps)[1] = "assertPackage"
                 \/ kind # "create" /\ Head(steps)[1] = "findOwned"
         \/ \E r, steps :
              /\ AdmitPlain(p, r, steps) /\ r.subs = {} /\ r.kind # "idle"
              /\ RequestFits(r, steps) /\ PlainFits(r, steps) /\ Head(steps)[1] = "assertPackage"
<1>0. Fresh \in Nat \ {0}
  BY DEF AccountsTypeOK, Fresh
<1>1. ASSUME NEW s \in Subscribers, Create(p, s)
      PROVE  \E kind, k, patch, steps :
              /\ AdmitOne(p, kind, s, k, patch, steps)
              /\ OneFits(OneRequest(kind, s, k, patch), steps)
              /\ RequestFits(OneRequest(kind, s, k, patch), steps)
              /\ kind = "create" /\ Head(steps)[1] = "assertPackage"
  <2> DEFINE patch(k) == [state |-> "live", status |-> "ACTIVE", password |-> Fresh, expires |-> Fresh,
                          package |-> k]
             steps == << <<"assertPackage">>, <<"findExisting">>, <<"insertRow">>, <<"readPackage">> >>
  <2>1. PICK k \in Packages : AdmitOne(p, "create", s, k, patch(k), steps)
    BY <1>1, Zenon DEF Create
  <2>2. PatchFits(OneRequest("create", s, k, patch(k)))
    BY <1>0 DEF PatchFits, OneRequest, Accounts, Statuses
  <2>3. OneRequest("create", s, k, patch(k)).kind = "create"
    BY DEF OneRequest
  <2>4. WriteAhead(OneRequest("create", s, k, patch(k)), steps)
    BY <2>3, Zenon DEF WriteAhead
  <2>5. Head(steps)[1] = "assertPackage"
    OBVIOUS
  <2> HIDE DEF patch, steps
  <2> QED
    BY <2>1, <2>2, <2>4, <2>5, OneArrives, Zenon
<1>2. ASSUME NEW s \in Subscribers, Update(p, s)
      PROVE  \E kind, k, patch, steps :
              /\ AdmitOne(p, kind, s, k, patch, steps)
              /\ OneFits(OneRequest(kind, s, k, patch), steps)
              /\ RequestFits(OneRequest(kind, s, k, patch), steps)
              /\ kind # "create" /\ Head(steps)[1] = "findOwned"
  <2>1. CASE \E k \in Packages :
               AdmitOne(p, "update", s, k, [package |-> k],
                 << <<"findOwned">>, <<"assertPackage">>, <<"updateRow">>, <<"readPackage">> >>)
    <3> DEFINE steps == << <<"findOwned">>, <<"assertPackage">>, <<"updateRow">>, <<"readPackage">> >>
               patch(k) == [package |-> k]
    <3>1. PICK k \in Packages : AdmitOne(p, "update", s, k, patch(k), steps)
      BY <2>1, Zenon
    <3>2. PatchFits(OneRequest("update", s, k, patch(k)))
      BY DEF PatchFits, OneRequest
    <3>3. /\ OneRequest("update", s, k, patch(k)).kind = "update"
          /\ "package" \in DOMAIN OneRequest("update", s, k, patch(k)).patch
      BY DEF OneRequest
    <3>4. WriteAhead(OneRequest("update", s, k, patch(k)), steps)
      BY <3>3, Zenon DEF WriteAhead
    <3>5. Head(steps)[1] = "findOwned"
      OBVIOUS
    <3> HIDE DEF patch, steps
    <3> QED
      BY <3>1, <3>2, <3>4, <3>5, OneArrives, Zenon
  <2>2. CASE \E patch \in [status : Statuses] \union [expires : {Fresh}] :
               AdmitOne(p, "update", s, "none", patch,
                 << <<"findOwned">>, <<"updateRow">>, <<"readPackage">> >>)
    <3> DEFINE steps == << <<"findOwned">>, <<"updateRow">>, <<"readPackage">> >>
    <3>1. PICK patch \in [status : Statuses] \union [expires : {Fresh}] :
             AdmitOne(p, "update", s, "none", patch, steps)
      BY <2>2, Zenon
    <3>2. PatchFits(OneRequest("update", s, "none", patch))
      BY <1>0 DEF PatchFits, OneRequest
    <3>3. /\ OneRequest("update", s, "none", patch).kind = "update"
          /\ "package" \notin DOMAIN OneRequest("update", s, "none", patch).patch
      BY DEF OneRequest
    <3>4. WriteAhead(OneRequest("update", s, "none", patch), steps)
      BY <3>3, Zenon DEF WriteAhead
    <3>5. Head(steps)[1] = "findOwned"
      OBVIOUS
    <3> HIDE DEF steps
    <3> QED
      BY <3>1, <3>2, <3>4, <3>5, OneArrives, Zenon
  <2> QED
    BY <1>2, <2>1, <2>2, Zenon DEF Update
<1>3. ASSUME NEW s \in Subscribers, SetPassword(p, s)
      PROVE  \E kind, k, patch, steps :
              /\ AdmitOne(p, kind, s, k, patch, steps)
              /\ OneFits(OneRequest(kind, s, k, patch), steps)
              /\ RequestFits(OneRequest(kind, s, k, patch), steps)
              /\ kind # "create" /\ Head(steps)[1] = "findOwned"
  <2> DEFINE steps == << <<"findOwned">>, <<"updateRow">>, <<"readPackage">> >>
             patch == [password |-> Fresh]
  <2>1. AdmitOne(p, "setPassword", s, "none", patch, steps)
    BY <1>3, Zenon DEF SetPassword
  <2>2. PatchFits(OneRequest("setPassword", s, "none", patch))
    BY <1>0 DEF PatchFits, OneRequest
  <2>3. /\ OneRequest("setPassword", s, "none", patch).kind = "setPassword"
        /\ "package" \notin DOMAIN OneRequest("setPassword", s, "none", patch).patch
    BY DEF OneRequest
  <2>4. WriteAhead(OneRequest("setPassword", s, "none", patch), steps)
    BY <2>3, Zenon DEF WriteAhead
  <2>5. Head(steps)[1] = "findOwned"
    OBVIOUS
  <2> HIDE DEF patch, steps
  <2> QED
    BY <2>1, <2>2, <2>4, <2>5, OneArrives, Zenon
<1>4. ASSUME NEW s \in Subscribers, RevokePassword(p, s) \/ Remove(p, s)
      PROVE  \E kind, k, patch, steps :
              /\ AdmitOne(p, kind, s, k, patch, steps)
              /\ OneFits(OneRequest(kind, s, k, patch), steps)
              /\ RequestFits(OneRequest(kind, s, k, patch), steps)
              /\ kind # "create" /\ Head(steps)[1] = "findOwned"
  <2>1. PICK kind \in {"revokePassword", "remove"},
             patch \in {[password |-> 0], [state |-> "removed"]} :
          /\ AdmitOne(p, kind, s, "none", patch, Withdrawal)
          /\ kind = "revokePassword" => patch = [password |-> 0]
          /\ kind = "remove" => patch = [state |-> "removed"]
    BY <1>4, Zenon DEF RevokePassword, Remove
  <2>2. /\ OneRequest(kind, s, "none", patch).kind = kind
        /\ OneRequest(kind, s, "none", patch).patch = patch
    BY DEF OneRequest
  <2>3. PatchFits(OneRequest(kind, s, "none", patch))
    BY <2>1, <2>2, Zenon DEF PatchFits
  <2>4. WriteAhead(OneRequest(kind, s, "none", patch), Withdrawal)
    BY <2>1, <2>2, Zenon DEF WriteAhead
  <2>5. Head(Withdrawal)[1] = "findOwned"
    BY DEF Withdrawal
  <2> QED
    BY <2>1, <2>3, <2>4, <2>5, OneArrives, Zenon
<1>5. ASSUME NEW S \in SUBSET Subscribers, NEW k \in Packages, BulkAssign(p, S, k)
      PROVE  \E r, steps :
              /\ AdmitPlain(p, r, steps) /\ r.subs = {} /\ r.kind # "idle"
              /\ RequestFits(r, steps) /\ PlainFits(r, steps) /\ Head(steps)[1] = "assertPackage"
  <2> DEFINE r == [kind |-> "bulkAssign", subs |-> {}, package |-> k, rows |-> S]
             steps == << <<"assertPackage">>, <<"updateRows">> >>
  <2>1. AdmitPlain(p, r, steps)
    BY <1>5, Zenon DEF BulkAssign
  <2>2. r.kind = "bulkAssign" /\ r.subs = {} /\ r.package = k /\ Head(steps)[1] = "assertPackage"
    OBVIOUS
  <2>3. PlainFits(r, steps)
    <3> HIDE DEF r
    <3> QED
      BY <2>2, Zenon DEF PlainFits
  <2> HIDE DEF r, steps
  <2>4. r.kind # "idle"
    BY <2>2
  <2> QED
    BY <2>1, <2>2, <2>3, <2>4, Zenon DEF RequestFits
<1>6. ASSUME NEW k \in Packages, UpdatePackage(p, k)
      PROVE  \E r, steps :
              /\ AdmitPlain(p, r, steps) /\ r.subs = {} /\ r.kind # "idle"
              /\ RequestFits(r, steps) /\ PlainFits(r, steps) /\ Head(steps)[1] = "assertPackage"
  <2> DEFINE r == [kind |-> "updatePackage", subs |-> {}, package |-> k]
             steps == << <<"assertPackage">>, <<"updatePackage">> >>
  <2>1. AdmitPlain(p, r, steps)
    BY <1>6, Zenon DEF UpdatePackage
  <2>2. r.kind = "updatePackage" /\ r.subs = {} /\ r.package = k /\ Head(steps)[1] = "assertPackage"
    OBVIOUS
  <2>3. PlainFits(r, steps)
    <3> HIDE DEF r
    <3> QED
      BY <2>2, Zenon DEF PlainFits
  <2> HIDE DEF r, steps
  <2>4. r.kind # "idle"
    BY <2>2
  <2> QED
    BY <2>1, <2>2, <2>3, <2>4, Zenon DEF RequestFits
<1>7. ASSUME NEW k \in Packages, RemovePackage(p, k)
      PROVE  \E r, steps :
              /\ AdmitPlain(p, r, steps) /\ r.subs = {} /\ r.kind # "idle"
              /\ RequestFits(r, steps) /\ PlainFits(r, steps) /\ Head(steps)[1] = "assertPackage"
  <2> DEFINE r == [kind |-> "removePackage", subs |-> {}, package |-> k]
             steps == << <<"assertPackage">>, <<"findInUse">>, <<"deletePackage">> >>
  <2>1. AdmitPlain(p, r, steps)
    BY <1>7, Zenon DEF RemovePackage
  <2>2. r.kind = "removePackage" /\ r.subs = {} /\ r.package = k /\ Head(steps)[1] = "assertPackage"
    OBVIOUS
  <2>3. PlainFits(r, steps)
    <3> HIDE DEF r
    <3> QED
      BY <2>2, Zenon DEF PlainFits
  <2> HIDE DEF r, steps
  <2>4. r.kind # "idle"
    BY <2>2
  <2> QED
    BY <2>1, <2>2, <2>3, <2>4, Zenon DEF RequestFits
<1>8. CASE \E s \in Subscribers : \/ Create(p, s) \/ Update(p, s) \/ SetPassword(p, s)
                                  \/ RevokePassword(p, s) \/ Remove(p, s)
  <2>1. PICK s \in Subscribers : \/ Create(p, s) \/ Update(p, s) \/ SetPassword(p, s)
                                 \/ RevokePassword(p, s) \/ Remove(p, s)
    BY <1>8, Zenon
  <2>2. \E kind, k, patch, steps :
              /\ AdmitOne(p, kind, s, k, patch, steps)
              /\ OneFits(OneRequest(kind, s, k, patch), steps)
              /\ RequestFits(OneRequest(kind, s, k, patch), steps)
              /\ \/ kind = "create" /\ Head(steps)[1] = "assertPackage"
                 \/ kind # "create" /\ Head(steps)[1] = "findOwned"
    <3>1. CASE Create(p, s)
      BY <1>1, <3>1, Zenon
    <3>2. CASE Update(p, s)
      BY <1>2, <3>2, Zenon
    <3>3. CASE SetPassword(p, s)
      BY <1>3, <3>3, Zenon
    <3>4. CASE RevokePassword(p, s) \/ Remove(p, s)
      BY <1>4, <3>4, Zenon
    <3> QED
      BY <2>1, <3>1, <3>2, <3>3, <3>4, Zenon
  <2> QED
    BY <2>2, Zenon
<1>9. CASE \E S \in SUBSET Subscribers \ {{}}, k \in Packages : BulkAssign(p, S, k)
  BY <1>5, <1>9, Zenon
<1>10. CASE \E k \in Packages : UpdatePackage(p, k) \/ RemovePackage(p, k)
  BY <1>6, <1>7, <1>10, Zenon
<1> QED
  BY <1>8, <1>9, <1>10, Zenon DEF Arrive

LEMMA WhoAwaits ==
  ASSUME RequestsFit, NEW p \in Requests, todo[p] # <<>>
  PROVE  /\ RequestFits(req[p], todo[p])
         /\ \/ req[p].subs = {} /\ PlainFits(req[p], todo[p])
            \/ (\E s \in Subscribers : req[p].subs = {s}) /\ OneFits(req[p], todo[p])
         /\ Head(todo[p])[1] \notin {"assertPackage", "updateRows", "updatePackage", "findInUse", "deletePackage"} =>
              (\E s \in Subscribers : req[p].subs = {s}) /\ OneFits(req[p], todo[p])
         /\ Head(todo[p])[1] \in {"updateRows", "updatePackage", "findInUse", "deletePackage"} =>
              req[p].subs = {} /\ PlainFits(req[p], todo[p])
         /\ Head(todo[p])[1] \in {"findExisting", "insertRow", "findOwned", "updateRow"} =>
              WriteAhead(req[p], todo[p])
<1>1. RequestFits(req[p], todo[p])
  BY Zenon DEF RequestsFit
<1>2. \/ req[p].subs = {} /\ PlainFits(req[p], todo[p])
      \/ (\E s \in Subscribers : req[p].subs = {s}) /\ OneFits(req[p], todo[p])
  BY <1>1, Zenon DEF RequestFits
<1>3. PlainFits(req[p], todo[p]) =>
        Head(todo[p])[1] \in {"assertPackage", "updateRows", "updatePackage", "findInUse", "deletePackage"}
  BY PlainSteps, Zenon
<1>4. OneFits(req[p], todo[p]) =>
        \/ /\ Head(todo[p])[1] \in {"assertPackage", "findExisting", "insertRow", "findOwned", "updateRow"}
           /\ WriteAhead(req[p], todo[p])
        \/ Head(todo[p])[1] \in {"readPackage", "deleteAttr", "insertAttr", "deleteUser"}
  BY OneSteps, Zenon
<1>5. OneFits(req[p], todo[p]) =>
        Head(todo[p])[1] \notin {"updateRows", "updatePackage", "findInUse", "deletePackage"}
  BY <1>4
<1>6. OneFits(req[p], todo[p]) =>
        (Head(todo[p])[1] \in {"findExisting", "insertRow", "findOwned", "updateRow"} =>
           WriteAhead(req[p], todo[p]))
  BY <1>4
<1>7. Head(todo[p])[1] \in {"findExisting", "insertRow", "findOwned", "updateRow"} =>
        Head(todo[p])[1] \notin {"assertPackage", "updateRows", "updatePackage", "findInUse", "deletePackage"}
  OBVIOUS
<1> QED
  BY <1>1, <1>2, <1>3, <1>5, <1>6, <1>7, Zenon

LEMMA PatchedRow ==
  ASSUME NEW r \in Accounts, NEW q, PatchFits(q), q.kind # "create"
  PROVE  /\ Patched(r, q.patch) \in Accounts
         /\ q.kind = "update" =>
              /\ Patched(r, q.patch).state = r.state
              /\ Patched(r, q.patch).password = r.password
              /\ "package" \in DOMAIN q.patch => Patched(r, q.patch).package = q.package
              /\ "package" \notin DOMAIN q.patch => Patched(r, q.patch).package = r.package
         /\ q.kind = "setPassword" =>
              /\ Patched(r, q.patch) = [r EXCEPT !.password = q.patch.password]
              /\ q.patch.password \in Nat \ {0}
         /\ q.kind = "revokePassword" => Patched(r, q.patch) = [r EXCEPT !.password = 0]
         /\ q.kind = "remove" => Patched(r, q.patch) = [r EXCEPT !.state = "removed"]
<1>1. CASE q.kind = "update" /\ q.patch \in [package : Packages] /\ q.patch.package = q.package
  BY <1>1 DEF Patched, Accounts
<1>2. CASE q.kind = "update" /\ q.patch \in [status : Statuses]
  BY <1>2 DEF Patched, Accounts
<1>3. CASE q.kind = "update" /\ q.patch \in [expires : Nat]
  BY <1>3 DEF Patched, Accounts
<1>4. CASE q.kind = "setPassword" /\ q.patch \in [password : Nat \ {0}]
  <2>1. Patched(r, q.patch) = [r EXCEPT !.password = q.patch.password] /\ q.patch.password \in Nat \ {0}
    BY <1>4 DEF Patched, Accounts
  <2> QED
    BY <1>4, <2>1 DEF Accounts
<1>5. CASE q.kind = "revokePassword" /\ q.patch = [password |-> 0]
  <2>1. Patched(r, q.patch) = [r EXCEPT !.password = 0]
    BY <1>5 DEF Patched, Accounts
  <2> QED
    BY <1>5, <2>1 DEF Accounts
<1>6. CASE q.kind = "remove" /\ q.patch = [state |-> "removed"]
  <2>1. Patched(r, q.patch) = [r EXCEPT !.state = "removed"]
    BY <1>6 DEF Patched, Accounts
  <2> QED
    BY <1>6, <2>1 DEF Accounts
<1> QED
  BY <1>1, <1>2, <1>3, <1>4, <1>5, <1>6 DEF PatchFits

LEMMA PatchedPackage ==
  ASSUME NEW r \in Accounts, NEW q, PatchFits(q), q.kind # "create"
  PROVE  Patched(r, q.patch).state = "live" =>
           /\ r.state = "live"
           /\ \/ Patched(r, q.patch).package = r.package
              \/ /\ q.kind = "update" /\ "package" \in DOMAIN q.patch
                 /\ Patched(r, q.patch).package = q.package
<1>1. q.kind \in {"update", "setPassword", "revokePassword", "remove"}
  BY DEF PatchFits
<1>2. CASE q.kind = "update"
  BY <1>2, PatchedRow
<1>3. CASE q.kind = "setPassword"
  <2>1. Patched(r, q.patch) = [r EXCEPT !.password = q.patch.password]
    BY <1>3, PatchedRow, Zenon
  <2> QED
    BY <1>3, <2>1 DEF Accounts
<1>4. CASE q.kind = "revokePassword"
  <2>1. Patched(r, q.patch) = [r EXCEPT !.password = 0]
    BY <1>4, PatchedRow, Zenon
  <2> QED
    BY <1>4, <2>1 DEF Accounts
<1>5. CASE q.kind = "remove"
  <2>1. Patched(r, q.patch) = [r EXCEPT !.state = "removed"]
    BY <1>5, PatchedRow, Zenon
  <2> QED
    BY <1>5, <2>1 DEF Accounts
<1> QED
  BY <1>1, <1>2, <1>3, <1>4, <1>5

LEMMA PatchedTyped ==
  ASSUME NEW r \in Accounts, NEW q, PatchFits(q), q.kind # "create"
  PROVE  Patched(r, q.patch) \in Accounts
BY PatchedRow

\* The copy that ReadPackage makes, with the rate of its package.
LEMMA CopyRead ==
  ASSUME AccountsTypeOK, NEW r, PatchFits(r), r.kind \in {"create", "update", "setPassword"},
         r.copy \in Accounts
  PROVE  LET withPassword == "password" \in DOMAIN r.patch
             now == Patched(r.copy, IF withPassword THEN [password |-> r.patch.password] ELSE <<>>)
             c == [f \in DOMAIN now \union {"rate"} |-> IF f = "rate" THEN rate[now.package] ELSE now[f]]
         IN /\ c \in Copies
            /\ c.status = r.copy.status /\ c.expires = r.copy.expires /\ now.status = r.copy.status
            /\ withPassword <=> r.kind # "update"
            /\ withPassword => c.password = r.patch.password
<1> DEFINE withPassword == "password" \in DOMAIN r.patch
           now == Patched(r.copy, IF withPassword THEN [password |-> r.patch.password] ELSE <<>>)
           c == [f \in DOMAIN now \union {"rate"} |-> IF f = "rate" THEN rate[now.package] ELSE now[f]]
<1>1. withPassword <=> r.kind # "update"
  BY DEF PatchFits, Accounts
<1>2. withPassword => r.patch.password \in Nat
  BY DEF PatchFits, Accounts
<1>3. /\ now \in Accounts /\ now.status = r.copy.status /\ now.expires = r.copy.expires
      /\ withPassword => now.password = r.patch.password
  <2>1. CASE withPassword
    <3>1. now = [r.copy EXCEPT !.password = r.patch.password]
      BY <1>2, <2>1 DEF Patched, Accounts
    <3> QED
      BY <1>2, <2>1, <3>1 DEF Accounts
  <2>2. CASE ~withPassword
    <3>1. now = r.copy
      BY <2>2 DEF Patched, Accounts
    <3> QED
      BY <2>2, <3>1
  <2> QED
    BY <2>1, <2>2
<1> HIDE DEF now, withPassword
<1>4. rate[now.package] \in Nat
  BY <1>3 DEF AccountsTypeOK, Accounts
<1>5. /\ c \in Copies /\ c.status = now.status /\ c.expires = now.expires /\ c.password = now.password
  BY <1>3, <1>4 DEF Accounts, Copies
<1> QED
  BY <1>1, <1>3, <1>5, Zenon DEF now, withPassword

LEMMA NextFits ==
  ASSUME AccountsTypeOK, RequestsFit, NEW p \in Requests, todo[p] # <<>>, Next1(p)
  PROVE  RequestsFit'
<1>1. RequestFits(req[p], todo[p])
  BY Zenon DEF RequestsFit
<1>2. Tail(todo[p]) = <<>> \/ RequestFits(req[p], Tail(todo[p]))
  BY <1>1, TailFits, Zenon
<1> QED
  BY <1>2, ProceedFits, Zenon DEF Next1

LEMMA CopyProceeds ==
  ASSUME AccountsTypeOK, RequestsFit, NEW p \in Requests, NEW c \in Accounts,
         todo[p] # <<>>, OneFits(req[p], todo[p]), WriteAhead(req[p], todo[p]),
         Proceed(p, [req[p] EXCEPT !.copy = c], Tail(todo[p]))
  PROVE  RequestsFit'
<1>1. RequestFits(req[p], todo[p])
  BY Zenon DEF RequestsFit
<1>2. RequestFits([req[p] EXCEPT !.copy = c], todo[p])
  BY <1>1, CopyFitted, Zenon
<1>3. Tail(todo[p]) = <<>> \/ RequestFits([req[p] EXCEPT !.copy = c], Tail(todo[p]))
  BY <1>2, TailFits, Zenon
<1> QED
  BY <1>3, ProceedFits, Zenon

LEMMA RefuseFits ==
  ASSUME AccountsTypeOK, RequestsFit, NEW p \in Requests, Refuse(p)
  PROVE  RequestsFit'
BY EndFits, Zenon DEF Refuse

\* A read package leads to a push of the copy made of the row.
LEMMA ReadFits ==
  ASSUME AccountsTypeOK, RequestsFit, NEW p \in Requests, ReadPackage(p)
  PROVE  \E c \in Copies :
           LET n == [req[p] EXCEPT !.copy = c]
           IN /\ OneFits(req[p], todo[p]) /\ OneFits(n, Push(c, req[p].kind # "update"))
              /\ RequestFits(n, Push(c, req[p].kind # "update"))
              /\ c.status = req[p].copy.status /\ c.expires = req[p].copy.expires
              /\ req[p].kind # "update" => c.password = req[p].patch.password
              /\ PushAhead(n, Push(c, req[p].kind # "update"))
              /\ todo[p] = << <<"readPackage">> >> /\ req[p].kind \in {"create", "update", "setPassword"}
              /\ Proceed(p, n, Push(c, req[p].kind # "update"))
<1> DEFINE withPassword == "password" \in DOMAIN req[p].patch
           now == Patched(req[p].copy, IF withPassword THEN [password |-> req[p].patch.password] ELSE <<>>)
           c == [f \in DOMAIN now \union {"rate"} |-> IF f = "rate" THEN rate[now.package] ELSE now[f]]
           n == [req[p] EXCEPT !.copy = c]
<1>1. todo[p] # <<>> /\ Head(todo[p])[1] = "readPackage"
  BY Zenon DEF ReadPackage, Awaits
<1>2. (\E s \in Subscribers : req[p].subs = {s}) /\ OneFits(req[p], todo[p])
  <2>1. Head(todo[p])[1] \notin {"assertPackage", "updateRows", "updatePackage", "findInUse", "deletePackage"}
    BY <1>1
  <2> QED
    BY <1>1, <2>1, WhoAwaits, Zenon
<1>3. /\ req[p].kind \in {"create", "update", "setPassword"} /\ req[p].copy \in Accounts
      /\ PatchFits(req[p]) /\ todo[p] = << <<"readPackage">> >>
      /\ DOMAIN req[p] = {"kind", "subs", "package", "patch", "copy"}
  <2>1. Head(todo[p])[1] \notin {"assertPackage", "findExisting", "insertRow", "findOwned", "updateRow",
                                 "deleteAttr", "insertAttr", "deleteUser"}
    BY <1>1
  <2> QED
    BY <1>2, <2>1, OneSteps, Zenon
<1>4. /\ c \in Copies
      /\ c.status = req[p].copy.status /\ c.expires = req[p].copy.expires
      /\ now.status = req[p].copy.status
      /\ withPassword <=> req[p].kind # "update"
      /\ withPassword => c.password = req[p].patch.password
  BY <1>3, CopyRead, Zenon
<1>5. Proceed(p, n, Push(now, withPassword))
  BY Zenon DEF ReadPackage
<1> HIDE DEF now, withPassword, c, n
<1>6. Push(now, withPassword) = Push(c, req[p].kind # "update")
  <2>1. CASE req[p].kind # "update"
    BY <1>4, <2>1, Zenon DEF Push
  <2>2. CASE req[p].kind = "update"
    BY <1>4, <2>2, Zenon DEF Push
  <2> QED
    BY <2>1, <2>2, Zenon
<1>7. /\ DOMAIN n = DOMAIN req[p] /\ n.copy = c
      /\ n.kind = req[p].kind /\ n.subs = req[p].subs /\ n.package = req[p].package
      /\ n.patch = req[p].patch
  BY <1>3, CopyOnly, Zenon DEF n
<1>8. PushAhead(n, Push(c, req[p].kind # "update"))
  <2>1. CASE req[p].kind # "update"
    BY <1>7, <2>1, Zenon DEF PushAhead, Push
  <2>2. CASE req[p].kind = "update"
    BY <1>7, <2>2, Zenon DEF PushAhead, Push
  <2> QED
    BY <2>1, <2>2, Zenon
<1>9. PatchFits(n)
  BY <1>3, <1>7, Zenon DEF PatchFits
<1>10. OneFits(n, Push(c, req[p].kind # "update"))
  BY <1>3, <1>4, <1>7, <1>8, <1>9, Zenon DEF OneFits
<1>11. RequestFits(n, Push(c, req[p].kind # "update"))
  BY <1>2, <1>7, <1>10, Zenon DEF RequestFits
<1>12. Proceed(p, n, Push(c, req[p].kind # "update"))
  BY <1>5, <1>6, Zenon
<1>13. req[p].kind # "update" => c.password = req[p].patch.password
  BY <1>4, Zenon
<1> QED
  BY <1>2, <1>3, <1>4, <1>8, <1>10, <1>11, <1>12, <1>13, Zenon DEF n

LEMMA StatementFits ==
  ASSUME AccountsTypeOK, RequestsFit, NEW p \in Requests, Statement(p)
  PROVE  RequestsFit'
<1>1. ASSUME Next1(p), todo[p] # <<>>
      PROVE  RequestsFit'
  BY <1>1, NextFits, Zenon
<1>2. ASSUME Refuse(p)
      PROVE  RequestsFit'
  BY <1>2, RefuseFits, Zenon
<1>3. ASSUME NEW x, Awaits(p, x), x \in {"findOwned", "insertRow", "updateRow"}
      PROVE  /\ todo[p] # <<>> /\ OneFits(req[p], todo[p]) /\ WriteAhead(req[p], todo[p])
             /\ (\E s \in Subscribers : req[p].subs = {s}) /\ PatchFits(req[p])
             /\ x = "insertRow" => req[p].kind = "create"
             /\ x = "updateRow" => req[p].kind \in {"update", "setPassword", "revokePassword", "remove"}
             /\ req[p].copy \in Accounts
  <2>1. /\ Head(todo[p])[1] \notin {"assertPackage", "updateRows", "updatePackage", "findInUse", "deletePackage"}
        /\ Head(todo[p])[1] \in {"findExisting", "insertRow", "findOwned", "updateRow"} /\ todo[p] # <<>>
        /\ x = Head(todo[p])[1]
    BY <1>3 DEF Awaits
  <2>2. /\ OneFits(req[p], todo[p]) /\ WriteAhead(req[p], todo[p])
        /\ \E s \in Subscribers : req[p].subs = {s}
    BY <2>1, WhoAwaits, Zenon
  <2>3. req[p].copy \in Accounts /\ PatchFits(req[p])
    <3>1. Head(todo[p])[1] \notin {"readPackage", "deleteAttr", "insertAttr", "deleteUser"}
      BY <2>1
    <3> QED
      BY <2>2, <3>1, OneSteps, Zenon
  <2>4. /\ Head(todo[p])[1] = "insertRow" => req[p].kind = "create"
        /\ Head(todo[p])[1] = "updateRow" => req[p].kind \in {"update", "setPassword", "revokePassword", "remove"}
    BY <2>2, WriteSteps, Zenon
  <2> QED
    BY <2>1, <2>2, <2>3, <2>4, Zenon
<1>4. CASE AssertPackage(p) \/ FindExisting(p) \/ FindInUse(p)
  BY <1>1, <1>2, <1>4, Zenon DEF AssertPackage, FindExisting, FindInUse, Guarded, Awaits
<1>5. CASE UpdateRows(p) \/ DeleteAttr(p) \/ DeleteUser(p) \/ WritePackage(p) \/ DeletePackage(p)
  BY <1>1, <1>5, Zenon DEF UpdateRows, DeleteAttr, DeleteUser, WritePackage, DeletePackage, Awaits
<1>6. CASE InsertAttr(p)
  BY <1>1, <1>2, <1>6, Zenon DEF InsertAttr, Awaits
<1>7. CASE FindOwned(p)
  <2>1. Awaits(p, "findOwned")
    BY <1>7, Zenon DEF FindOwned
  <2>2. PICK s \in req[p].subs :
           IF row[s].state = "live" THEN Proceed(p, [req[p] EXCEPT !.copy = row[s]], Tail(todo[p]))
           ELSE Refuse(p)
    BY <1>7, Zenon DEF FindOwned
  <2>3. row[s] \in Accounts
    <3>1. s \in Subscribers
      BY <1>3, <2>1, <2>2, Zenon
    <3> QED
      BY <3>1 DEF AccountsTypeOK
  <2> QED
    BY <1>2, <1>3, <2>1, <2>2, <2>3, CopyProceeds, Zenon
<1>8. CASE InsertRow(p)
  <2>1. Awaits(p, "insertRow")
    BY <1>8, Zenon DEF InsertRow
  <2>2. \/ Proceed(p, [req[p] EXCEPT !.copy = req[p].patch], Tail(todo[p]))
        \/ Refuse(p)
    BY <1>8, Zenon DEF InsertRow
  <2>3. req[p].patch \in Accounts
    <3>1. PatchFits(req[p]) /\ req[p].kind = "create"
      BY <1>3, <2>1, Zenon
    <3> QED
      BY <3>1 DEF PatchFits
  <2> QED
    BY <1>2, <1>3, <2>1, <2>2, <2>3, CopyProceeds, Zenon
<1>9. CASE UpdateRow(p)
  <2>1. Awaits(p, "updateRow")
    BY <1>9, Zenon DEF UpdateRow
  <2>2. PICK s \in req[p].subs :
          /\ row' = [row EXCEPT ![s] = Patched(@, req[p].patch)]
          /\ Proceed(p, [req[p] EXCEPT !.copy = IF req[p].kind = "update" THEN row'[s] ELSE @],
                     Tail(todo[p]))
    BY <1>9, Zenon DEF UpdateRow
  <2>3. s \in Subscribers /\ PatchFits(req[p]) /\ req[p].kind # "create" /\ req[p].copy \in Accounts
    <3>1. req[p].kind \in {"update", "setPassword", "revokePassword", "remove"}
      BY <1>3, <2>1, Zenon
    <3>2. req[p].kind # "create"
      BY <3>1
    <3> QED
      BY <1>3, <2>1, <2>2, <3>2, Zenon
  <2>4. row'[s] \in Accounts
    <3>1. row[s] \in Accounts /\ row'[s] = Patched(row[s], req[p].patch)
      BY <2>2, <2>3 DEF AccountsTypeOK
    <3> QED
      BY <2>3, <3>1, PatchedTyped, Zenon
  <2> DEFINE c == IF req[p].kind = "update" THEN row'[s] ELSE req[p].copy
  <2>5. c \in Accounts
    BY <2>3, <2>4, Zenon
  <2>6. Proceed(p, [req[p] EXCEPT !.copy = c], Tail(todo[p]))
    BY <2>2
  <2> HIDE DEF c
  <2> QED
    BY <1>3, <2>1, <2>5, <2>6, CopyProceeds, Zenon
<1>10. CASE ReadPackage(p)
  BY <1>10, ReadFits, ProceedFits, Zenon
<1> QED
  BY <1>4, <1>5, <1>6, <1>7, <1>8, <1>9, <1>10, Zenon DEF Statement

\* A statement leaves the histories of the requests with what they hold, or less.
LEMMA HistoriesShrink ==
  ASSUME NEW p \in Requests, Refuse(p) \/ \E r, rest : Proceed(p, r, rest)
  PROVE  clean' \subseteq clean /\ disturbed' \subseteq disturbed
BY DEF Refuse, Proceed

LEMMA HeldOne ==
  ASSUME NEW p, NEW s, req[p].subs = {s}
  PROVE  Held(p) = aaa[UserOf[s]]
<1>1. (CHOOSE t \in {s} : TRUE) = s
  OBVIOUS
<1> QED
  BY <1>1, Zenon DEF Held

\* One statement writes the attributes of one username.
LEMMA PushedOne ==
  ASSUME AccountsTypeOK, NEW p \in Requests, NEW s \in Subscribers, req[p].subs = {s},
         NEW values, Pushed(p, values), \A a \in Attributes : values[a] \in SUBSET Nat
  PROVE  /\ aaa'[UserOf[s]] = [a \in Attributes |-> values[a]]
         /\ \A u \in Users : u # UserOf[s] => aaa'[u] = aaa[u]
         /\ aaa' \in [Users -> [Attributes -> SUBSET Nat]]
<1>2. UserOf[s] \in Users
  BY DEF Users
<1>3. aaa' = [aaa EXCEPT ![UserOf[s]] = [a \in Attributes |-> values[a]]]
  BY Zenon DEF Pushed
<1>4. aaa \in [Users -> [Attributes -> SUBSET Nat]]
  BY Zenon DEF AccountsTypeOK
<1> DEFINE v == [a \in Attributes |-> values[a]]
<1>5. v \in [Attributes -> SUBSET Nat]
  OBVIOUS
<1> HIDE DEF v
<1>6. aaa' = [aaa EXCEPT ![UserOf[s]] = v]
  BY <1>3 DEF v
<1>7. aaa'[UserOf[s]] = v /\ \A u \in Users : u # UserOf[s] => aaa'[u] = aaa[u]
  BY <1>2, <1>4, <1>6
<1>8. aaa' \in [Users -> [Attributes -> SUBSET Nat]]
  BY <1>2, <1>4, <1>5, <1>6
<1> QED
  BY <1>7, <1>8, Zenon DEF v

LEMMA DeleteAttrStep ==
  ASSUME AccountsTypeOK, RequestsFit, NEW p \in Requests, DeleteAttr(p)
  PROVE  LET a == Head(todo[p])[2]
         IN \E s \in Subscribers :
              /\ req[p].subs = {s} /\ OneFits(req[p], todo[p]) /\ PushAhead(req[p], todo[p])
              /\ req[p].kind \in {"create", "update", "setPassword"} /\ ~Unwriting(todo[p])
              /\ UserOf[s] \in Users /\ a \in Attributes
              /\ aaa'[UserOf[s]][a] = {}
              /\ \A b \in Attributes : b # a => aaa'[UserOf[s]][b] = aaa[UserOf[s]][b]
              /\ \A u \in Users : u # UserOf[s] => aaa'[u] = aaa[u]
              /\ aaa' \in [Users -> [Attributes -> SUBSET Nat]]
<1> DEFINE a == Head(todo[p])[2]
           values(s) == [aaa[UserOf[s]] EXCEPT ![a] = {}]
<1>1. todo[p] # <<>> /\ Head(todo[p])[1] = "deleteAttr" /\ Pushed(p, [Held(p) EXCEPT ![a] = {}])
  BY Zenon DEF DeleteAttr, Awaits
<1>2. PICK s \in Subscribers : req[p].subs = {s} /\ OneFits(req[p], todo[p])
  <2>1. Head(todo[p])[1] \notin {"assertPackage", "updateRows", "updatePackage", "findInUse", "deletePackage"}
    BY <1>1
  <2> QED
    BY <1>1, <2>1, WhoAwaits, Zenon
<1>3. /\ PushAhead(req[p], todo[p]) /\ req[p].kind \in {"create", "update", "setPassword"}
      /\ ~Unwriting(todo[p])
  <2>1. Head(todo[p])[1] \notin {"assertPackage", "findExisting", "insertRow", "findOwned", "updateRow",
                                 "readPackage", "deleteUser"}
    BY <1>1
  <2> QED
    BY <1>2, <2>1, OneSteps, Zenon
<1>4. a \in Attributes
  BY <1>3, PushSteps, Zenon
<1>5. UserOf[s] \in Users /\ aaa[UserOf[s]] \in [Attributes -> SUBSET Nat]
  BY DEF Users, AccountsTypeOK
<1> HIDE DEF a
<1>6. Held(p) = aaa[UserOf[s]]
  BY <1>2, HeldOne, Zenon
<1>7. Pushed(p, values(s))
  BY <1>1, <1>6, Zenon
<1>8. /\ \A b \in Attributes : values(s)[b] \in SUBSET Nat
      /\ values(s)[a] = {} /\ \A b \in Attributes : b # a => values(s)[b] = aaa[UserOf[s]][b]
  BY <1>4, <1>5
<1> HIDE DEF values
<1>9. /\ aaa'[UserOf[s]] = [b \in Attributes |-> values(s)[b]]
      /\ \A u \in Users : u # UserOf[s] => aaa'[u] = aaa[u]
      /\ aaa' \in [Users -> [Attributes -> SUBSET Nat]]
  BY <1>2, <1>7, <1>8, PushedOne, Zenon
<1>10. \A b \in Attributes : aaa'[UserOf[s]][b] = values(s)[b]
  BY <1>9
<1>11. aaa'[UserOf[s]][a] = {} /\ \A b \in Attributes : b # a => aaa'[UserOf[s]][b] = aaa[UserOf[s]][b]
  BY <1>4, <1>8, <1>10, Zenon
<1> QED
  BY <1>2, <1>3, <1>4, <1>5, <1>9, <1>11, Zenon DEF a

LEMMA InsertAttrStep ==
  ASSUME AccountsTypeOK, RequestsFit, NEW p \in Requests, InsertAttr(p)
  PROVE  LET a == Head(todo[p])[2]
         IN \E s \in Subscribers :
              /\ req[p].subs = {s} /\ OneFits(req[p], todo[p]) /\ PushAhead(req[p], todo[p])
              /\ req[p].kind \in {"create", "update", "setPassword"} /\ ~Unwriting(todo[p])
              /\ UserOf[s] \in Users /\ a \in Attributes
              /\ \/ /\ a = "Rate-Limit" \/ aaa[UserOf[s]][a] = {}
                    /\ Next1(p)
                    /\ aaa'[UserOf[s]][a] = aaa[UserOf[s]][a] \union {Value(req[p].copy, a)}
                    /\ \A b \in Attributes : b # a => aaa'[UserOf[s]][b] = aaa[UserOf[s]][b]
                    /\ \A u \in Users : u # UserOf[s] => aaa'[u] = aaa[u]
                    /\ aaa' \in [Users -> [Attributes -> SUBSET Nat]]
                 \/ a # "Rate-Limit" /\ aaa[UserOf[s]][a] # {} /\ Refuse(p) /\ UNCHANGED aaa
<1> DEFINE a == Head(todo[p])[2]
           values(s) == [aaa[UserOf[s]] EXCEPT ![a] = @ \union {Value(req[p].copy, a)}]
<1>1. /\ todo[p] # <<>> /\ Head(todo[p])[1] = "insertAttr"
      /\ IF a = "Rate-Limit" \/ Held(p)[a] = {}
           THEN Pushed(p, [Held(p) EXCEPT ![a] = @ \union {Value(req[p].copy, a)}]) /\ Next1(p)
           ELSE Refuse(p) /\ UNCHANGED aaa
  BY Zenon DEF InsertAttr, Awaits
<1>2. PICK s \in Subscribers : req[p].subs = {s} /\ OneFits(req[p], todo[p])
  <2>1. Head(todo[p])[1] \notin {"assertPackage", "updateRows", "updatePackage", "findInUse", "deletePackage"}
    BY <1>1
  <2> QED
    BY <1>1, <2>1, WhoAwaits, Zenon
<1>3. /\ PushAhead(req[p], todo[p]) /\ req[p].kind \in {"create", "update", "setPassword"}
      /\ req[p].copy \in Copies /\ ~Unwriting(todo[p])
  <2>1. Head(todo[p])[1] \notin {"assertPackage", "findExisting", "insertRow", "findOwned", "updateRow",
                                 "readPackage", "deleteUser"}
    BY <1>1
  <2> QED
    BY <1>2, <2>1, OneSteps, Zenon
<1>4. a \in Attributes
  BY <1>3, PushSteps, Zenon
<1>5. UserOf[s] \in Users /\ aaa[UserOf[s]] \in [Attributes -> SUBSET Nat]
  BY DEF Users, AccountsTypeOK
<1>6. Value(req[p].copy, a) \in Nat
  BY <1>3, <1>4 DEF Value, Attributes, Copies
<1> HIDE DEF a
<1>7. Held(p) = aaa[UserOf[s]]
  BY <1>2, HeldOne, Zenon
<1>8. CASE a = "Rate-Limit" \/ aaa[UserOf[s]][a] = {}
  <2>1. Pushed(p, values(s)) /\ Next1(p)
    BY <1>1, <1>7, <1>8, Zenon
  <2>2. /\ \A b \in Attributes : values(s)[b] \in SUBSET Nat
        /\ values(s)[a] = aaa[UserOf[s]][a] \union {Value(req[p].copy, a)}
        /\ \A b \in Attributes : b # a => values(s)[b] = aaa[UserOf[s]][b]
    BY <1>4, <1>5, <1>6
  <2> HIDE DEF values
  <2>3. /\ aaa'[UserOf[s]] = [b \in Attributes |-> values(s)[b]]
        /\ \A u \in Users : u # UserOf[s] => aaa'[u] = aaa[u]
        /\ aaa' \in [Users -> [Attributes -> SUBSET Nat]]
    BY <1>2, <2>1, <2>2, PushedOne, Zenon
  <2>4. \A b \in Attributes : aaa'[UserOf[s]][b] = values(s)[b]
    BY <2>3
  <2>5. /\ aaa'[UserOf[s]][a] = aaa[UserOf[s]][a] \union {Value(req[p].copy, a)}
        /\ \A b \in Attributes : b # a => aaa'[UserOf[s]][b] = aaa[UserOf[s]][b]
    BY <1>4, <2>2, <2>4, Zenon
  <2> QED
    BY <1>2, <1>3, <1>4, <1>5, <1>8, <2>1, <2>3, <2>5, Zenon DEF a
<1>9. CASE a # "Rate-Limit" /\ aaa[UserOf[s]][a] # {}
  <2>1. Refuse(p) /\ UNCHANGED aaa
    BY <1>1, <1>7, <1>9, Zenon
  <2> QED
    BY <1>2, <1>3, <1>4, <1>5, <1>9, <2>1, Zenon DEF a
<1> QED
  BY <1>8, <1>9, Zenon

LEMMA DeleteUserStep ==
  ASSUME AccountsTypeOK, RequestsFit, NEW p \in Requests, DeleteUser(p)
  PROVE  \E s \in Subscribers :
           /\ req[p].subs = {s} /\ OneFits(req[p], todo[p])
           /\ req[p].kind \in {"revokePassword", "remove"} /\ ~Unwriting(todo[p])
           /\ UserOf[s] \in Users
           /\ \/ /\ Tail(todo[p]) = << <<"deleteUser", "radreply">> >>
                 /\ aaa'[UserOf[s]]["Cleartext-Password"] = {}
              \/ /\ todo[p] = << <<"deleteUser", "radreply">> >> /\ Tail(todo[p]) = <<>>
                 /\ \A b \in Attributes \ {"Rate-Limit"} : aaa'[UserOf[s]][b] = aaa[UserOf[s]][b]
           /\ \A u \in Users : u # UserOf[s] => aaa'[u] = aaa[u]
           /\ aaa' \in [Users -> [Attributes -> SUBSET Nat]]
<1> DEFINE t == Head(todo[p])[2]
           values(s) == [b \in Attributes |-> IF Table(b) = t THEN {} ELSE aaa[UserOf[s]][b]]
<1>1. /\ todo[p] # <<>> /\ Head(todo[p])[1] = "deleteUser"
      /\ Pushed(p, [b \in Attributes |-> IF Table(b) = t THEN {} ELSE Held(p)[b]])
  BY Zenon DEF DeleteUser, Awaits
<1>2. PICK s \in Subscribers : req[p].subs = {s} /\ OneFits(req[p], todo[p])
  <2>1. Head(todo[p])[1] \notin {"assertPackage", "updateRows", "updatePackage", "findInUse", "deletePackage"}
    BY <1>1
  <2> QED
    BY <1>1, <2>1, WhoAwaits, Zenon
<1>3. /\ req[p].kind \in {"revokePassword", "remove"} /\ ~Unwriting(todo[p])
      /\ \/ t = "radcheck" /\ Tail(todo[p]) = << <<"deleteUser", "radreply">> >>
         \/ t = "radreply" /\ Tail(todo[p]) = <<>> /\ todo[p] = << <<"deleteUser", "radreply">> >>
  <2>1. Head(todo[p])[1] \notin {"assertPackage", "findExisting", "insertRow", "findOwned", "updateRow",
                                 "readPackage", "deleteAttr", "insertAttr"}
    BY <1>1
  <2> QED
    BY <1>2, <2>1, OneSteps, Zenon
<1>4. UserOf[s] \in Users /\ aaa[UserOf[s]] \in [Attributes -> SUBSET Nat]
  BY DEF Users, AccountsTypeOK
<1> HIDE DEF t
<1>5. Held(p) = aaa[UserOf[s]]
  BY <1>2, HeldOne, Zenon
<1>6. Pushed(p, values(s))
  BY <1>1, <1>5, Zenon
<1>7. /\ \A b \in Attributes : values(s)[b] \in SUBSET Nat
      /\ \A b \in Attributes : values(s)[b] = IF Table(b) = t THEN {} ELSE aaa[UserOf[s]][b]
  BY <1>4
<1> HIDE DEF values
<1>8. /\ aaa'[UserOf[s]] = [b \in Attributes |-> values(s)[b]]
      /\ \A u \in Users : u # UserOf[s] => aaa'[u] = aaa[u]
      /\ aaa' \in [Users -> [Attributes -> SUBSET Nat]]
  BY <1>2, <1>6, <1>7, PushedOne, Zenon
<1>9. \A b \in Attributes : aaa'[UserOf[s]][b] = IF Table(b) = t THEN {} ELSE aaa[UserOf[s]][b]
  BY <1>7, <1>8
<1>10. t = "radcheck" => aaa'[UserOf[s]]["Cleartext-Password"] = {}
  BY <1>9, AttributesNamed DEF Table
<1>11. t = "radreply" => \A b \in Attributes \ {"Rate-Limit"} : aaa'[UserOf[s]][b] = aaa[UserOf[s]][b]
  BY <1>9 DEF Table
<1> QED
  BY <1>2, <1>3, <1>4, <1>8, <1>10, <1>11, Zenon

LEMMA InsertRowStep ==
  ASSUME AccountsTypeOK, RequestsFit, NEW p \in Requests, InsertRow(p)
  PROVE  \E s \in Subscribers :
           /\ req[p].subs = {s} /\ OneFits(req[p], todo[p]) /\ WriteAhead(req[p], todo[p])
           /\ Unwriting(todo[p]) /\ Head(todo[p])[1] = "insertRow"
           /\ req[p].kind = "create" /\ Tail(todo[p]) = << <<"readPackage">> >>
           /\ req[p].patch \in Accounts /\ req[p].patch.state = "live"
           /\ req[p].patch.password # 0 /\ req[p].patch.package = req[p].package
           /\ \/ /\ row[s].state = "absent"
                 /\ row'[s] = req[p].patch /\ \A t \in Subscribers \ {s} : row'[t] = row[t]
                 /\ row' \in [Subscribers -> Accounts]
                 /\ Proceed(p, [req[p] EXCEPT !.copy = req[p].patch], Tail(todo[p]))
              \/ Refuse(p) /\ UNCHANGED row
<1>1. todo[p] # <<>> /\ Head(todo[p])[1] = "insertRow"
  BY Zenon DEF InsertRow, Awaits
<1>2. PICK s \in Subscribers : /\ req[p].subs = {s} /\ OneFits(req[p], todo[p])
                               /\ WriteAhead(req[p], todo[p])
  <2>1. /\ Head(todo[p])[1] \notin {"assertPackage", "updateRows", "updatePackage", "findInUse", "deletePackage"}
        /\ Head(todo[p])[1] \in {"findExisting", "insertRow", "findOwned", "updateRow"}
    BY <1>1
  <2> QED
    BY <1>1, <2>1, WhoAwaits, Zenon
<1>3. /\ req[p].kind = "create" /\ Tail(todo[p]) = << <<"readPackage">> >>
      /\ Unwriting(todo[p])
  <2>1. Head(todo[p])[1] \notin {"assertPackage", "findExisting", "findOwned", "updateRow"}
    BY <1>1
  <2> QED
    BY <1>2, <2>1, WriteSteps, Zenon DEF Unwriting
<1>4. /\ req[p].patch \in Accounts /\ req[p].patch.state = "live"
      /\ req[p].patch.password # 0 /\ req[p].patch.package = req[p].package
  <2>1. PatchFits(req[p])
    BY <1>2, OneSteps, Zenon
  <2> QED
    BY <1>3, <2>1 DEF PatchFits
<1>5. row \in [Subscribers -> Accounts]
  BY Zenon DEF AccountsTypeOK
<1>6. IF row[s].state = "absent"
        THEN /\ row' = [row EXCEPT ![s] = req[p].patch]
             /\ Proceed(p, [req[p] EXCEPT !.copy = req[p].patch], Tail(todo[p]))
        ELSE Refuse(p) /\ UNCHANGED row
  <2>1. PICK t \in req[p].subs :
          IF row[t].state = "absent"
            THEN /\ row' = [row EXCEPT ![t] = req[p].patch]
                 /\ Proceed(p, [req[p] EXCEPT !.copy = req[p].patch], Tail(todo[p]))
            ELSE Refuse(p) /\ UNCHANGED row
    BY Zenon DEF InsertRow
  <2>2. t = s
    BY <1>2, <2>1
  <2> QED
    BY <2>1, <2>2, Zenon
<1>7. CASE row[s].state = "absent"
  <2>1. row' = [row EXCEPT ![s] = req[p].patch]
    BY <1>6, <1>7, Zenon
  <2>2. /\ row'[s] = req[p].patch /\ \A t \in Subscribers \ {s} : row'[t] = row[t]
        /\ row' \in [Subscribers -> Accounts]
    BY <1>4, <1>5, <2>1
  <2> QED
    BY <1>1, <1>2, <1>3, <1>4, <1>6, <1>7, <2>2, Zenon
<1>8. CASE row[s].state # "absent"
  BY <1>1, <1>2, <1>3, <1>4, <1>6, <1>8, Zenon
<1> QED
  BY <1>7, <1>8, Zenon

LEMMA UpdateRowStep ==
  ASSUME AccountsTypeOK, RequestsFit, NEW p \in Requests, UpdateRow(p)
  PROVE  \E s \in Subscribers : \E c \in Accounts :
           /\ req[p].subs = {s} /\ OneFits(req[p], todo[p]) /\ WriteAhead(req[p], todo[p])
           /\ Unwriting(todo[p]) /\ PatchFits(req[p]) /\ Head(todo[p])[1] = "updateRow"
           /\ \/ /\ req[p].kind \in {"update", "setPassword"}
                 /\ todo[p] = << <<"updateRow">>, <<"readPackage">> >>
                 /\ Tail(todo[p]) = << <<"readPackage">> >>
              \/ /\ req[p].kind \in {"revokePassword", "remove"}
                 /\ Tail(todo[p]) = Tail(Tail(Withdrawal))
           /\ row'[s] = Patched(row[s], req[p].patch) /\ row'[s] \in Accounts
           /\ \A t \in Subscribers \ {s} : row'[t] = row[t]
           /\ row' \in [Subscribers -> Accounts]
           /\ c = (IF req[p].kind = "update" THEN row'[s] ELSE req[p].copy)
           /\ Proceed(p, [req[p] EXCEPT !.copy = c], Tail(todo[p]))
<1>1. todo[p] # <<>> /\ Head(todo[p])[1] = "updateRow"
  BY Zenon DEF UpdateRow, Awaits
<1>2. PICK s \in Subscribers : /\ req[p].subs = {s} /\ OneFits(req[p], todo[p])
                               /\ WriteAhead(req[p], todo[p])
  <2>1. /\ Head(todo[p])[1] \notin {"assertPackage", "updateRows", "updatePackage", "findInUse", "deletePackage"}
        /\ Head(todo[p])[1] \in {"findExisting", "insertRow", "findOwned", "updateRow"}
    BY <1>1
  <2> QED
    BY <1>1, <2>1, WhoAwaits, Zenon
<1>3. /\ Unwriting(todo[p])
      /\ \/ /\ req[p].kind \in {"update", "setPassword"}
            /\ todo[p] = << <<"updateRow">>, <<"readPackage">> >>
            /\ Tail(todo[p]) = << <<"readPackage">> >>
         \/ /\ req[p].kind \in {"revokePassword", "remove"}
            /\ Tail(todo[p]) = Tail(Tail(Withdrawal))
  <2>1. Head(todo[p])[1] \notin {"assertPackage", "findExisting", "findOwned", "insertRow"}
    BY <1>1
  <2> QED
    BY <1>2, <2>1, WriteSteps, Zenon DEF Unwriting
<1>4. PatchFits(req[p]) /\ req[p].copy \in Accounts
  <2>1. Head(todo[p])[1] \notin {"readPackage", "deleteAttr", "insertAttr", "deleteUser"}
    BY <1>1
  <2> QED
    BY <1>2, <2>1, OneSteps, Zenon
<1>5. row \in [Subscribers -> Accounts] /\ row[s] \in Accounts
  BY DEF AccountsTypeOK
<1>6. Patched(row[s], req[p].patch) \in Accounts
  <2>1. req[p].kind # "create"
    BY <1>3
  <2> QED
    BY <1>4, <1>5, <2>1, PatchedTyped, Zenon
<1>7. /\ row' = [row EXCEPT ![s] = Patched(@, req[p].patch)]
      /\ Proceed(p, [req[p] EXCEPT !.copy = IF req[p].kind = "update" THEN row'[s] ELSE @], Tail(todo[p]))
  <2>1. PICK t \in req[p].subs :
          /\ row' = [row EXCEPT ![t] = Patched(@, req[p].patch)]
          /\ Proceed(p, [req[p] EXCEPT !.copy = IF req[p].kind = "update" THEN row'[t] ELSE @], Tail(todo[p]))
    BY Zenon DEF UpdateRow
  <2>2. t = s
    BY <1>2, <2>1
  <2> QED
    BY <2>1, <2>2, Zenon
<1>8. /\ row'[s] = Patched(row[s], req[p].patch)
      /\ \A t \in Subscribers \ {s} : row'[t] = row[t]
      /\ row' \in [Subscribers -> Accounts]
  <2> DEFINE v == Patched(row[s], req[p].patch)
  <2>1. row' = [row EXCEPT ![s] = v] /\ v \in Accounts
    BY <1>6, <1>7, Zenon
  <2> HIDE DEF v
  <2>2. row'[s] = v /\ (\A t \in Subscribers \ {s} : row'[t] = row[t]) /\ row' \in [Subscribers -> Accounts]
    BY <1>5, <2>1
  <2> QED
    BY <2>2, Zenon DEF v
<1> DEFINE c == IF req[p].kind = "update" THEN row'[s] ELSE req[p].copy
<1>9. c \in Accounts
  BY <1>4, <1>6, <1>8, Zenon
<1>10. Proceed(p, [req[p] EXCEPT !.copy = c], Tail(todo[p]))
  BY <1>7
<1>11. row'[s] \in Accounts
  BY <1>6, <1>8, Zenon
<1>12. c = (IF req[p].kind = "update" THEN row'[s] ELSE req[p].copy)
  OBVIOUS
<1> HIDE DEF c
<1> QED
  BY <1>1, <1>2, <1>3, <1>4, <1>8, <1>9, <1>10, <1>11, <1>12, Zenon

LEMMA UpdateRowsStep ==
  ASSUME AccountsTypeOK, RequestsFit, NEW p \in Requests, UpdateRows(p)
  PROVE  /\ req[p].subs = {} /\ req[p].kind = "bulkAssign" /\ req[p].package \in Packages
         /\ todo[p] = << <<"updateRows">> >> /\ Tail(todo[p]) = <<>>
         /\ row' \in [Subscribers -> Accounts]
         /\ \A s \in Subscribers :
              /\ row'[s].state = row[s].state /\ row'[s].status = row[s].status
              /\ row'[s].password = row[s].password /\ row'[s].expires = row[s].expires
              /\ \/ row'[s].package = row[s].package
                 \/ row'[s].package = req[p].package
<1>1. todo[p] # <<>> /\ Head(todo[p])[1] = "updateRows"
  BY Zenon DEF UpdateRows, Awaits
<1>2. PlainFits(req[p], todo[p]) /\ req[p].subs = {}
  <2>1. Head(todo[p])[1] \in {"updateRows", "updatePackage", "findInUse", "deletePackage"}
    BY <1>1
  <2> QED
    BY <1>1, <2>1, WhoAwaits, Zenon
<1>3. /\ req[p].kind = "bulkAssign" /\ req[p].package \in Packages
      /\ todo[p] = << <<"updateRows">> >> /\ Tail(todo[p]) = <<>>
  <2>1. Head(todo[p])[1] \notin {"assertPackage", "updatePackage", "findInUse", "deletePackage"}
    BY <1>1
  <2> QED
    BY <1>2, <2>1, PlainSteps, Zenon
<1>4. row' = [s \in Subscribers |->
               IF s \in req[p].rows /\ row[s].state = "live"
                 THEN [row[s] EXCEPT !.package = req[p].package] ELSE row[s]]
  BY Zenon DEF UpdateRows
<1>5. ASSUME NEW s \in Subscribers
      PROVE  /\ row'[s] \in Accounts
             /\ row'[s].state = row[s].state /\ row'[s].status = row[s].status
             /\ row'[s].password = row[s].password /\ row'[s].expires = row[s].expires
             /\ \/ row'[s].package = row[s].package
                \/ row'[s].package = req[p].package
  <2>1. row[s] \in Accounts
    BY DEF AccountsTypeOK
  <2>2. row'[s] = row[s] \/ row'[s] = [row[s] EXCEPT !.package = req[p].package]
    BY <1>4
  <2> QED
    BY <1>3, <2>1, <2>2 DEF Accounts
<1>6. row' \in [Subscribers -> Accounts]
  BY <1>4, <1>5
<1> QED
  BY <1>2, <1>3, <1>5, <1>6, Zenon

LEMMA StatementTyped ==
  ASSUME AccountsTypeOK, RequestsFit, NEW p \in Requests, Statement(p)
  PROVE  AccountsTypeOK'
<1>1. /\ row \in [Subscribers -> Accounts] /\ rate \in [Packages -> Nat] /\ removed \subseteq Packages
      /\ aaa \in [Users -> [Attributes -> SUBSET Nat]]
      /\ DOMAIN req = Requests /\ DOMAIN todo = Requests /\ begun \in Nat
      /\ disturbed \subseteq Subscribers /\ clean \subseteq Requests
  BY Zenon DEF AccountsTypeOK
<1>2. Refuse(p) \/ \E r, rest : Proceed(p, r, rest)
  BY Zenon DEF Statement, AssertPackage, FindExisting, FindOwned, InsertRow, UpdateRow, UpdateRows,
               ReadPackage, DeleteAttr, InsertAttr, DeleteUser, WritePackage, FindInUse,
               DeletePackage, Guarded, Next1
<1>3. disturbed' \subseteq Subscribers /\ clean' \subseteq Requests
  BY <1>1, <1>2, HistoriesShrink
<1>4. DOMAIN req' = Requests /\ DOMAIN todo' = Requests
  <2>1. ASSUME Refuse(p)
        PROVE  DOMAIN req' = Requests /\ DOMAIN todo' = Requests
    BY <1>1, <2>1 DEF Refuse
  <2>2. ASSUME NEW r, NEW rest, Proceed(p, r, rest)
        PROVE  DOMAIN req' = Requests /\ DOMAIN todo' = Requests
    BY <2>2, RequestStep, Zenon
  <2> QED
    BY <1>2, <2>1, <2>2, Zenon
<1> DEFINE RowKept == row' = row
           RateKept == rate' = rate
           RemovedKept == removed' = removed
           AaaKept == aaa' = aaa
<1>5. begun' = begun
  BY Zenon DEF Statement, AssertPackage, FindExisting, FindOwned, InsertRow, UpdateRow, UpdateRows,
               ReadPackage, DeleteAttr, InsertAttr, DeleteUser, WritePackage, FindInUse, DeletePackage
<1>6. row' \in [Subscribers -> Accounts]
  <2>1. CASE InsertRow(p)
    <3>1. row' \in [Subscribers -> Accounts] \/ row' = row
      BY <2>1, InsertRowStep, Zenon
    <3> QED
      BY <1>1, <3>1, Zenon
  <2>2. CASE UpdateRow(p)
    BY <2>2, UpdateRowStep, Zenon
  <2>3. CASE UpdateRows(p)
    BY <2>3, UpdateRowsStep, Zenon
  <2>4. CASE row' = row
    BY <1>1, <2>4, Zenon
  <2> QED
    BY <2>1, <2>2, <2>3, <2>4, Zenon
    DEF Statement, AssertPackage, FindExisting, FindOwned, ReadPackage, DeleteAttr, InsertAttr,
        DeleteUser, WritePackage, FindInUse, DeletePackage
<1>7. rate' \in [Packages -> Nat]
  <2>1. CASE WritePackage(p)
    BY <1>1, <2>1 DEF WritePackage
  <2>2. CASE rate' = rate
    BY <1>1, <2>2, Zenon
  <2> QED
    BY <2>1, <2>2, Zenon
    DEF Statement, AssertPackage, FindExisting, FindOwned, InsertRow, UpdateRow, UpdateRows,
        ReadPackage, DeleteAttr, InsertAttr, DeleteUser, FindInUse, DeletePackage
<1>8. removed' \subseteq Packages
  <2>1. CASE DeletePackage(p)
    <3>1. todo[p] # <<>> /\ Head(todo[p])[1] = "deletePackage" /\ removed' = removed \union {req[p].package}
      BY <2>1, Zenon DEF DeletePackage, Awaits
    <3>2. Head(todo[p])[1] \in {"updateRows", "updatePackage", "findInUse", "deletePackage"}
      BY <3>1
    <3>3. req[p].package \in Packages
      BY <3>1, <3>2, WhoAwaits, PlainSteps, Zenon
    <3> QED
      BY <1>1, <3>1, <3>3
  <2>2. CASE removed' = removed
    BY <1>1, <2>2, Zenon
  <2> QED
    BY <2>1, <2>2, Zenon
    DEF Statement, AssertPackage, FindExisting, FindOwned, InsertRow, UpdateRow, UpdateRows,
        ReadPackage, DeleteAttr, InsertAttr, DeleteUser, WritePackage, FindInUse
<1>9. aaa' \in [Users -> [Attributes -> SUBSET Nat]]
  <2>1. CASE DeleteAttr(p)
    BY <2>1, DeleteAttrStep, Zenon
  <2>2. CASE InsertAttr(p)
    <3>1. aaa' \in [Users -> [Attributes -> SUBSET Nat]] \/ aaa' = aaa
      BY <2>2, InsertAttrStep, Zenon
    <3> QED
      BY <1>1, <3>1, Zenon
  <2>3. CASE DeleteUser(p)
    BY <2>3, DeleteUserStep, Zenon
  <2>4. CASE aaa' = aaa
    BY <1>1, <2>4, Zenon
  <2> QED
    BY <2>1, <2>2, <2>3, <2>4, Zenon
    DEF Statement, AssertPackage, FindExisting, FindOwned, InsertRow, UpdateRow, UpdateRows,
        ReadPackage, WritePackage, FindInUse, DeletePackage
<1> QED
  BY <1>1, <1>3, <1>4, <1>5, <1>6, <1>7, <1>8, <1>9, Zenon DEF AccountsTypeOK

LEMMA ArriveTyped ==
  ASSUME AccountsTypeOK, NEW p \in Requests, Arrive(p)
  PROVE  AccountsTypeOK'
<1>1. ASSUME NEW r, NEW steps, Admit(p, r, steps)
      PROVE  /\ UNCHANGED <<row, rate, removed, aaa>> /\ begun' \in Nat
             /\ DOMAIN req' = Requests /\ DOMAIN todo' = Requests
  BY <1>1 DEF Admit, AccountsTypeOK
<1>2. CASE \E r, steps : AdmitPlain(p, r, steps)
  BY <1>1, <1>2, Zenon DEF AdmitPlain, AccountsTypeOK
<1>3. ASSUME NEW kind, NEW k, NEW patch, NEW steps, NEW s \in Subscribers,
             AdmitOne(p, kind, s, k, patch, steps)
      PROVE  AccountsTypeOK'
  <2>1. Admit(p, OneRequest(kind, s, k, patch), steps)
    BY <1>3, Zenon DEF AdmitOne, OneRequest
  <2>2. disturbed' \subseteq Subscribers /\ clean' \subseteq Requests
    BY <1>3 DEF AdmitOne, AccountsTypeOK, Namesakes, RowsOf
  <2> QED
    BY <1>1, <2>1, <2>2, Zenon DEF AccountsTypeOK
<1> QED
  BY <1>2, <1>3, Arrives, Zenon

LEMMA FaultTyped ==
  ASSUME AccountsTypeOK, RequestsFit, NEW p \in Requests, Fault(p)
  PROVE  AccountsTypeOK' /\ RequestsFit'
<1>1. /\ req' = [req EXCEPT ![p] = Idle] /\ todo' = [todo EXCEPT ![p] = <<>>]
      /\ UNCHANGED <<row, rate, removed, aaa, begun>>
  BY Zenon DEF Fault
<1>2. RequestsFit'
  BY <1>1, EndFits, Zenon
<1>3. req[p].subs \subseteq Subscribers
  <2>1. todo[p] # <<>>
    BY Zenon DEF Fault
  <2>2. req[p].subs = {} \/ \E s \in Subscribers : req[p].subs = {s}
    BY <2>1, WhoAwaits, Zenon
  <2> QED
    BY <2>2
<1>4. disturbed' \subseteq Subscribers /\ clean' \subseteq Requests
  BY <1>3 DEF Fault, AccountsTypeOK
<1>5. DOMAIN req' = Requests /\ DOMAIN todo' = Requests
  BY <1>1 DEF AccountsTypeOK
<1> QED
  BY <1>1, <1>2, <1>4, <1>5, Zenon DEF AccountsTypeOK

LEMMA EntitlementTyped ==
  ASSUME NEW r \in Accounts, rate \in [Packages -> Nat]
  PROVE  Entitlement(r) \in [Attributes -> SUBSET Nat]
<1>1. ASSUME NEW a \in Attributes
      PROVE  Entitlement(r)[a] \in SUBSET Nat
  BY <1>1 DEF Entitlement, Attributes, Accounts
<1> QED
  BY <1>1 DEF Entitlement

LEMMA InitTyped ==
  ASSUME AccountsOK, Init
  PROVE  AccountsTypeOK /\ RequestsFit
<1>1. rate \in [Packages -> Nat] /\ removed = {} /\ begun = 1 /\ clean = {}
  BY DEF Init
<1>2. row \in [Subscribers -> Accounts] /\ disturbed \subseteq Subscribers
  <2>1. PICK live \in SUBSET Subscribers, k \in Packages :
          /\ row = [s \in Subscribers |->
                [state |-> IF s \in live THEN "live" ELSE "absent", status |-> "ACTIVE",
                 password |-> IF s \in live THEN 1 ELSE 0, expires |-> 1, package |-> k]]
          /\ disturbed = UNION {Namesakes(s) : s \in live}
    BY Zenon DEF Init
  <2>2. row \in [Subscribers -> Accounts]
    <3>1. ASSUME NEW s \in Subscribers
          PROVE  [state |-> IF s \in live THEN "live" ELSE "absent", status |-> "ACTIVE",
                  password |-> IF s \in live THEN 1 ELSE 0, expires |-> 1, package |-> k] \in Accounts
      BY DEF Accounts, Statuses
    <3> QED
      BY <2>1, <3>1
  <2>3. disturbed \subseteq Subscribers
    BY <2>1 DEF Namesakes, RowsOf
  <2> QED
    BY <2>2, <2>3
<1>3. aaa \in [Users -> [Attributes -> SUBSET Nat]]
  <2>1. aaa = [u \in Users |-> [a \in Attributes |-> UNION {Entitlement(row[s])[a] : s \in RowsOf(u)}]]
    BY Zenon DEF Init
  <2>2. ASSUME NEW u \in Users, NEW a \in Attributes
        PROVE  UNION {Entitlement(row[s])[a] : s \in RowsOf(u)} \in SUBSET Nat
    <3>1. \A s \in RowsOf(u) : Entitlement(row[s])[a] \in SUBSET Nat
      <4>1. ASSUME NEW s \in RowsOf(u)
            PROVE  Entitlement(row[s])[a] \in SUBSET Nat
        <5>1. row[s] \in Accounts
          BY <1>2 DEF RowsOf
        <5>2. Entitlement(row[s]) \in [Attributes -> SUBSET Nat]
          BY <1>1, <5>1, EntitlementTyped, Zenon
        <5> HIDE DEF Attributes
        <5> QED
          BY <5>2
      <4> QED
        BY <4>1, Zenon
    <3> QED
      BY <3>1
  <2> QED
    BY <2>1, <2>2
<1>4. /\ DOMAIN req = Requests /\ DOMAIN todo = Requests
      /\ \A p \in Requests : req[p] = Idle /\ todo[p] = <<>>
  BY DEF Init
<1>5. RequestsFit
  BY <1>4, Zenon DEF RequestsFit, RequestFits
<1>6. AccountsTypeOK
  BY <1>1, <1>2, <1>3, <1>4 DEF AccountsTypeOK
<1> QED
  BY <1>5, <1>6

LEMMA TypedStep ==
  ASSUME AccountsTypeOK, RequestsFit, [Next]_vars
  PROVE  AccountsTypeOK' /\ RequestsFit'
<1>1. ASSUME NEW p \in Requests, Arrive(p)
      PROVE  AccountsTypeOK' /\ RequestsFit'
  <2>1. AccountsTypeOK'
    BY <1>1, ArriveTyped, Zenon
  <2>2. \E r, steps : Admit(p, r, steps) /\ RequestFits(r, steps)
    BY <1>1, Arrives, Zenon DEF AdmitOne, AdmitPlain, OneRequest
  <2> QED
    BY <2>1, <2>2, AdmitFits, Zenon
<1>2. ASSUME NEW p \in Requests, Statement(p)
      PROVE  AccountsTypeOK' /\ RequestsFit'
  BY <1>2, StatementTyped, StatementFits, Zenon
<1>3. ASSUME NEW p \in Requests, Fault(p)
      PROVE  AccountsTypeOK' /\ RequestsFit'
  BY <1>3, FaultTyped, Zenon
<1>4. CASE UNCHANGED vars
  <2>1. /\ row' = row /\ rate' = rate /\ removed' = removed /\ aaa' = aaa /\ req' = req /\ todo' = todo
        /\ begun' = begun /\ disturbed' = disturbed /\ clean' = clean
    BY <1>4 DEF vars
  <2> QED
    BY <2>1, Zenon DEF AccountsTypeOK, RequestsFit
<1> QED
  BY <1>1, <1>2, <1>3, <1>4, Zenon DEF Next

-----------------------------------------------------------------------------
(* Packages.                                                               *)

AssignsBy(r, steps) ==
  \/ r.kind = "bulkAssign" /\ steps = << <<"updateRows">> >>
  \/ /\ r.kind = "create" /\ Unwriting(steps) /\ Head(steps)[1] # "assertPackage"
  \/ /\ r.kind = "update" /\ steps = << <<"updateRow">>, <<"readPackage">> >>
     /\ "package" \in DOMAIN r.patch

LEMMA AssignsNow ==
  ASSUME NEW p
  PROVE  /\ Assigns(p) <=> AssignsBy(req[p], todo[p])
         /\ Assigns(p)' <=> AssignsBy(req'[p], todo'[p])
BY Zenon DEF Assigns, AssignsBy, Unwritten, Unwriting

LEMMA IdleAssigns == ~ AssignsBy(Idle, <<>>) /\ <<>> # << <<"deletePackage">> >> /\ Idle.kind = "idle"
BY DEF AssignsBy, Idle

LEMMA OneAssigns ==
  ASSUME NEW r, NEW steps, OneFits(r, steps)
  PROVE  /\ steps # << <<"deletePackage">> >>
         /\ Head(steps)[1] \notin {"findExisting", "insertRow", "updateRow"} => ~AssignsBy(r, steps)
         /\ r.kind \in {"setPassword", "revokePassword", "remove"} => ~AssignsBy(r, steps)
         /\ r.kind = "update" /\ "package" \notin DOMAIN r.patch => ~AssignsBy(r, steps)
         /\ r.kind \in {"create", "update", "setPassword", "revokePassword", "remove"}
<1>1. r.kind \in {"create", "update", "setPassword", "revokePassword", "remove"}
  BY OneSteps DEF PatchFits
<1>2. steps # << <<"deletePackage">> >>
  <2>1. Head(steps)[1] # "deletePackage"
    <3>1. Head(steps)[1] \in {"assertPackage", "findExisting", "insertRow", "findOwned", "updateRow",
                              "readPackage", "deleteAttr", "insertAttr", "deleteUser"}
      BY OneSteps, Zenon
    <3> QED
      BY <3>1
  <2> QED
    BY <2>1
<1>3. r.kind = "create" /\ Unwriting(steps) /\ Head(steps)[1] # "assertPackage"
        => Head(steps)[1] \in {"findExisting", "insertRow"}
  <2>1. Unwriting(steps) => WriteAhead(r, steps)
    BY OneSteps, Zenon
  <2>2. WriteAhead(r, steps) /\ r.kind = "create"
          => Head(steps)[1] \in {"assertPackage", "findExisting", "insertRow"}
    BY WriteSteps
  <2> QED
    BY <2>1, <2>2
<1>4. steps = << <<"updateRow">>, <<"readPackage">> >> => Head(steps)[1] = "updateRow"
  OBVIOUS
<1>5. Head(steps)[1] \notin {"findExisting", "insertRow", "updateRow"} => ~AssignsBy(r, steps)
  BY <1>1, <1>3, <1>4 DEF AssignsBy
<1>6. r.kind \in {"setPassword", "revokePassword", "remove"} => ~AssignsBy(r, steps)
  BY DEF AssignsBy
<1>7. r.kind = "update" /\ "package" \notin DOMAIN r.patch => ~AssignsBy(r, steps)
  BY DEF AssignsBy
<1> QED
  BY <1>1, <1>2, <1>5, <1>6, <1>7, Zenon

LEMMA DeletesPackage ==
  ASSUME RequestsFit, NEW p \in Requests, todo[p] = << <<"deletePackage">> >>
  PROVE  req[p].kind = "removePackage" /\ req[p].package \in Packages
<1>1. todo[p] # <<>> /\ Head(todo[p])[1] = "deletePackage"
  OBVIOUS
<1>2. Head(todo[p])[1] \in {"updateRows", "updatePackage", "findInUse", "deletePackage"}
  BY <1>1
<1>3. PlainFits(req[p], todo[p])
  BY <1>1, <1>2, WhoAwaits, Zenon
<1>4. Head(todo[p])[1] \notin {"assertPackage", "updateRows", "updatePackage", "findInUse"}
  BY <1>1
<1> QED
  BY <1>3, <1>4, PlainSteps, Zenon

\* A statement keeps the packages right that assigns, beside what rows had,
\* only what its request had found.
LEMMA PackageStep ==
  ASSUME AccountsOK, AccountsTypeOK, RequestsFit, PackageInv, NEW p \in Requests,
         removed' = removed, raced' = raced,
         \A q \in Requests \ {p} : req'[q] = req[q] /\ todo'[q] = todo[q],
         \/ req'[p] = Idle
         \/ req'[p].kind = req[p].kind /\ req'[p].package = req[p].package,
         AssignsBy(req'[p], todo'[p]) =>
           /\ req'[p].package = req[p].package
           /\ AssignsBy(req[p], todo[p]) \/ req[p].package \notin removed,
         todo'[p] = << <<"deletePackage">> >> =>
           row' = row /\ ~InUse(req[p].package) /\ req'[p].package = req[p].package,
         \A s \in Subscribers : row'[s].state = "live" =>
           \/ row[s].state = "live" /\ row'[s].package = row[s].package
           \/ AssignsBy(req[p], todo[p]) /\ row'[s].package = req[p].package
  PROVE  PackageInv'
<1>1. /\ \A x, y \in Requests :
           x # y /\ req[x].package = req[y].package /\ req[x].package \in Packages
             /\ req[x].kind = "removePackage" => req[x].package \in raced
      /\ \A x \in Requests : req[x].package \notin raced =>
           /\ AssignsBy(req[x], todo[x]) => req[x].package \notin removed
           /\ todo[x] = << <<"deletePackage">> >> => ~InUse(req[x].package)
      /\ \A s \in Subscribers : row[s].state = "live" => row[s].package \notin removed \ raced
  BY AssignsNow, Zenon DEF PackageInv, RacesNoted, PackagesFit, PackageOutlivesSubscribers
<1>2. RacesNoted'
  <2> SUFFICES ASSUME NEW x \in Requests, NEW y \in Requests, x # y,
                      req'[x].package = req'[y].package, req'[x].package \in Packages,
                      req'[x].kind = "removePackage"
               PROVE  req'[x].package \in raced'
    BY Zenon DEF RacesNoted
  <2>1. CASE req'[p] = Idle
    <3>1. x # p
      BY <2>1, IdleAssigns
    <3>2. y # p
      BY <2>1 DEF Idle, AccountsOK
    <3> QED
      BY <1>1, <3>1, <3>2, Zenon
  <2>2. CASE req'[p].kind = req[p].kind /\ req'[p].package = req[p].package
    <3>1. /\ req'[x].kind = req[x].kind /\ req'[x].package = req[x].package
          /\ req'[y].package = req[y].package
      BY <2>2, Zenon
    <3>2. /\ req[x].package = req[y].package /\ req[x].package \in Packages
          /\ req[x].kind = "removePackage"
      BY <3>1
    <3>3. req[x].package \in raced
      BY <1>1, <3>2, Zenon
    <3> QED
      BY <3>1, <3>3
  <2> QED
    BY <2>1, <2>2, Zenon
<1>3. PackageOutlivesSubscribers'
  <2> SUFFICES ASSUME NEW s \in Subscribers, row'[s].state = "live"
               PROVE  row'[s].package \notin removed \ raced
    BY Zenon DEF PackageOutlivesSubscribers
  <2>1. CASE row[s].state = "live" /\ row'[s].package = row[s].package
    BY <1>1, <2>1, Zenon
  <2>2. CASE AssignsBy(req[p], todo[p]) /\ row'[s].package = req[p].package
    BY <1>1, <2>2
  <2> QED
    BY <2>1, <2>2, Zenon
<1>4. PackagesFit'
  <2> SUFFICES ASSUME NEW x \in Requests, req'[x].package \notin raced
               PROVE  /\ Assigns(x)' => req'[x].package \notin removed'
                      /\ todo'[x] = << <<"deletePackage">> >> => ~InUse(req[x].package)'
    BY Zenon DEF PackagesFit
  <2>1. CASE x = p
    <3>1. Assigns(x)' => req'[x].package \notin removed'
      BY <1>1, <2>1, AssignsNow, Zenon
    <3>2. todo'[x] = << <<"deletePackage">> >> => ~InUse(req[x].package)'
      BY <2>1, Zenon DEF InUse
    <3> QED
      BY <3>1, <3>2, Zenon
  <2>2. CASE x # p
    <3>1. req'[x] = req[x] /\ todo'[x] = todo[x]
      BY <2>2, Zenon
    <3>2. Assigns(x)' => req'[x].package \notin removed'
      BY <1>1, <3>1, AssignsNow, Zenon
    <3>3. ASSUME todo'[x] = << <<"deletePackage">> >>, NEW s \in Subscribers,
                 row'[s].state = "live", row'[s].package = req'[x].package
          PROVE  FALSE
      <4>1. ~InUse(req[x].package) /\ req[x].package \notin raced
        BY <1>1, <3>1, <3>3, Zenon
      <4>2. CASE row[s].state = "live" /\ row'[s].package = row[s].package
        BY <3>1, <3>3, <4>1, <4>2, Zenon DEF InUse
      <4>3. CASE row'[s].package = req[p].package
        <5>1. req[x].kind = "removePackage" /\ req[x].package \in Packages
          BY <3>1, <3>3, DeletesPackage, Zenon
        <5> QED
          BY <1>1, <2>2, <3>1, <3>3, <4>1, <4>3, <5>1, Zenon
      <4> QED
        BY <3>3, <4>2, <4>3, Zenon
    <3>4. todo'[x] = << <<"deletePackage">> >> => ~InUse(req[x].package)'
      BY <3>3, Zenon DEF InUse
    <3> QED
      BY <3>2, <3>4, Zenon
  <2> QED
    BY <2>1, <2>2, Zenon
<1> QED
  BY <1>2, <1>3, <1>4, Zenon DEF PackageInv

LEMMA PackageArrival ==
  ASSUME AccountsTypeOK, RequestsFit, PackageInv, NEW p \in Requests, NEW r, NEW steps,
         Admit(p, r, steps), ~AssignsBy(r, steps), steps # << <<"deletePackage">> >>
  PROVE  PackageInv'
<1>1. /\ \A x, y \in Requests :
           x # y /\ req[x].package = req[y].package /\ req[x].package \in Packages
             /\ req[x].kind = "removePackage" => req[x].package \in raced
      /\ \A x \in Requests : req[x].package \notin raced =>
           /\ AssignsBy(req[x], todo[x]) => req[x].package \notin removed
           /\ todo[x] = << <<"deletePackage">> >> => ~InUse(req[x].package)
      /\ \A s \in Subscribers : row[s].state = "live" => row[s].package \notin removed \ raced
  BY AssignsNow, Zenon DEF PackageInv, RacesNoted, PackagesFit, PackageOutlivesSubscribers
<1>2. /\ row' = row /\ removed' = removed /\ raced' = raced \union Races(r)
      /\ req' = [req EXCEPT ![p] = r] /\ todo' = [todo EXCEPT ![p] = steps]
  BY DEF Admit
<1>3. /\ req'[p] = r /\ todo'[p] = steps
      /\ \A q \in Requests \ {p} : req'[q] = req[q] /\ todo'[q] = todo[q]
  BY <1>2, Replaced, Zenon
<1>4. \A k : k \in raced => k \in raced'
  BY <1>2
<1>5. RacesNoted'
  <2> SUFFICES ASSUME NEW x \in Requests, NEW y \in Requests, x # y,
                      req'[x].package = req'[y].package, req'[x].package \in Packages,
                      req'[x].kind = "removePackage"
               PROVE  req'[x].package \in raced'
    BY Zenon DEF RacesNoted
  <2>1. CASE x = p
    <3>1. req'[y] = req[y]
      BY <1>3, <2>1, Zenon
    <3>2. r.package \in Races(r)
      BY <1>3, <2>1, <3>1 DEF Races
    <3> QED
      BY <1>2, <1>3, <2>1, <3>2
  <2>2. CASE y = p
    <3>1. req'[x] = req[x]
      BY <1>3, <2>2, Zenon
    <3>2. r.package \in Races(r)
      BY <1>3, <2>2, <3>1 DEF Races
    <3> QED
      BY <1>2, <1>3, <2>2, <3>2
  <2>3. CASE x # p /\ y # p
    <3>1. req'[x] = req[x] /\ req'[y] = req[y]
      BY <1>3, <2>3, Zenon
    <3>2. req[x].package \in raced
      <4>1. req[x].package = req[y].package /\ req[x].package \in Packages /\ req[x].kind = "removePackage"
        BY <3>1
      <4> QED
        BY <1>1, <4>1, Zenon
    <3> QED
      BY <1>4, <3>1, <3>2
  <2> QED
    BY <2>1, <2>2, <2>3, Zenon
<1>6. PackagesFit'
  <2> SUFFICES ASSUME NEW x \in Requests, req'[x].package \notin raced'
               PROVE  /\ Assigns(x)' => req'[x].package \notin removed'
                      /\ todo'[x] = << <<"deletePackage">> >> => ~InUse(req[x].package)'
    BY Zenon DEF PackagesFit
  <2>1. CASE x = p
    BY <1>3, <2>1, AssignsNow, Zenon
  <2>2. CASE x # p
    <3>1. req'[x] = req[x] /\ todo'[x] = todo[x] /\ req[x].package \notin raced
      BY <1>3, <1>4, <2>2, Zenon
    <3>2. Assigns(x)' => req'[x].package \notin removed'
      <4>1. AssignsBy(req[x], todo[x]) => req[x].package \notin removed
        BY <1>1, <3>1, Zenon
      <4>2. Assigns(x)' => AssignsBy(req[x], todo[x])
        BY <3>1, AssignsNow, Zenon
      <4> QED
        BY <1>2, <3>1, <4>1, <4>2
    <3>3. todo'[x] = << <<"deletePackage">> >> => ~InUse(req[x].package)'
      BY <1>1, <1>2, <3>1, Zenon DEF InUse
    <3> QED
      BY <3>2, <3>3, Zenon
  <2> QED
    BY <2>1, <2>2, Zenon
<1>7. PackageOutlivesSubscribers'
  BY <1>1, <1>2, <1>4 DEF PackageOutlivesSubscribers
<1> QED
  BY <1>5, <1>6, <1>7, Zenon DEF PackageInv

LEMMA PackageDeleted ==
  ASSUME AccountsTypeOK, RequestsFit, PackageInv, AccountsOK, NEW p \in Requests, DeletePackage(p)
  PROVE  PackageInv'
<1>1. /\ \A x, y \in Requests :
           x # y /\ req[x].package = req[y].package /\ req[x].package \in Packages
             /\ req[x].kind = "removePackage" => req[x].package \in raced
      /\ \A x \in Requests : req[x].package \notin raced =>
           /\ AssignsBy(req[x], todo[x]) => req[x].package \notin removed
           /\ todo[x] = << <<"deletePackage">> >> => ~InUse(req[x].package)
      /\ \A s \in Subscribers : row[s].state = "live" => row[s].package \notin removed \ raced
  BY AssignsNow, Zenon DEF PackageInv, RacesNoted, PackagesFit, PackageOutlivesSubscribers
<1>2. /\ todo[p] # <<>> /\ Head(todo[p])[1] = "deletePackage"
      /\ removed' = removed \union {req[p].package} /\ Next1(p)
      /\ row' = row /\ raced' = raced
  BY DEF DeletePackage, Awaits
<1>3. /\ req[p].kind = "removePackage" /\ req[p].package \in Packages
      /\ todo[p] = << <<"deletePackage">> >> /\ Tail(todo[p]) = <<>>
  <2>1. Head(todo[p])[1] \in {"updateRows", "updatePackage", "findInUse", "deletePackage"}
    BY <1>2
  <2>2. PlainFits(req[p], todo[p])
    BY <1>2, <2>1, WhoAwaits, Zenon
  <2>3. Head(todo[p])[1] \notin {"assertPackage", "updateRows", "updatePackage", "findInUse"}
    BY <1>2
  <2> QED
    BY <2>2, <2>3, PlainSteps, Zenon
<1>4. /\ req'[p] = Idle /\ todo'[p] = <<>>
      /\ \A q \in Requests \ {p} : req'[q] = req[q] /\ todo'[q] = todo[q]
  BY <1>2, <1>3, DoneStep, Zenon
<1>5. RacesNoted'
  <2> SUFFICES ASSUME NEW x \in Requests, NEW y \in Requests, x # y,
                      req'[x].package = req'[y].package, req'[x].package \in Packages,
                      req'[x].kind = "removePackage"
               PROVE  req'[x].package \in raced'
    BY Zenon DEF RacesNoted
  <2>1. x # p /\ y # p
    BY <1>4, IdleAssigns DEF Idle, AccountsOK
  <2>2. req'[x] = req[x] /\ req'[y] = req[y]
    BY <1>4, <2>1, Zenon
  <2>3. req[x].package = req[y].package /\ req[x].package \in Packages /\ req[x].kind = "removePackage"
    BY <2>2
  <2>4. req[x].package \in raced
    BY <1>1, <2>3, Zenon
  <2> QED
    BY <1>2, <2>2, <2>4
<1>6. PackagesFit'
  <2> SUFFICES ASSUME NEW x \in Requests, req'[x].package \notin raced'
               PROVE  /\ Assigns(x)' => req'[x].package \notin removed'
                      /\ todo'[x] = << <<"deletePackage">> >> => ~InUse(req[x].package)'
    BY Zenon DEF PackagesFit
  <2>1. CASE x = p
    BY <1>4, <2>1, AssignsNow, IdleAssigns, Zenon
  <2>2. CASE x # p
    <3>1. req'[x] = req[x] /\ todo'[x] = todo[x] /\ req[x].package \notin raced
      BY <1>2, <1>4, <2>2, Zenon
    <3>2. req[x].package # req[p].package
      BY <1>1, <1>3, <2>2, <3>1, Zenon
    <3>3. Assigns(x)' => req'[x].package \notin removed'
      <4>1. AssignsBy(req[x], todo[x]) => req[x].package \notin removed
        BY <1>1, <3>1, Zenon
      <4>2. Assigns(x)' => AssignsBy(req[x], todo[x])
        BY <3>1, AssignsNow, Zenon
      <4> QED
        BY <1>2, <3>1, <3>2, <4>1, <4>2
    <3>4. todo'[x] = << <<"deletePackage">> >> => ~InUse(req[x].package)'
      BY <1>1, <1>2, <3>1, Zenon DEF InUse
    <3> QED
      BY <3>3, <3>4, Zenon
  <2> QED
    BY <2>1, <2>2, Zenon
<1>7. PackageOutlivesSubscribers'
  <2> SUFFICES ASSUME NEW s \in Subscribers, row[s].state = "live",
                      row[s].package \in removed', row[s].package \notin raced
               PROVE  FALSE
    BY <1>2, Zenon DEF PackageOutlivesSubscribers
  <2>1. row[s].package \in removed \/ row[s].package = req[p].package
    BY <1>2
  <2>2. row[s].package \notin removed
    BY <1>1
  <2>3. req[p].package \notin raced => ~InUse(req[p].package)
    BY <1>1, <1>3, Zenon
  <2> QED
    BY <2>1, <2>2, <2>3, Zenon DEF InUse
<1> QED
  BY <1>5, <1>6, <1>7, Zenon DEF PackageInv

LEMMA EndStep ==
  ASSUME AccountsTypeOK, NEW p \in Requests, Refuse(p) \/ Fault(p)
  PROVE  /\ req'[p] = Idle /\ todo'[p] = <<>>
         /\ \A q \in Requests \ {p} : req'[q] = req[q] /\ todo'[q] = todo[q]
<1>1. req' = [req EXCEPT ![p] = Idle] /\ todo' = [todo EXCEPT ![p] = <<>>]
  BY Zenon DEF Refuse, Fault
<1> QED
  BY <1>1, Replaced, Zenon

LEMMA PackageEnd ==
  ASSUME AccountsOK, AccountsTypeOK, RequestsFit, PackageInv, NEW p \in Requests,
         removed' = removed, raced' = raced,
         req'[p] = Idle /\ todo'[p] = <<>>,
         \A q \in Requests \ {p} : req'[q] = req[q] /\ todo'[q] = todo[q],
         \A s \in Subscribers : row'[s].state = "live" =>
           \/ row[s].state = "live" /\ row'[s].package = row[s].package
           \/ AssignsBy(req[p], todo[p]) /\ row'[s].package = req[p].package
  PROVE  PackageInv'
BY PackageStep, IdleAssigns, Zenon

\* The same for a request about one subscriber, whatever copy it goes on with.
LEMMA PackageOne ==
  ASSUME AccountsOK, AccountsTypeOK, RequestsFit, PackageInv, NEW p \in Requests, NEW s \in Subscribers,
         req[p].subs = {s}, NEW c, NEW rest, OneFits(req[p], todo[p]), RequestsFit',
         removed' = removed, raced' = raced,
         Proceed(p, [req[p] EXCEPT !.copy = c], rest) \/ Proceed(p, req[p], rest),
         \/ rest = <<>>
         \/ Head(rest)[1] \notin {"findExisting", "insertRow", "updateRow"}
         \/ req[p].kind \in {"setPassword", "revokePassword", "remove"}
         \/ req[p].kind = "update" /\ "package" \notin DOMAIN req[p].patch
         \/ AssignsBy(req[p], todo[p])
         \/ req[p].package \notin removed,
         \A t \in Subscribers : row'[t].state = "live" =>
           \/ row[t].state = "live" /\ row'[t].package = row[t].package
           \/ AssignsBy(req[p], todo[p]) /\ row'[t].package = req[p].package
  PROVE  PackageInv'
<1> DEFINE n == [req[p] EXCEPT !.copy = c]
<1>1. /\ n.kind = req[p].kind /\ n.subs = req[p].subs /\ n.package = req[p].package
      /\ n.patch = req[p].patch
  <2>1. DOMAIN req[p] = {"kind", "subs", "package", "patch", "copy"}
    BY OneSteps, Zenon
  <2> QED
    BY <2>1, CopyOnly, Zenon
<1>5. Proceed(p, n, rest) \/ Proceed(p, req[p], rest)
  OBVIOUS
<1> HIDE DEF n
<1>2. /\ todo'[p] = rest
      /\ rest = <<>> => req'[p] = Idle
      /\ rest # <<>> => req'[p] = n \/ req'[p] = req[p]
      /\ \A q \in Requests \ {p} : req'[q] = req[q] /\ todo'[q] = todo[q]
  BY <1>5, EitherStep
<1>3. CASE rest = <<>>
  <2>1. req'[p] = Idle /\ todo'[p] = <<>>
    BY <1>2, <1>3
  <2> QED
    BY <1>2, <2>1, PackageEnd, Zenon
<1>4. CASE rest # <<>>
  <2>1. req'[p] = n \/ req'[p] = req[p]
    BY <1>2, <1>4
  <2>2. /\ req'[p].kind = req[p].kind /\ req'[p].subs = req[p].subs /\ req'[p].package = req[p].package
        /\ req'[p].patch = req[p].patch
    BY <1>1, <2>1, Zenon
  <2>3. OneFits(req'[p], todo'[p])
    <3>1. RequestFits(req'[p], todo'[p])
      BY Zenon DEF RequestsFit
    <3>2. ~PlainFits(req'[p], todo'[p])
      <4>1. req[p].kind \in {"create", "update", "setPassword", "revokePassword", "remove"}
        BY OneAssigns, Zenon
      <4>2. PlainFits(req'[p], todo'[p]) => req'[p].kind \in {"bulkAssign", "updatePackage", "removePackage"}
        BY PlainSteps, Zenon
      <4> QED
        BY <2>2, <4>1, <4>2
    <3> QED
      BY <1>2, <1>4, <3>1, <3>2, Zenon DEF RequestFits
  <2>4. todo'[p] # << <<"deletePackage">> >>
    BY <2>3, OneAssigns, Zenon
  <2>5. AssignsBy(req'[p], todo'[p]) => AssignsBy(req[p], todo[p]) \/ req[p].package \notin removed
    <3>1. Head(rest)[1] \notin {"findExisting", "insertRow", "updateRow"} => ~AssignsBy(req'[p], todo'[p])
      BY <1>2, <2>3, OneAssigns, Zenon
    <3>2. req[p].kind \in {"setPassword", "revokePassword", "remove"} => ~AssignsBy(req'[p], todo'[p])
      BY <2>2, <2>3, OneAssigns, Zenon
    <3>3. req[p].kind = "update" /\ "package" \notin DOMAIN req[p].patch => ~AssignsBy(req'[p], todo'[p])
      BY <2>2, <2>3, OneAssigns, Zenon
    <3> QED
      BY <1>4, <3>1, <3>2, <3>3, Zenon
  <2> QED
    BY <1>2, <2>2, <2>4, <2>5, PackageStep, Zenon
<1> QED
  BY <1>3, <1>4, Zenon

LEMMA HeadNamed ==
  /\ Head(<< <<"readPackage">> >>)[1] = "readPackage"
  /\ Head(<< <<"deleteUser", "radreply">> >>)[1] = "deleteUser"
  /\ Head(<< <<"assertPackage">>, <<"updateRow">>, <<"readPackage">> >>)[1] = "assertPackage"
OBVIOUS

LEMMA PackageStatement ==
  ASSUME AccountsOK, AccountsTypeOK, RequestsFit, PackageInv, NEW p \in Requests, Statement(p)
  PROVE  PackageInv'
<1>0. RequestsFit'
  BY StatementFits, Zenon
<1>1. ASSUME row' = row, removed' = removed, raced' = raced, Refuse(p)
      PROVE  PackageInv'
  BY <1>1, EndStep, PackageEnd, Zenon
<1>2. ASSUME row' = row, removed' = removed, raced' = raced, Next1(p), Tail(todo[p]) = <<>>
      PROVE  PackageInv'
  BY <1>2, DoneStep, PackageEnd, Zenon
<1>3. ASSUME row' = row, removed' = removed, raced' = raced,
             NEW s \in Subscribers, req[p].subs = {s}, OneFits(req[p], todo[p]), NEW c, NEW rest,
             Proceed(p, [req[p] EXCEPT !.copy = c], rest) \/ Proceed(p, req[p], rest),
             \/ rest = <<>>
             \/ Head(rest)[1] \notin {"findExisting", "insertRow", "updateRow"}
             \/ req[p].kind \in {"setPassword", "revokePassword", "remove"}
             \/ req[p].kind = "update" /\ "package" \notin DOMAIN req[p].patch
             \/ AssignsBy(req[p], todo[p])
             \/ req[p].package \notin removed
      PROVE  PackageInv'
  BY <1>0, <1>3, PackageOne, Zenon
<1>4. ASSUME AssertPackage(p)
      PROVE  PackageInv'
  <2>1. /\ todo[p] # <<>> /\ Head(todo[p])[1] = "assertPackage"
        /\ row' = row /\ removed' = removed /\ raced' = raced
        /\ IF req[p].package \notin removed THEN Next1(p) ELSE Refuse(p)
    BY <1>4 DEF AssertPackage, Awaits, Guarded, PackageFound
  <2>2. CASE Refuse(p)
    BY <1>1, <2>1, <2>2, Zenon
  <2>3. ASSUME Next1(p), req[p].package \notin removed, NEW s \in Subscribers, req[p].subs = {s},
               OneFits(req[p], todo[p])
        PROVE  PackageInv'
    BY <1>3, <2>1, <2>3, Zenon DEF Next1
  <2>4. ASSUME Next1(p), req[p].package \notin removed, req[p].subs = {}, PlainFits(req[p], todo[p])
        PROVE  PackageInv'
    <3>1. \/ Tail(todo[p]) = << <<"updateRows">> >>
          \/ Tail(todo[p]) = << <<"updatePackage">> >>
          \/ Tail(todo[p]) = << <<"findInUse">>, <<"deletePackage">> >>
      <4>1. Head(todo[p])[1] \notin {"updateRows", "updatePackage", "findInUse", "deletePackage"}
        BY <2>1
      <4> QED
        BY <2>4, <4>1, PlainSteps, Zenon
    <3>2. Tail(todo[p]) # << <<"deletePackage">> >>
      BY <3>1
    <3>3. /\ todo'[p] = Tail(todo[p]) /\ req'[p] = (IF Tail(todo[p]) = <<>> THEN Idle ELSE req[p])
          /\ \A q \in Requests \ {p} : req'[q] = req[q] /\ todo'[q] = todo[q]
      BY <2>4, RequestStep, Zenon DEF Next1
    <3>4. Tail(todo[p]) # <<>>
      BY <3>1
    <3>5. req'[p] = req[p]
      BY <3>3, <3>4
    <3>6. todo'[p] # << <<"deletePackage">> >> /\ req'[p].kind = req[p].kind /\ req'[p].package = req[p].package
      BY <3>2, <3>3, <3>5, Zenon
    <3>7. \A s \in Subscribers : row'[s].state = "live" => row[s].state = "live" /\ row'[s].package = row[s].package
      BY <2>1, Zenon
    <3> QED
      BY <2>1, <2>4, <3>3, <3>6, <3>7, PackageStep, Zenon
  <2> QED
    BY <2>1, <2>2, <2>3, <2>4, WhoAwaits, Zenon
<1>5. ASSUME NEW x \in {"findExisting", "findOwned", "readPackage", "deleteAttr", "insertAttr", "deleteUser"},
             Awaits(p, x)
      PROVE  /\ \E s \in Subscribers : req[p].subs = {s}
             /\ OneFits(req[p], todo[p]) /\ todo[p] # <<>> /\ Head(todo[p])[1] = x
  <2>1. /\ todo[p] # <<>> /\ Head(todo[p])[1] = x
        /\ x \notin {"assertPackage", "updateRows", "updatePackage", "findInUse", "deletePackage"}
    BY <1>5 DEF Awaits
  <2> QED
    BY <2>1, WhoAwaits, Zenon
<1>6. ASSUME FindExisting(p)
      PROVE  PackageInv'
  <2>1. Awaits(p, "findExisting") /\ row' = row /\ removed' = removed /\ raced' = raced
        /\ (Next1(p) \/ Refuse(p))
    BY <1>6 DEF FindExisting, Guarded
  <2>2. PICK s \in Subscribers : req[p].subs = {s} /\ OneFits(req[p], todo[p]) /\ todo[p] # <<>>
                                 /\ Head(todo[p])[1] = "findExisting"
    BY <1>5, <2>1, Zenon
  <2>3. AssignsBy(req[p], todo[p])
    <3>1. Head(todo[p])[1] \notin {"assertPackage", "insertRow", "findOwned", "updateRow", "readPackage",
                                   "deleteAttr", "insertAttr", "deleteUser"}
      BY <2>2
    <3>2. WriteAhead(req[p], todo[p]) /\ Unwriting(todo[p])
      BY <2>2, <3>1, OneSteps, Zenon
    <3>3. req[p].kind = "create"
      BY <3>1, <3>2, WriteSteps, Zenon
    <3> QED
      BY <3>1, <3>2, <3>3 DEF AssignsBy
  <2> QED
    BY <1>1, <1>3, <2>1, <2>2, <2>3, Zenon DEF Next1
<1>7. ASSUME FindOwned(p)
      PROVE  PackageInv'
  <2>1. /\ Awaits(p, "findOwned") /\ row' = row /\ removed' = removed /\ raced' = raced
        /\ Refuse(p) \/ \E c : Proceed(p, [req[p] EXCEPT !.copy = c], Tail(todo[p]))
    BY <1>7, Zenon DEF FindOwned
  <2>2. PICK s \in Subscribers : req[p].subs = {s} /\ OneFits(req[p], todo[p]) /\ todo[p] # <<>>
                                 /\ Head(todo[p])[1] = "findOwned"
    BY <1>5, <2>1, Zenon
  <2>3. \/ Head(Tail(todo[p]))[1] = "assertPackage"
        \/ req[p].kind \in {"setPassword", "revokePassword", "remove"}
        \/ req[p].kind = "update" /\ "package" \notin DOMAIN req[p].patch
    <3>1. Head(todo[p])[1] \notin {"assertPackage", "findExisting", "insertRow", "updateRow", "readPackage",
                                   "deleteAttr", "insertAttr", "deleteUser"}
      BY <2>2
    <3>2. WriteAhead(req[p], todo[p])
      BY <2>2, <3>1, OneSteps, Zenon
    <3>3. \/ Tail(todo[p]) = << <<"assertPackage">>, <<"updateRow">>, <<"readPackage">> >>
          \/ req[p].kind \in {"update", "setPassword"} /\ "package" \notin DOMAIN req[p].patch
          \/ req[p].kind \in {"revokePassword", "remove"}
      BY <3>1, <3>2, WriteSteps, Zenon
    <3>4. Tail(todo[p]) = << <<"assertPackage">>, <<"updateRow">>, <<"readPackage">> >> =>
            Head(Tail(todo[p]))[1] = "assertPackage"
      BY HeadNamed, Zenon
    <3> QED
      BY <3>3, <3>4
  <2>4. \/ Head(Tail(todo[p]))[1] \notin {"findExisting", "insertRow", "updateRow"}
        \/ req[p].kind \in {"setPassword", "revokePassword", "remove"}
        \/ req[p].kind = "update" /\ "package" \notin DOMAIN req[p].patch
    BY <2>3
  <2> QED
    BY <1>1, <1>3, <2>1, <2>2, <2>4, Zenon
<1>8. ASSUME ReadPackage(p)
      PROVE  PackageInv'
  <2>1. Awaits(p, "readPackage") /\ row' = row /\ removed' = removed /\ raced' = raced
    BY <1>8, Zenon DEF ReadPackage
  <2>2. PICK s \in Subscribers : req[p].subs = {s} /\ OneFits(req[p], todo[p])
    BY <1>5, <2>1, Zenon
  <2>3. \E c, rest : Proceed(p, [req[p] EXCEPT !.copy = c], rest)
                     /\ Head(rest)[1] \in {"deleteAttr", "insertAttr"}
    BY <1>8, ReadFits, PushSteps, Zenon
  <2>4. \A x : x \in {"deleteAttr", "insertAttr"} => x \notin {"findExisting", "insertRow", "updateRow"}
    OBVIOUS
  <2> QED
    BY <1>3, <2>1, <2>2, <2>3, <2>4, Zenon
<1>9. ASSUME DeleteAttr(p) \/ InsertAttr(p) \/ DeleteUser(p)
      PROVE  PackageInv'
  <2>1. /\ row' = row /\ removed' = removed /\ raced' = raced /\ (Next1(p) \/ Refuse(p))
        /\ Awaits(p, "deleteAttr") \/ Awaits(p, "insertAttr") \/ Awaits(p, "deleteUser")
    BY <1>9 DEF DeleteAttr, InsertAttr, DeleteUser
  <2>2. PICK s \in Subscribers : req[p].subs = {s} /\ OneFits(req[p], todo[p]) /\ todo[p] # <<>>
                                 /\ Head(todo[p])[1] \in {"deleteAttr", "insertAttr", "deleteUser"}
    BY <1>5, <2>1, Zenon
  <2>3. Tail(todo[p]) = <<>> \/ Head(Tail(todo[p]))[1] \notin {"findExisting", "insertRow", "updateRow"}
    <3>1. Head(todo[p])[1] \notin {"assertPackage", "findExisting", "findOwned", "insertRow", "updateRow",
                                   "readPackage"}
      BY <2>2
    <3>2. \/ PushAhead(req[p], todo[p])
          \/ Tail(todo[p]) = << <<"deleteUser", "radreply">> >>
          \/ Tail(todo[p]) = <<>>
      BY <2>2, <3>1, OneSteps, Zenon
    <3>3. CASE PushAhead(req[p], todo[p])
      <4>1. Tail(todo[p]) = <<>> \/ Head(Tail(todo[p]))[1] \in {"deleteAttr", "insertAttr"}
        BY <3>3, PushSteps, Zenon
      <4> QED
        BY <4>1
    <3>4. CASE Tail(todo[p]) = << <<"deleteUser", "radreply">> >>
      <4>2. Head(Tail(todo[p]))[1] = "deleteUser"
        BY <3>4, HeadNamed, Zenon
      <4> QED
        BY <4>2
    <3> QED
      BY <3>2, <3>3, <3>4, Zenon
  <2> QED
    BY <1>1, <1>3, <2>1, <2>2, <2>3, Zenon DEF Next1
<1>10. ASSUME InsertRow(p)
       PROVE  PackageInv'
  <2>1. removed' = removed /\ raced' = raced
    BY <1>10, Zenon DEF InsertRow
  <2>2. PICK s \in Subscribers :
           /\ req[p].subs = {s} /\ OneFits(req[p], todo[p]) /\ Head(todo[p])[1] = "insertRow"
           /\ Unwriting(todo[p])
           /\ req[p].kind = "create" /\ Tail(todo[p]) = << <<"readPackage">> >>
           /\ req[p].patch.package = req[p].package
           /\ \/ /\ row'[s] = req[p].patch /\ \A t \in Subscribers \ {s} : row'[t] = row[t]
                 /\ Proceed(p, [req[p] EXCEPT !.copy = req[p].patch], Tail(todo[p]))
              \/ Refuse(p) /\ UNCHANGED row
    BY <1>10, InsertRowStep, Zenon
  <2>3. AssignsBy(req[p], todo[p])
    BY <2>2 DEF AssignsBy
  <2>4. CASE Refuse(p) /\ UNCHANGED row
    BY <1>1, <2>1, <2>4, Zenon
  <2>5. CASE /\ row'[s] = req[p].patch /\ \A t \in Subscribers \ {s} : row'[t] = row[t]
             /\ Proceed(p, [req[p] EXCEPT !.copy = req[p].patch], Tail(todo[p]))
    <3>1. \A t \in Subscribers : row'[t].state = "live" =>
             \/ row[t].state = "live" /\ row'[t].package = row[t].package
             \/ AssignsBy(req[p], todo[p]) /\ row'[t].package = req[p].package
      <4> SUFFICES ASSUME NEW t \in Subscribers, row'[t].state = "live"
                   PROVE  \/ row[t].state = "live" /\ row'[t].package = row[t].package
                          \/ row'[t].package = req[p].package
        BY <2>3, Zenon
      <4>1. t = s \/ t # s
        OBVIOUS
      <4> QED
        BY <2>2, <2>5, <4>1, Zenon
    <3> QED
      BY <1>0, <2>1, <2>2, <2>3, <2>5, <3>1, PackageOne, Zenon
  <2> QED
    BY <2>2, <2>4, <2>5, Zenon
<1>11. ASSUME UpdateRow(p)
       PROVE  PackageInv'
  <2>1. removed' = removed /\ raced' = raced
    BY <1>11, Zenon DEF UpdateRow
  <2>2. PICK s \in Subscribers, c \in Accounts :
           /\ req[p].subs = {s} /\ OneFits(req[p], todo[p]) /\ PatchFits(req[p])
           /\ \/ /\ req[p].kind \in {"update", "setPassword"}
                 /\ todo[p] = << <<"updateRow">>, <<"readPackage">> >>
                 /\ Tail(todo[p]) = << <<"readPackage">> >>
              \/ req[p].kind \in {"revokePassword", "remove"}
           /\ row'[s] = Patched(row[s], req[p].patch)
           /\ \A t \in Subscribers \ {s} : row'[t] = row[t]
           /\ Proceed(p, [req[p] EXCEPT !.copy = c], Tail(todo[p]))
    BY <1>11, UpdateRowStep, Zenon
  <2>3. \/ Head(Tail(todo[p]))[1] \notin {"findExisting", "insertRow", "updateRow"}
        \/ req[p].kind \in {"setPassword", "revokePassword", "remove"}
    <3>1. Tail(todo[p]) = << <<"readPackage">> >> => Head(Tail(todo[p]))[1] = "readPackage"
      BY HeadNamed, Zenon
    <3> QED
      BY <2>2, <3>1
  <2>4. row'[s].state = "live" =>
          \/ row[s].state = "live" /\ row'[s].package = row[s].package
          \/ AssignsBy(req[p], todo[p]) /\ row'[s].package = req[p].package
    <3>1. row[s] \in Accounts
      BY DEF AccountsTypeOK
    <3>2. req[p].kind # "create"
      BY <2>2
    <3>3. row'[s].state = "live" =>
            /\ row[s].state = "live"
            /\ \/ row'[s].package = row[s].package
               \/ /\ req[p].kind = "update" /\ "package" \in DOMAIN req[p].patch
                  /\ row'[s].package = req[p].package
      BY <2>2, <3>1, <3>2, PatchedPackage, Zenon
    <3>4. req[p].kind = "update" => todo[p] = << <<"updateRow">>, <<"readPackage">> >>
      BY <2>2
    <3> QED
      BY <3>3, <3>4, Zenon DEF AssignsBy
  <2>5. \A t \in Subscribers : row'[t].state = "live" =>
             \/ row[t].state = "live" /\ row'[t].package = row[t].package
             \/ AssignsBy(req[p], todo[p]) /\ row'[t].package = req[p].package
    <3> TAKE t \in Subscribers
    <3>1. CASE t = s
      BY <2>4, <3>1, Zenon
    <3>2. CASE t # s
      BY <2>2, <3>2, Zenon
    <3> QED
      BY <3>1, <3>2, Zenon
  <2> QED
    BY <1>0, <2>1, <2>2, <2>3, <2>5, PackageOne, Zenon
<1>12. ASSUME UpdateRows(p)
       PROVE  PackageInv'
  <2>1. removed' = removed /\ raced' = raced /\ Next1(p)
    BY <1>12, Zenon DEF UpdateRows
  <2>2. /\ req[p].kind = "bulkAssign" /\ todo[p] = << <<"updateRows">> >> /\ Tail(todo[p]) = <<>>
        /\ \A s \in Subscribers :
             /\ row'[s].state = row[s].state
             /\ row'[s].package = row[s].package \/ row'[s].package = req[p].package
    BY <1>12, UpdateRowsStep, Zenon
  <2>3. AssignsBy(req[p], todo[p])
    BY <2>2, Zenon DEF AssignsBy
  <2>4. \A t \in Subscribers : row'[t].state = "live" =>
             \/ row[t].state = "live" /\ row'[t].package = row[t].package
             \/ AssignsBy(req[p], todo[p]) /\ row'[t].package = req[p].package
    <3> TAKE t \in Subscribers
    <3> QED
      BY <2>2, <2>3
  <2> QED
    BY <2>1, <2>2, <2>4, DoneStep, PackageEnd, Zenon
<1>13. ASSUME WritePackage(p)
       PROVE  PackageInv'
  <2>1. /\ todo[p] # <<>> /\ Head(todo[p])[1] = "updatePackage"
        /\ row' = row /\ removed' = removed /\ raced' = raced /\ Next1(p)
    BY <1>13 DEF WritePackage, Awaits
  <2>2. Tail(todo[p]) = <<>>
    <3>1. Head(todo[p])[1] \in {"updateRows", "updatePackage", "findInUse", "deletePackage"}
      BY <2>1
    <3>2. Head(todo[p])[1] \notin {"assertPackage", "updateRows", "findInUse", "deletePackage"}
      BY <2>1
    <3> QED
      BY <2>1, <3>1, <3>2, WhoAwaits, PlainSteps, Zenon
  <2> QED
    BY <1>2, <2>1, <2>2, Zenon
<1>14. ASSUME FindInUse(p)
       PROVE  PackageInv'
  <2>1. /\ todo[p] # <<>> /\ Head(todo[p])[1] = "findInUse"
        /\ row' = row /\ removed' = removed /\ raced' = raced
        /\ IF ~InUse(req[p].package) THEN Next1(p) ELSE Refuse(p)
    BY <1>14 DEF FindInUse, Awaits, Guarded
  <2>2. req[p].kind = "removePackage" /\ Tail(todo[p]) = << <<"deletePackage">> >>
    <3>1. Head(todo[p])[1] \in {"updateRows", "updatePackage", "findInUse", "deletePackage"}
      BY <2>1
    <3>2. Head(todo[p])[1] \notin {"assertPackage", "updateRows", "updatePackage", "deletePackage"}
      BY <2>1
    <3> QED
      BY <2>1, <3>1, <3>2, WhoAwaits, PlainSteps, Zenon
  <2>3. CASE Refuse(p)
    BY <1>1, <2>1, <2>3, Zenon
  <2>4. CASE Next1(p) /\ ~InUse(req[p].package)
    <3>1. Tail(todo[p]) # <<>>
      BY <2>2
    <3>2. /\ todo'[p] = Tail(todo[p]) /\ req'[p] = (IF Tail(todo[p]) = <<>> THEN Idle ELSE req[p])
          /\ \A q \in Requests \ {p} : req'[q] = req[q] /\ todo'[q] = todo[q]
      BY <2>4, RequestStep, Zenon DEF Next1
    <3>3. req'[p] = req[p]
      BY <3>1, <3>2
    <3>4. req'[p].kind = req[p].kind /\ req'[p].package = req[p].package
      BY <3>3
    <3>5. ~AssignsBy(req'[p], todo'[p])
      BY <2>2, <3>4 DEF AssignsBy
    <3> QED
      BY <2>1, <2>4, <3>2, <3>4, <3>5, PackageStep, Zenon
  <2> QED
    BY <2>1, <2>3, <2>4, Zenon
<1>15. ASSUME DeletePackage(p)
       PROVE  PackageInv'
  BY <1>15, PackageDeleted, Zenon
<1> QED
  BY <1>4, <1>6, <1>7, <1>8, <1>9, <1>10, <1>11, <1>12, <1>13, <1>14, <1>15, Zenon DEF Statement

LEMMA PackageInit ==
  ASSUME AccountsOK, Init
  PROVE  PackageInv
<1>1. /\ removed = {} /\ raced = {}
      /\ \A p \in Requests : req[p] = Idle /\ todo[p] = <<>>
  BY DEF Init
<1>2. \A p \in Requests : ~Assigns(p) /\ todo[p] # << <<"deletePackage">> >> /\ req[p].kind # "removePackage"
  <2>1. Idle.kind # "removePackage"
    BY DEF Idle
  <2> QED
    BY <1>1, <2>1, IdleAssigns, AssignsNow, Zenon
<1>3. RacesNoted /\ PackagesFit
  BY <1>2, Zenon DEF RacesNoted, PackagesFit
<1>4. PackageOutlivesSubscribers
  BY <1>1 DEF PackageOutlivesSubscribers
<1> QED
  BY <1>3, <1>4 DEF PackageInv

LEMMA PackageNext ==
  ASSUME AccountsOK, AccountsTypeOK, RequestsFit, PackageInv, [Next]_vars
  PROVE  PackageInv'
<1>1. ASSUME NEW p \in Requests, Arrive(p)
      PROVE  PackageInv'
  <2>1. ASSUME NEW r, NEW steps, Admit(p, r, steps), PlainFits(r, steps), Head(steps)[1] = "assertPackage"
        PROVE  PackageInv'
    <3>1. /\ ~AssignsBy(r, steps)
          /\ steps # << <<"deletePackage">> >>
      <4>1. r.kind \in {"bulkAssign", "updatePackage", "removePackage"}
        BY <2>1, PlainSteps, Zenon
      <4>2. steps # << <<"updateRows">> >> /\ steps # << <<"deletePackage">> >>
        BY <2>1
      <4> QED
        BY <4>1, <4>2 DEF AssignsBy
    <3> QED
      BY <2>1, <3>1, PackageArrival, Zenon
  <2>2. ASSUME NEW r, NEW steps, Admit(p, r, steps), OneFits(r, steps),
               Head(steps)[1] \in {"assertPackage", "findOwned"}
        PROVE  PackageInv'
    <3>1. Head(steps)[1] \notin {"findExisting", "insertRow", "updateRow"}
      BY <2>2
    <3>2. ~AssignsBy(r, steps) /\ steps # << <<"deletePackage">> >>
      BY <2>2, <3>1, OneAssigns, Zenon
    <3> QED
      BY <2>2, <3>2, PackageArrival, Zenon
  <2>3. ASSUME NEW kind, NEW k, NEW patch, NEW steps, NEW s \in Subscribers,
               AdmitOne(p, kind, s, k, patch, steps), OneFits(OneRequest(kind, s, k, patch), steps),
               Head(steps)[1] \in {"assertPackage", "findOwned"}
        PROVE  PackageInv'
    <3>1. Admit(p, OneRequest(kind, s, k, patch), steps)
      BY <2>3, Zenon DEF AdmitOne, OneRequest
    <3> QED
      BY <2>2, <2>3, <3>1, Zenon
  <2>4. ASSUME NEW r, NEW steps, AdmitPlain(p, r, steps), PlainFits(r, steps), Head(steps)[1] = "assertPackage"
        PROVE  PackageInv'
    BY <2>1, <2>4, Zenon DEF AdmitPlain
  <2> QED
    BY <1>1, <2>3, <2>4, Arrives, Zenon
<1>2. ASSUME NEW p \in Requests, Statement(p)
      PROVE  PackageInv'
  BY <1>2, PackageStatement, Zenon
<1>3. ASSUME NEW p \in Requests, Fault(p)
      PROVE  PackageInv'
  <2>1. row' = row /\ removed' = removed /\ raced' = raced
    BY <1>3 DEF Fault
  <2> QED
    BY <1>3, <2>1, EndStep, PackageEnd, Zenon
<1>4. CASE UNCHANGED vars
  <2>1. row' = row /\ removed' = removed /\ req' = req /\ todo' = todo /\ raced' = raced
    BY <1>4 DEF vars
  <2>2. PackagesFit'
    <3> SUFFICES ASSUME NEW x \in Requests, req[x].package \notin raced
                 PROVE  /\ Assigns(x)' => req'[x].package \notin removed'
                        /\ todo'[x] = << <<"deletePackage">> >> => ~InUse(req[x].package)'
      BY <2>1, Zenon DEF PackagesFit
    <3>1. /\ AssignsBy(req[x], todo[x]) => req[x].package \notin removed
          /\ todo[x] = << <<"deletePackage">> >> => ~InUse(req[x].package)
      BY AssignsNow, Zenon DEF PackageInv, PackagesFit
    <3>2. Assigns(x)' => AssignsBy(req[x], todo[x])
      BY <2>1, AssignsNow, Zenon
    <3> QED
      BY <2>1, <3>1, <3>2, Zenon DEF InUse
  <2> QED
    BY <2>1, <2>2, Zenon DEF PackageInv, RacesNoted, PackageOutlivesSubscribers
<1> QED
  BY <1>1, <1>2, <1>3, <1>4, Zenon DEF Next

\* Whatever requests run side by side and wherever they fail, a package with
\* live subscribers is never removed, unless its removal ran beside another
\* request about it.
THEOREM PackagesOutliveSubscribers == Spec => []PackageOutlivesSubscribers
<1> USE AccountsOK
<1>1. Init => AccountsTypeOK /\ RequestsFit /\ PackageInv
  BY InitTyped, PackageInit, Zenon
<1>2. AccountsTypeOK /\ RequestsFit /\ PackageInv /\ [Next]_vars
        => AccountsTypeOK' /\ RequestsFit' /\ PackageInv'
  BY TypedStep, PackageNext, Zenon
<1>3. PackageInv => PackageOutlivesSubscribers
  BY Zenon DEF PackageInv
<1> QED
  BY <1>1, <1>2, <1>3, PTL DEF Spec

-----------------------------------------------------------------------------
(* Logins.  The parts of LoginInv, of the values they are about.           *)

RightBy(held, u, a) ==
  /\ a = "Cleartext-Password" => held[a] = IF u.state = "live" THEN {u.password} \ {0} ELSE {}
  /\ a = "Auth-Type" => held[a] = IF u.status = "ACTIVE" THEN {} ELSE {0}
  /\ a = "Expiration" => held[a] = {u.expires}

GoodBy(held, u) ==
  /\ RightBy(held, u, "Cleartext-Password")
  /\ u.state = "live" /\ u.password # 0 => RightBy(held, u, "Auth-Type") /\ RightBy(held, u, "Expiration")

CopyBy(r, u) == u.state = "live" /\ r.copy.status = u.status /\ r.copy.expires = u.expires

PushBy(r, steps, held, u) ==
  /\ r.kind # "update" => u.password # 0 /\ r.copy.password = u.password
  /\ steps = Tail(FromPassword(r.copy.status)) => held["Cleartext-Password"] = {}
  /\ r.kind # "update" =>
       \/ steps \in {FromPassword(r.copy.status), Tail(FromPassword(r.copy.status))}
       \/ RightBy(held, u, "Cleartext-Password")
  /\ steps = Tail(FromAuthType(r.copy.status)) => held["Auth-Type"] = {}
  /\ steps \in {FromExpiration, Tail(FromExpiration), FromRate, Tail(FromRate)} => RightBy(held, u, "Auth-Type")
  /\ steps = Tail(FromExpiration) => held["Expiration"] = {}
  /\ steps \in {FromRate, Tail(FromRate)} => RightBy(held, u, "Expiration")

FitsBy(r, steps, held, u) ==
  /\ r.kind \in {"update", "setPassword"} /\ Unwriting(steps) /\ Head(steps)[1] # "findOwned" => CopyBy(r, u)
  /\ steps = << <<"readPackage">> >> =>
       CopyBy(r, u) /\ (r.kind # "update" => u.password = r.patch.password)
  /\ PushAhead(r, steps) => CopyBy(r, u) /\ PushBy(r, steps, held, u)
  /\ r.kind \in {"revokePassword", "remove"} /\ ~Unwriting(steps) => u.state # "live" \/ u.password = 0
  /\ steps = << <<"deleteUser", "radreply">> >> => held["Cleartext-Password"] = {}

LEMMA RightNow ==
  ASSUME NEW s, NEW a
  PROVE  /\ Right(s, a) <=> RightBy(aaa[UserOf[s]], row[s], a)
         /\ Right(s, a)' <=> RightBy(aaa'[UserOf[s]], row'[s], a)
BY Zenon DEF Right, RightBy

LEMMA GoodNow ==
  ASSUME NEW s
  PROVE  /\ Good(s) <=> GoodBy(aaa[UserOf[s]], row[s])
         /\ Good(s)' <=> GoodBy(aaa'[UserOf[s]], row'[s])
<1>1. \A a : /\ Right(s, a) <=> RightBy(aaa[UserOf[s]], row[s], a)
             /\ Right(s, a)' <=> RightBy(aaa'[UserOf[s]], row'[s], a)
  BY RightNow, Zenon
<1> QED
  BY <1>1 DEF Good, GoodBy

LEMMA FitsNow ==
  ASSUME NEW p, NEW s
  PROVE  /\ InStep(p, s) <=> FitsBy(req[p], todo[p], aaa[UserOf[s]], row[s])
         /\ InStep(p, s)' <=> FitsBy(req'[p], todo'[p], aaa'[UserOf[s]], row'[s])
<1>1. /\ Unwritten(p) <=> Unwriting(todo[p])
      /\ Unwritten(p)' <=> Unwriting(todo'[p])
  BY Zenon DEF Unwritten, Unwriting
<1>2. /\ CopyFits(p, s) <=> CopyBy(req[p], row[s])
      /\ CopyFits(p, s)' <=> CopyBy(req'[p], row'[s])
  BY Zenon DEF CopyFits, CopyBy
<1>3. /\ PushFits(p, s) <=> PushBy(req[p], todo[p], aaa[UserOf[s]], row[s])
      /\ PushFits(p, s)' <=> PushBy(req'[p], todo'[p], aaa'[UserOf[s]], row'[s])
  BY RightNow, Zenon DEF PushFits, PushBy
<1>4. PushAhead(req[p], todo[p])' <=> PushAhead(req'[p], todo'[p])
  BY Zenon DEF PushAhead
<1>5. InStep(p, s) <=> FitsBy(req[p], todo[p], aaa[UserOf[s]], row[s])
  BY <1>1, <1>2, <1>3, Zenon DEF InStep, FitsBy
<1>6. InStep(p, s)' <=> FitsBy(req'[p], todo'[p], aaa'[UserOf[s]], row'[s])
  BY <1>1, <1>2, <1>3, <1>4, Zenon DEF InStep, FitsBy
<1> QED
  BY <1>5, <1>6, Zenon

About(r, s) == \E t \in r.subs : UserOf[t] = UserOf[s]

LEMMA LoginParts ==
  ASSUME LoginInv
  PROVE  /\ \A p \in clean : \E s \in Subscribers :
              /\ p \in Requests /\ req[p].subs = {s}
              /\ \A q \in Requests : About(req[q], s) => q = p
         /\ \A s \in Subscribers \ disturbed : \A p \in Requests :
              About(req[p], s) => req[p].subs = {s} /\ p \in clean
         /\ \A p \in clean : \A s \in req[p].subs : FitsBy(req[p], todo[p], aaa[UserOf[s]], row[s])
         /\ \A s \in Subscribers \ disturbed :
              (\A p \in Requests : About(req[p], s) => Unwriting(todo[p])) => GoodBy(aaa[UserOf[s]], row[s])
         /\ \A s \in Subscribers \ disturbed : \A p \in Requests :
              About(req[p], s) /\ req[p].kind = "update" => RightBy(aaa[UserOf[s]], row[s], "Cleartext-Password")
<1>1. \A s, q : q \in Rivals(s) <=> q \in Requests /\ About(req[q], s)
  BY DEF Rivals, About
<1>2. \A p \in clean : \E s \in Subscribers :
              /\ p \in Requests /\ req[p].subs = {s}
              /\ \A q \in Requests : About(req[q], s) => q = p
  <2> TAKE p \in clean
  <2>1. PICK s \in Subscribers : req[p].subs = {s} /\ Rivals(s) = {p}
    BY Zenon DEF LoginInv, CleanAlone
  <2>2. \A q : q \in Rivals(s) <=> q = p
    BY <2>1
  <2> QED
    BY <1>1, <2>1, <2>2, Zenon
<1>3. \A s \in Subscribers \ disturbed : \A p \in Requests :
              About(req[p], s) => req[p].subs = {s} /\ p \in clean
  BY <1>1, Zenon DEF LoginInv, CleanAlone
<1>4. \A p \in clean : \A s \in req[p].subs : FitsBy(req[p], todo[p], aaa[UserOf[s]], row[s])
  BY FitsNow, Zenon DEF LoginInv, CleanFits
<1>5. \A p : Unwritten(p) <=> Unwriting(todo[p])
  BY Zenon DEF Unwritten, Unwriting
<1>6. \A s \in Subscribers \ disturbed :
              (\A p \in Requests : About(req[p], s) => Unwriting(todo[p])) => GoodBy(aaa[UserOf[s]], row[s])
  BY <1>1, <1>5, GoodNow, Zenon DEF LoginInv, UndisturbedGood
<1>7. \A s \in Subscribers \ disturbed : \A p \in Requests :
              About(req[p], s) /\ req[p].kind = "update" => RightBy(aaa[UserOf[s]], row[s], "Cleartext-Password")
  BY <1>1, RightNow, Zenon DEF LoginInv, UndisturbedGood
<1> QED
  BY <1>2, <1>3, <1>4, <1>6, <1>7, Zenon

LEMMA LoginWhole ==
  ASSUME \A p \in clean' : \E s \in Subscribers :
            /\ p \in Requests /\ req'[p].subs = {s}
            /\ \A q \in Requests : About(req'[q], s) => q = p,
         \A s \in Subscribers \ disturbed' : \A p \in Requests :
            About(req'[p], s) => req'[p].subs = {s} /\ p \in clean',
         \A p \in clean' : \A s \in req'[p].subs :
            FitsBy(req'[p], todo'[p], aaa'[UserOf[s]], row'[s]),
         \A s \in Subscribers \ disturbed' :
            (\A p \in Requests : About(req'[p], s) => Unwriting(todo'[p])) => GoodBy(aaa'[UserOf[s]], row'[s]),
         \A s \in Subscribers \ disturbed' : \A p \in Requests :
            About(req'[p], s) /\ req'[p].kind = "update" => RightBy(aaa'[UserOf[s]], row'[s], "Cleartext-Password")
  PROVE  LoginInv'
<1>1. \A s, q : q \in Rivals(s)' <=> q \in Requests /\ About(req'[q], s)
  BY DEF Rivals, About
<1>2. \A p \in clean' : \E s \in Subscribers : req'[p].subs = {s} /\ Rivals(s)' = {p}
  <2> TAKE p \in clean'
  <2>1. PICK s \in Subscribers : /\ p \in Requests /\ req'[p].subs = {s}
                                 /\ \A q \in Requests : About(req'[q], s) => q = p
    OBVIOUS
  <2>2. About(req'[p], s)
    BY <2>1 DEF About
  <2>3. \A q : q \in Rivals(s)' <=> q = p
    BY <1>1, <2>1, <2>2, Zenon
  <2>4. Rivals(s)' = {p}
    BY <2>3
  <2> QED
    BY <2>1, <2>4, Zenon
<1>3. \A s \in Subscribers \ disturbed' : \A p \in Rivals(s)' : req'[p].subs = {s} /\ p \in clean'
  BY <1>1, Zenon
<1>4. CleanAlone'
  BY <1>2, <1>3, Zenon DEF CleanAlone
<1>5. CleanFits'
  BY FitsNow, Zenon DEF CleanFits
<1>6. \A p : Unwritten(p)' <=> Unwriting(todo'[p])
  BY Zenon DEF Unwritten, Unwriting
<1>7. ASSUME NEW s \in Subscribers \ disturbed'
      PROVE  (\A p \in Rivals(s)' : Unwritten(p)') => Good(s)'
  BY <1>1, <1>6, GoodNow, Zenon
<1>8. ASSUME NEW s \in Subscribers \ disturbed', NEW p \in Rivals(s)', req'[p].kind = "update"
      PROVE  Right(s, "Cleartext-Password")'
  BY <1>1, <1>8, RightNow, Zenon
<1>9. UndisturbedGood'
  BY <1>7, <1>8, Zenon DEF UndisturbedGood
<1> QED
  BY <1>4, <1>5, <1>9, Zenon DEF LoginInv

\* A request about s goes on: what it has written is in step with the row, and
\* a row that is yet to be written is left alone.
LEMMA LoginGoesOn ==
  ASSUME LoginInv, NEW p \in Requests, NEW s \in Subscribers, req[p].subs = {s},
         req'[p].subs = {s}, req'[p].kind = req[p].kind,
         \A q \in Requests \ {p} : req'[q] = req[q] /\ todo'[q] = todo[q],
         clean' = clean, disturbed' = disturbed,
         \A t \in Subscribers \ {s} : row'[t] = row[t],
         \A u \in Users : u # UserOf[s] => aaa'[u] = aaa[u],
         p \in clean => FitsBy(req'[p], todo'[p], aaa'[UserOf[s]], row'[s]),
         Unwriting(todo'[p]) =>
           Unwriting(todo[p]) /\ row'[s] = row[s] /\ aaa'[UserOf[s]] = aaa[UserOf[s]],
         req[p].kind = "update" /\ RightBy(aaa[UserOf[s]], row[s], "Cleartext-Password") =>
           RightBy(aaa'[UserOf[s]], row'[s], "Cleartext-Password")
  PROVE  LoginInv'
<1> DEFINE P == "Cleartext-Password"
<1>1. /\ \A q \in clean : \E t \in Subscribers :
           /\ q \in Requests /\ req[q].subs = {t}
           /\ \A x \in Requests : About(req[x], t) => x = q
      /\ \A t \in Subscribers \ disturbed : \A q \in Requests :
           About(req[q], t) => req[q].subs = {t} /\ q \in clean
      /\ \A q \in clean : \A t \in req[q].subs : FitsBy(req[q], todo[q], aaa[UserOf[t]], row[t])
      /\ \A t \in Subscribers \ disturbed :
           (\A q \in Requests : About(req[q], t) => Unwriting(todo[q])) => GoodBy(aaa[UserOf[t]], row[t])
      /\ \A t \in Subscribers \ disturbed : \A q \in Requests :
           About(req[q], t) /\ req[q].kind = "update" => RightBy(aaa[UserOf[t]], row[t], P)
  BY LoginParts, Zenon
<1> HIDE DEF P
<1>2. \A q \in Requests : req'[q].subs = req[q].subs /\ req'[q].kind = req[q].kind
  <2> TAKE q \in Requests
  <2>1. CASE q = p
    BY <2>1
  <2>2. CASE q # p
    BY <2>2, Zenon
  <2> QED
    BY <2>1, <2>2, Zenon
<1>3. \A q \in Requests, t \in Subscribers : About(req'[q], t) <=> About(req[q], t)
  BY <1>2, Zenon DEF About
<1>4. \A t \in Subscribers : UserOf[t] # UserOf[s] => row'[t] = row[t] /\ aaa'[UserOf[t]] = aaa[UserOf[t]]
  <2> TAKE t \in Subscribers
  <2>1. UserOf[t] \in Users
    BY DEF Users
  <2> QED
    BY <2>1, Zenon
<1>5. \A t \in Subscribers : UserOf[t] = UserOf[s] => About(req[p], t)
  BY DEF About
<1>6. ASSUME NEW q \in clean'
      PROVE  \E t \in Subscribers : /\ q \in Requests /\ req'[q].subs = {t}
                                    /\ \A x \in Requests : About(req'[x], t) => x = q
  <2>1. PICK t \in Subscribers : /\ q \in Requests /\ req[q].subs = {t}
                                 /\ \A x \in Requests : About(req[x], t) => x = q
    BY <1>1, <1>6, Zenon
  <2>2. req'[q].subs = {t}
    BY <1>2, <2>1, Zenon
  <2> QED
    BY <1>3, <2>1, <2>2, Zenon
<1>7. ASSUME NEW t \in Subscribers \ disturbed', NEW q \in Requests, About(req'[q], t)
      PROVE  req'[q].subs = {t} /\ q \in clean'
  BY <1>1, <1>2, <1>3, <1>7, Zenon
<1>8. ASSUME NEW q \in clean', NEW t \in req'[q].subs
      PROVE  FitsBy(req'[q], todo'[q], aaa'[UserOf[t]], row'[t])
  <2>1. q \in clean /\ q \in Requests
    BY <1>1, <1>8, Zenon
  <2>2. CASE q = p
    <3>1. t = s
      BY <2>2
    <3> QED
      BY <2>1, <2>2, <3>1, Zenon
  <2>3. CASE q # p
    <3>1. req'[q] = req[q] /\ todo'[q] = todo[q]
      BY <2>1, <2>3, Zenon
    <3>2. PICK x \in Subscribers : /\ req[q].subs = {x}
                                   /\ \A y \in Requests : About(req[y], x) => y = q
      BY <1>1, <2>1, Zenon
    <3>3. t = x
      BY <1>8, <3>1, <3>2
    <3>4. UserOf[t] # UserOf[s]
      BY <1>5, <2>3, <3>2, <3>3, Zenon
    <3>5. row'[t] = row[t] /\ aaa'[UserOf[t]] = aaa[UserOf[t]]
      BY <1>4, <3>2, <3>3, <3>4, Zenon
    <3>6. FitsBy(req[q], todo[q], aaa[UserOf[t]], row[t])
      BY <1>1, <1>8, <2>1, <3>1, Zenon
    <3> QED
      BY <3>1, <3>5, <3>6, Zenon
  <2> QED
    BY <2>2, <2>3, Zenon
<1>9. ASSUME NEW t \in Subscribers \ disturbed', UserOf[t] = UserOf[s]
      PROVE  t = s
  <2>1. req[p].subs = {t}
    BY <1>1, <1>5, <1>9, Zenon
  <2> QED
    BY <2>1
<1>10. ASSUME NEW t \in Subscribers \ disturbed',
              \A q \in Requests : About(req'[q], t) => Unwriting(todo'[q])
       PROVE  GoodBy(aaa'[UserOf[t]], row'[t])
  <2>1. CASE UserOf[t] # UserOf[s]
    <3>1. \A q \in Requests : About(req[q], t) => Unwriting(todo[q])
      <4> TAKE q \in Requests
      <4>1. CASE q = p
        <5>1. ~About(req[p], t)
          BY <2>1 DEF About
        <5> QED
          BY <4>1, <5>1, Zenon
      <4>2. CASE q # p
        BY <1>3, <1>10, <4>2, Zenon
      <4> QED
        BY <4>1, <4>2, Zenon
    <3>2. GoodBy(aaa[UserOf[t]], row[t])
      BY <1>1, <1>10, <3>1, Zenon
    <3>3. row'[t] = row[t] /\ aaa'[UserOf[t]] = aaa[UserOf[t]]
      BY <1>4, <2>1, Zenon
    <3> QED
      BY <3>2, <3>3, Zenon
  <2>2. CASE UserOf[t] = UserOf[s]
    <3>1. t = s
      BY <1>9, <2>2, Zenon
    <3>2. About(req[p], t)
      BY <1>5, <2>2, Zenon
    <3>3. Unwriting(todo[p]) /\ row'[s] = row[s] /\ aaa'[UserOf[s]] = aaa[UserOf[s]]
      BY <1>3, <1>10, <3>2, Zenon
    <3>4. \A q \in Requests : About(req[q], t) => Unwriting(todo[q])
      <4> TAKE q \in Requests
      <4>1. CASE q = p
        BY <3>3, <4>1, Zenon
      <4>2. CASE q # p
        BY <1>3, <1>10, <4>2, Zenon
      <4> QED
        BY <4>1, <4>2, Zenon
    <3>5. GoodBy(aaa[UserOf[t]], row[t])
      BY <1>1, <1>10, <3>4, Zenon
    <3> QED
      BY <3>1, <3>3, <3>5, Zenon
  <2> QED
    BY <2>1, <2>2, Zenon
<1>11. ASSUME NEW t \in Subscribers \ disturbed', NEW q \in Requests,
              About(req'[q], t), req'[q].kind = "update"
       PROVE  RightBy(aaa'[UserOf[t]], row'[t], P)
  <2>1. RightBy(aaa[UserOf[t]], row[t], P) /\ req[q].kind = "update" /\ About(req[q], t)
    BY <1>1, <1>2, <1>3, <1>11, Zenon
  <2>2. CASE UserOf[t] # UserOf[s]
    <3>1. row'[t] = row[t] /\ aaa'[UserOf[t]] = aaa[UserOf[t]]
      BY <1>4, <2>2, Zenon
    <3> QED
      BY <2>1, <3>1, Zenon
  <2>3. CASE UserOf[t] = UserOf[s]
    <3>1. t = s
      BY <1>9, <2>3, Zenon
    <3>2. q = p
      <4>1. p \in clean /\ About(req[p], t) /\ req[p].subs = {t}
        BY <1>1, <1>5, <1>11, <2>3, Zenon
      <4>2. PICK x \in Subscribers : /\ req[p].subs = {x}
                                     /\ \A y \in Requests : About(req[y], x) => y = p
        BY <1>1, <4>1, Zenon
      <4>3. x = t
        BY <4>1, <4>2
      <4> QED
        BY <2>1, <4>2, <4>3, Zenon
    <3> QED
      BY <2>1, <3>1, <3>2, Zenon DEF P
  <2> QED
    BY <2>2, <2>3, Zenon
<1> QED
  BY <1>6, <1>7, <1>8, <1>10, <1>11, LoginWhole, Zenon DEF P

\* A request about s ends, having put it right unless that is noted.
LEMMA LoginEnds ==
  ASSUME LoginInv, NEW p \in Requests, NEW s \in Subscribers, req[p].subs = {s},
         req'[p].subs = {}, clean' = clean \ {p},
         \A q \in Requests \ {p} : req'[q] = req[q] /\ todo'[q] = todo[q],
         \A t \in Subscribers \ {s} : t \in disturbed => t \in disturbed',
         \A t \in Subscribers \ {s} : row'[t] = row[t],
         \A u \in Users : u # UserOf[s] => aaa'[u] = aaa[u],
         s \notin disturbed' => s \notin disturbed \/ p \in clean,
         s \notin disturbed' /\ p \in clean => GoodBy(aaa'[UserOf[s]], row'[s])
  PROVE  LoginInv'
<1> DEFINE P == "Cleartext-Password"
<1>1. /\ \A q \in clean : \E t \in Subscribers :
           /\ q \in Requests /\ req[q].subs = {t}
           /\ \A x \in Requests : About(req[x], t) => x = q
      /\ \A t \in Subscribers \ disturbed : \A q \in Requests :
           About(req[q], t) => req[q].subs = {t} /\ q \in clean
      /\ \A q \in clean : \A t \in req[q].subs : FitsBy(req[q], todo[q], aaa[UserOf[t]], row[t])
      /\ \A t \in Subscribers \ disturbed :
           (\A q \in Requests : About(req[q], t) => Unwriting(todo[q])) => GoodBy(aaa[UserOf[t]], row[t])
      /\ \A t \in Subscribers \ disturbed : \A q \in Requests :
           About(req[q], t) /\ req[q].kind = "update" => RightBy(aaa[UserOf[t]], row[t], P)
  BY LoginParts, Zenon
<1> HIDE DEF P
<1>2. \A t : ~About(req'[p], t)
  BY DEF About
<1>3. \A q \in Requests, t \in Subscribers : About(req'[q], t) => q # p /\ About(req[q], t)
  <2> TAKE q \in Requests, t \in Subscribers
  <2> HAVE About(req'[q], t)
  <2>1. q # p
    BY <1>2, Zenon
  <2>2. req'[q] = req[q]
    BY <2>1, Zenon
  <2> QED
    BY <2>1, <2>2, Zenon
<1>4. \A t \in Subscribers : UserOf[t] # UserOf[s] => row'[t] = row[t] /\ aaa'[UserOf[t]] = aaa[UserOf[t]]
  <2> TAKE t \in Subscribers
  <2>1. UserOf[t] \in Users
    BY DEF Users
  <2> QED
    BY <2>1, Zenon
<1>5. \A t \in Subscribers : UserOf[t] = UserOf[s] => About(req[p], t)
  BY DEF About
<1>6. \A q \in clean' : q \in clean /\ q # p /\ q \in Requests /\ req'[q] = req[q] /\ todo'[q] = todo[q]
  <2> TAKE q \in clean'
  <2>1. q \in clean /\ q # p
    OBVIOUS
  <2>2. q \in Requests
    BY <1>1, <2>1, Zenon
  <2> QED
    BY <2>1, <2>2, Zenon
<1>7. ASSUME NEW q \in clean'
      PROVE  \E t \in Subscribers : /\ q \in Requests /\ req'[q].subs = {t}
                                    /\ \A x \in Requests : About(req'[x], t) => x = q
  <2>1. PICK t \in Subscribers : /\ q \in Requests /\ req[q].subs = {t}
                                 /\ \A x \in Requests : About(req[x], t) => x = q
    BY <1>1, <1>6, Zenon
  <2>2. req'[q].subs = {t}
    BY <1>6, <2>1, Zenon
  <2> QED
    BY <1>3, <2>1, <2>2, Zenon
<1>8. \A t \in Subscribers \ disturbed' : t \notin disturbed \/ t = s
  OBVIOUS
<1>9. ASSUME NEW t \in Subscribers \ disturbed', NEW q \in Requests, UserOf[t] = UserOf[s]
      PROVE  t = s /\ p \in clean /\ ~About(req'[q], t)
  <2>1. t = s
    <3>1. CASE t \notin disturbed
      <4>1. req[p].subs = {t}
        BY <1>1, <1>5, <1>9, <3>1, Zenon
      <4> QED
        BY <4>1
    <3> QED
      BY <1>8, <3>1, Zenon
  <2>2. p \in clean
    <3>1. CASE s \notin disturbed
      BY <1>1, <1>5, <3>1, Zenon
    <3> QED
      BY <1>9, <2>1, <3>1, Zenon
  <2>3. \A x \in Requests : About(req[x], s) => x = p
    <3>1. PICK y \in Subscribers : /\ req[p].subs = {y}
                                   /\ \A x \in Requests : About(req[x], y) => x = p
      BY <1>1, <2>2, Zenon
    <3>2. y = s
      BY <3>1
    <3> QED
      BY <3>1, <3>2, Zenon
  <2> QED
    BY <1>3, <2>1, <2>2, <2>3, Zenon
<1>10. ASSUME NEW t \in Subscribers \ disturbed', UserOf[t] # UserOf[s]
       PROVE  /\ t \notin disturbed
              /\ row'[t] = row[t] /\ aaa'[UserOf[t]] = aaa[UserOf[t]]
  BY <1>4, <1>8, <1>10, Zenon
<1>11. ASSUME NEW t \in Subscribers \ disturbed', NEW q \in Requests, About(req'[q], t)
       PROVE  /\ UserOf[t] # UserOf[s] /\ t \notin disturbed /\ About(req[q], t)
              /\ req'[q] = req[q] /\ todo'[q] = todo[q] /\ q # p
  <2>1. UserOf[t] # UserOf[s]
    BY <1>9, <1>11, Zenon
  <2> QED
    BY <1>3, <1>10, <1>11, <2>1, Zenon
<1>12. ASSUME NEW t \in Subscribers \ disturbed', NEW q \in Requests, About(req'[q], t)
       PROVE  req'[q].subs = {t} /\ q \in clean'
  <2>1. req[q].subs = {t} /\ q \in clean /\ q # p /\ req'[q] = req[q]
    BY <1>1, <1>11, <1>12, Zenon
  <2> QED
    BY <2>1
<1>13. ASSUME NEW q \in clean', NEW t \in req'[q].subs
       PROVE  FitsBy(req'[q], todo'[q], aaa'[UserOf[t]], row'[t])
  <2>1. q \in clean /\ q \in Requests /\ q # p /\ req'[q] = req[q] /\ todo'[q] = todo[q]
    BY <1>6, Zenon
  <2>2. PICK x \in Subscribers : /\ req[q].subs = {x}
                                 /\ \A y \in Requests : About(req[y], x) => y = q
    BY <1>1, <2>1, Zenon
  <2>3. t = x
    BY <1>13, <2>1, <2>2
  <2>4. UserOf[t] # UserOf[s]
    BY <1>5, <2>1, <2>2, <2>3, Zenon
  <2>5. row'[t] = row[t] /\ aaa'[UserOf[t]] = aaa[UserOf[t]]
    BY <1>4, <2>2, <2>3, <2>4, Zenon
  <2>6. FitsBy(req[q], todo[q], aaa[UserOf[t]], row[t])
    BY <1>1, <1>13, <2>1, Zenon
  <2> QED
    BY <2>1, <2>5, <2>6, Zenon
<1>14. ASSUME NEW t \in Subscribers \ disturbed',
              \A q \in Requests : About(req'[q], t) => Unwriting(todo'[q])
       PROVE  GoodBy(aaa'[UserOf[t]], row'[t])
  <2>1. CASE UserOf[t] # UserOf[s]
    <3>1. \A q \in Requests : About(req[q], t) => Unwriting(todo[q])
      <4> TAKE q \in Requests
      <4>1. CASE q = p
        <5>1. ~About(req[p], t)
          BY <2>1 DEF About
        <5> QED
          BY <4>1, <5>1, Zenon
      <4>2. CASE q # p
        <5>1. req'[q] = req[q] /\ todo'[q] = todo[q]
          BY <4>2, Zenon
        <5> QED
          BY <1>14, <5>1, Zenon
      <4> QED
        BY <4>1, <4>2, Zenon
    <3>2. t \notin disturbed /\ row'[t] = row[t] /\ aaa'[UserOf[t]] = aaa[UserOf[t]]
      BY <1>10, <2>1, Zenon
    <3>3. GoodBy(aaa[UserOf[t]], row[t])
      BY <1>1, <3>1, <3>2, Zenon
    <3> QED
      BY <3>2, <3>3, Zenon
  <2>2. CASE UserOf[t] = UserOf[s]
    <3>1. t = s /\ p \in clean
      BY <1>9, <2>2, Zenon
    <3> QED
      BY <1>14, <3>1
  <2> QED
    BY <2>1, <2>2, Zenon
<1>15. ASSUME NEW t \in Subscribers \ disturbed', NEW q \in Requests,
              About(req'[q], t), req'[q].kind = "update"
       PROVE  RightBy(aaa'[UserOf[t]], row'[t], P)
  <2>1. /\ UserOf[t] # UserOf[s] /\ t \notin disturbed /\ About(req[q], t) /\ req'[q] = req[q]
        /\ row'[t] = row[t] /\ aaa'[UserOf[t]] = aaa[UserOf[t]]
    BY <1>10, <1>11, <1>15, Zenon
  <2> QED
    BY <1>1, <1>15, <2>1, Zenon
<1> QED
  BY <1>7, <1>12, <1>13, <1>14, <1>15, LoginWhole, Zenon DEF P

\* A request that pushes nothing leaves what a login depends on as it is.
LEMMA LoginPlain ==
  ASSUME LoginInv, NEW p \in Requests, req[p].subs = {}, req'[p].subs = {},
         \A q \in Requests \ {p} : req'[q] = req[q] /\ todo'[q] = todo[q],
         clean' = clean \/ clean' = clean \ {p},
         disturbed' = disturbed, aaa' = aaa,
         \A s \in Subscribers :
           /\ row'[s].state = row[s].state /\ row'[s].status = row[s].status
           /\ row'[s].password = row[s].password /\ row'[s].expires = row[s].expires
  PROVE  LoginInv'
<1> DEFINE P == "Cleartext-Password"
<1>1. /\ \A q \in clean : \E t \in Subscribers :
           /\ q \in Requests /\ req[q].subs = {t}
           /\ \A x \in Requests : About(req[x], t) => x = q
      /\ \A t \in Subscribers \ disturbed : \A q \in Requests :
           About(req[q], t) => req[q].subs = {t} /\ q \in clean
      /\ \A q \in clean : \A t \in req[q].subs : FitsBy(req[q], todo[q], aaa[UserOf[t]], row[t])
      /\ \A t \in Subscribers \ disturbed :
           (\A q \in Requests : About(req[q], t) => Unwriting(todo[q])) => GoodBy(aaa[UserOf[t]], row[t])
      /\ \A t \in Subscribers \ disturbed : \A q \in Requests :
           About(req[q], t) /\ req[q].kind = "update" => RightBy(aaa[UserOf[t]], row[t], P)
  BY LoginParts, Zenon
<1> HIDE DEF P
<1>2. clean' = clean
  <2>1. p \notin clean
    <3> SUFFICES ASSUME p \in clean
                 PROVE  FALSE
      OBVIOUS
    <3>1. PICK t \in Subscribers : req[p].subs = {t}
      BY <1>1, Zenon
    <3> QED
      BY <3>1
  <2> QED
    BY <2>1
<1>3. /\ \A t : ~About(req[p], t)
      /\ \A t : ~About(req'[p], t)
  BY DEF About
<1>4. \A q \in Requests, t \in Subscribers :
        /\ About(req'[q], t) <=> About(req[q], t)
        /\ About(req[q], t) => req'[q] = req[q] /\ todo'[q] = todo[q]
  <2> TAKE q \in Requests, t \in Subscribers
  <2>1. CASE q = p
    BY <1>3, <2>1, Zenon
  <2>2. CASE q # p
    <3>1. req'[q] = req[q] /\ todo'[q] = todo[q]
      BY <2>2, Zenon
    <3> QED
      BY <3>1, Zenon
  <2> QED
    BY <2>1, <2>2, Zenon
<1>5. \A q \in clean' : q \in clean /\ q \in Requests /\ req'[q] = req[q] /\ todo'[q] = todo[q]
  <2> TAKE q \in clean'
  <2>1. PICK t \in Subscribers : q \in Requests /\ req[q].subs = {t}
    BY <1>1, <1>2, Zenon
  <2>2. q # p
    BY <2>1
  <2> QED
    BY <1>2, <2>1, <2>2, Zenon
<1>6. ASSUME NEW t \in Subscribers, NEW held, NEW r, NEW steps
      PROVE  /\ \A a : RightBy(held, row'[t], a) <=> RightBy(held, row[t], a)
             /\ GoodBy(held, row'[t]) <=> GoodBy(held, row[t])
             /\ FitsBy(r, steps, held, row'[t]) <=> FitsBy(r, steps, held, row[t])
  <2> DEFINE u == row[t]
             v == row'[t]
  <2>1. v.state = u.state /\ v.status = u.status /\ v.password = u.password /\ v.expires = u.expires
    BY Zenon
  <2> HIDE DEF u, v
  <2>2. \A a : RightBy(held, v, a) <=> RightBy(held, u, a)
    BY <2>1, Zenon DEF RightBy
  <2>3. GoodBy(held, v) <=> GoodBy(held, u)
    BY <2>1, <2>2, Zenon DEF GoodBy
  <2>4. CopyBy(r, v) <=> CopyBy(r, u)
    BY <2>1, Zenon DEF CopyBy
  <2>5. PushBy(r, steps, held, v) <=> PushBy(r, steps, held, u)
    BY <2>1, <2>2, Zenon DEF PushBy
  <2>6. FitsBy(r, steps, held, v) <=> FitsBy(r, steps, held, u)
    BY <2>1, <2>4, <2>5, Zenon DEF FitsBy
  <2> QED
    BY <2>2, <2>3, <2>6, Zenon DEF u, v
<1>7. ASSUME NEW q \in clean'
      PROVE  \E t \in Subscribers : /\ q \in Requests /\ req'[q].subs = {t}
                                    /\ \A x \in Requests : About(req'[x], t) => x = q
  <2>1. PICK t \in Subscribers : /\ q \in Requests /\ req[q].subs = {t}
                                 /\ \A x \in Requests : About(req[x], t) => x = q
    BY <1>1, <1>5, Zenon
  <2>2. req'[q].subs = {t}
    BY <1>5, <2>1, Zenon
  <2> QED
    BY <1>4, <2>1, <2>2, Zenon
<1>8. ASSUME NEW t \in Subscribers \ disturbed', NEW q \in Requests, About(req'[q], t)
      PROVE  req'[q].subs = {t} /\ q \in clean'
  <2>1. About(req[q], t) /\ req'[q] = req[q]
    BY <1>4, <1>8, Zenon
  <2> QED
    BY <1>1, <1>2, <2>1, Zenon
<1>9. ASSUME NEW q \in clean', NEW t \in req'[q].subs
      PROVE  FitsBy(req'[q], todo'[q], aaa'[UserOf[t]], row'[t])
  <2>1. q \in clean /\ req'[q] = req[q] /\ todo'[q] = todo[q] /\ t \in req[q].subs
    BY <1>5, <1>9, Zenon
  <2>2. t \in Subscribers
    <3>1. PICK x \in Subscribers : req[q].subs = {x}
      BY <1>1, <2>1, Zenon
    <3> QED
      BY <2>1, <3>1
  <2>3. FitsBy(req[q], todo[q], aaa[UserOf[t]], row[t])
    BY <1>1, <2>1, Zenon
  <2> QED
    BY <1>6, <2>1, <2>2, <2>3, Zenon
<1>10. ASSUME NEW t \in Subscribers \ disturbed',
              \A q \in Requests : About(req'[q], t) => Unwriting(todo'[q])
       PROVE  GoodBy(aaa'[UserOf[t]], row'[t])
  <2>1. \A q \in Requests : About(req[q], t) => Unwriting(todo[q])
    <3> TAKE q \in Requests
    <3> HAVE About(req[q], t)
    <3>1. About(req'[q], t) /\ todo'[q] = todo[q]
      BY <1>4, Zenon
    <3>2. Unwriting(todo'[q])
      BY <1>10, <3>1, Zenon
    <3> QED
      BY <3>1, <3>2, Zenon
  <2>2. GoodBy(aaa[UserOf[t]], row[t])
    BY <1>1, <2>1, Zenon
  <2> QED
    BY <1>6, <2>2, Zenon
<1>11. ASSUME NEW t \in Subscribers \ disturbed', NEW q \in Requests,
              About(req'[q], t), req'[q].kind = "update"
       PROVE  RightBy(aaa'[UserOf[t]], row'[t], P)
  <2>1. About(req[q], t) /\ req[q].kind = "update"
    BY <1>4, <1>11, Zenon
  <2>2. RightBy(aaa[UserOf[t]], row[t], P)
    BY <1>1, <2>1, Zenon
  <2> QED
    BY <1>6, <2>2, Zenon
<1> QED
  BY <1>7, <1>8, <1>9, <1>10, <1>11, LoginWhole, Zenon DEF P

\* No two stages of a push await the same statements, except that the account
\* of an ACTIVE subscriber is open as soon as its Reject is deleted.
LEMMA StagesDiffer ==
  ASSUME NEW w
  PROVE  /\ FromPassword(w) \notin {Tail(FromPassword(w)), FromAuthType(w), Tail(FromAuthType(w)),
                                    FromExpiration, Tail(FromExpiration), FromRate, Tail(FromRate)}
         /\ Tail(FromPassword(w)) \notin {FromAuthType(w), Tail(FromAuthType(w)),
                                          FromExpiration, Tail(FromExpiration), FromRate, Tail(FromRate)}
         /\ FromAuthType(w) \notin {Tail(FromAuthType(w)),
                                    FromExpiration, Tail(FromExpiration), FromRate, Tail(FromRate)}
         /\ Tail(FromAuthType(w)) \notin {Tail(FromExpiration), FromRate, Tail(FromRate)}
         /\ w # "ACTIVE" => Tail(FromAuthType(w)) # FromExpiration
         /\ FromExpiration \notin {Tail(FromExpiration), FromRate, Tail(FromRate)}
         /\ Tail(FromExpiration) \notin {FromRate, Tail(FromRate)}
         /\ FromRate # Tail(FromRate)
<1> DEFINE p1 == FromPassword(w)
           p2 == Tail(FromPassword(w))
           a1 == FromAuthType(w)
           a2 == Tail(FromAuthType(w))
           e1 == FromExpiration
           e2 == Tail(FromExpiration)
           r1 == FromRate
           r2 == Tail(FromRate)
           L(steps) == Len(steps)
<1>1. L(r1) = 2 /\ L(r2) = 1 /\ L(e1) = 4 /\ L(e2) = 3
  BY RateSteps, ExpirationSteps, Zenon
<1>2. L(p1) = L(a1) + 2 /\ L(p2) = L(a1) + 1
  BY PasswordSteps, Zenon
<1>3. /\ w = "ACTIVE" => a2 = e1 /\ L(a1) = 5
      /\ w # "ACTIVE" => L(a1) = 6 /\ L(a2) = 5
  BY AuthTypeSteps, Zenon
<1> HIDE DEF L, p1, p2, a1, a2, e1, e2, r1, r2
<1>4. w = "ACTIVE" => L(a1) = 5 /\ L(a2) = 4
  BY <1>1, <1>3
<1>5. /\ p1 \notin {p2, a1, a2, e1, e2, r1, r2} /\ p2 \notin {a1, a2, e1, e2, r1, r2}
      /\ a1 \notin {a2, e1, e2, r1, r2} /\ a2 \notin {e2, r1, r2}
      /\ w # "ACTIVE" => a2 # e1
      /\ e1 \notin {e2, r1, r2} /\ e2 \notin {r1, r2} /\ r1 # r2
  <2>1. L(a1) \in {5, 6} /\ L(a2) \in {4, 5} /\ L(a2) = L(a1) - 1
    BY <1>3, <1>4
  <2>2. L(p1) \in {7, 8} /\ L(p2) \in {6, 7} /\ L(p1) # L(p2) /\ L(p2) # L(a1)
    BY <1>2, <2>1
  <2>3. p1 # p2 /\ p1 # a1 /\ p1 # a2 /\ p1 # e1 /\ p1 # e2 /\ p1 # r1 /\ p1 # r2
    BY <1>1, <1>2, <2>1, <2>2
  <2>4. p2 # a1 /\ p2 # a2 /\ p2 # e1 /\ p2 # e2 /\ p2 # r1 /\ p2 # r2
    BY <1>1, <1>2, <2>1, <2>2
  <2>5. a1 # a2 /\ a1 # e1 /\ a1 # e2 /\ a1 # r1 /\ a1 # r2
    BY <1>1, <2>1
  <2>6. a2 # e2 /\ a2 # r1 /\ a2 # r2
    BY <1>1, <2>1
  <2>7. w # "ACTIVE" => a2 # e1
    BY <1>1, <1>3
  <2>8. e1 # e2 /\ e1 # r1 /\ e1 # r2 /\ e2 # r1 /\ e2 # r2 /\ r1 # r2
    BY <1>1
  <2> QED
    BY <2>3, <2>4, <2>5, <2>6, <2>7, <2>8
<1> QED
  BY <1>5, Zenon DEF p1, p2, a1, a2, e1, e2, r1, r2

\* What a push has told FreeRADIUS, stage by stage.
LEMMA PushAt ==
  ASSUME NEW r, NEW held, NEW u
  PROVE  LET w == r.copy.status
             known == r.kind # "update" => u.password # 0 /\ r.copy.password = u.password
             set == r.kind # "update" => RightBy(held, u, "Cleartext-Password")
         IN /\ r.kind # "update" =>
                 /\ PushBy(r, FromPassword(w), held, u) <=> known
                 /\ PushBy(r, Tail(FromPassword(w)), held, u) <=> known /\ held["Cleartext-Password"] = {}
            /\ PushBy(r, FromAuthType(w), held, u) <=> known /\ set
            /\ w # "ACTIVE" =>
                 (PushBy(r, Tail(FromAuthType(w)), held, u) <=> known /\ set /\ held["Auth-Type"] = {})
            /\ u.status = w =>
                 (PushBy(r, FromExpiration, held, u) <=> known /\ set /\ RightBy(held, u, "Auth-Type"))
            /\ PushBy(r, Tail(FromExpiration), held, u) <=>
                 known /\ set /\ RightBy(held, u, "Auth-Type") /\ held["Expiration"] = {}
            /\ \A steps \in {FromRate, Tail(FromRate)} :
                 PushBy(r, steps, held, u) <=>
                   known /\ set /\ RightBy(held, u, "Auth-Type") /\ RightBy(held, u, "Expiration")
<1> DEFINE w == r.copy.status
           p1 == FromPassword(w)
           p2 == Tail(FromPassword(w))
           a1 == FromAuthType(w)
           a2 == Tail(FromAuthType(w))
           e1 == FromExpiration
           e2 == Tail(FromExpiration)
           r1 == FromRate
           r2 == Tail(FromRate)
           known == r.kind # "update" => u.password # 0 /\ r.copy.password = u.password
           set == r.kind # "update" => RightBy(held, u, "Cleartext-Password")
           closed == RightBy(held, u, "Auth-Type")
           dated == RightBy(held, u, "Expiration")
           Says(steps) ==
             /\ known
             /\ steps = p2 => held["Cleartext-Password"] = {}
             /\ steps = p1 \/ steps = p2 \/ set
             /\ steps = a2 => held["Auth-Type"] = {}
             /\ steps = e1 \/ steps = e2 \/ steps = r1 \/ steps = r2 => closed
             /\ steps = e2 => held["Expiration"] = {}
             /\ steps = r1 \/ steps = r2 => dated
<1>1. /\ p1 \notin {p2, a1, a2, e1, e2, r1, r2} /\ p2 \notin {a1, a2, e1, e2, r1, r2}
      /\ a1 \notin {a2, e1, e2, r1, r2} /\ a2 \notin {e2, r1, r2}
      /\ w # "ACTIVE" => a2 # e1
      /\ e1 \notin {e2, r1, r2} /\ e2 \notin {r1, r2} /\ r1 # r2
  BY StagesDiffer, Zenon
<1>2. /\ w = "ACTIVE" => a2 = e1
      /\ closed /\ u.status = "ACTIVE" => held["Auth-Type"] = {}
  <2>1. w = "ACTIVE" => a2 = e1
    BY AuthTypeSteps, Zenon
  <2>2. closed /\ u.status = "ACTIVE" => held["Auth-Type"] = {}
    BY Zenon DEF RightBy
  <2> QED
    BY <2>1, <2>2, Zenon
<1>3. \A steps : PushBy(r, steps, held, u) <=> Says(steps)
  <2>1. \A steps, x, y : steps \in {x, y} <=> steps = x \/ steps = y
    OBVIOUS
  <2>2. \A steps, x, y, z, v : steps \in {x, y, z, v} <=> steps = x \/ steps = y \/ steps = z \/ steps = v
    OBVIOUS
  <2> QED
    BY <2>1, <2>2, Zenon DEF PushBy
<1> HIDE DEF p1, p2, a1, a2, e1, e2, r1, r2, known, set, closed, dated
<1>4. /\ Says(p1) <=> known
      /\ Says(p2) <=> known /\ held["Cleartext-Password"] = {}
      /\ Says(a1) <=> known /\ set
      /\ w # "ACTIVE" => (Says(a2) <=> known /\ set /\ held["Auth-Type"] = {})
      /\ u.status = w => (Says(e1) <=> known /\ set /\ closed)
      /\ Says(e2) <=> known /\ set /\ closed /\ held["Expiration"] = {}
      /\ Says(r1) <=> known /\ set /\ closed /\ dated
      /\ Says(r2) <=> known /\ set /\ closed /\ dated
  BY <1>1, <1>2
<1> HIDE DEF Says
<1> QED
  BY <1>3, <1>4, Zenon DEF p1, p2, a1, a2, e1, e2, r1, r2, known, set, closed, dated

\* The first statement of each stage, and the stage after it.
LEMMA Stages ==
  ASSUME NEW r, NEW steps, PushAhead(r, steps)
  PROVE  LET w == r.copy.status
         IN \/ /\ r.kind # "update" /\ steps = FromPassword(w) /\ Head(steps) = <<"deleteAttr", "Cleartext-Password">>
               /\ Tail(steps) = Tail(FromPassword(w))
            \/ /\ r.kind # "update" /\ steps = Tail(FromPassword(w))
               /\ Head(steps) = <<"insertAttr", "Cleartext-Password">> /\ Tail(steps) = FromAuthType(w)
            \/ /\ steps = FromAuthType(w) /\ Head(steps) = <<"deleteAttr", "Auth-Type">>
               /\ Tail(steps) = Tail(FromAuthType(w)) /\ (w = "ACTIVE" => Tail(steps) = FromExpiration)
            \/ /\ w # "ACTIVE" /\ steps = Tail(FromAuthType(w)) /\ Head(steps) = <<"insertAttr", "Auth-Type">>
               /\ Tail(steps) = FromExpiration
            \/ /\ steps = FromExpiration /\ Head(steps) = <<"deleteAttr", "Expiration">>
               /\ Tail(steps) = Tail(FromExpiration)
            \/ /\ steps = Tail(FromExpiration) /\ Head(steps) = <<"insertAttr", "Expiration">>
               /\ Tail(steps) = FromRate
            \/ /\ steps = FromRate /\ Head(steps) = <<"deleteAttr", "Rate-Limit">>
               /\ Tail(steps) = Tail(FromRate)
            \/ /\ steps = Tail(FromRate) /\ Head(steps) = <<"insertAttr", "Rate-Limit">>
               /\ Tail(steps) = <<>>
<1> DEFINE w == r.copy.status
<1>1. CASE r.kind # "update" /\ steps = FromPassword(w)
  BY <1>1, PasswordSteps, Zenon
<1>2. CASE r.kind # "update" /\ steps = Tail(FromPassword(w))
  BY <1>2, PasswordSteps, Zenon
<1>3. CASE steps = FromAuthType(w)
  BY <1>3, AuthTypeSteps, Zenon
<1>4. CASE w # "ACTIVE" /\ steps = Tail(FromAuthType(w))
  BY <1>4, AuthTypeSteps, Zenon
<1>5. CASE w = "ACTIVE" /\ steps = Tail(FromAuthType(w))
  <2>1. steps = FromExpiration
    BY <1>5, AuthTypeSteps, Zenon
  <2> QED
    BY <2>1, ExpirationSteps, Zenon
<1>6. CASE steps = FromExpiration
  BY <1>6, ExpirationSteps, Zenon
<1>7. CASE steps = Tail(FromExpiration)
  BY <1>7, ExpirationSteps, Zenon
<1>8. CASE steps = FromRate \/ steps = Tail(FromRate)
  BY <1>8, RateSteps, Zenon
<1> QED
  BY <1>1, <1>2, <1>3, <1>4, <1>5, <1>6, <1>7, <1>8, Zenon DEF PushAhead

\* One attribute is deleted: the push is in step with what it awaits next.
LEMMA AttrDeleted ==
  ASSUME NEW r, NEW steps, PushAhead(r, steps), NEW held, NEW next, NEW u,
         u.status = r.copy.status, PushBy(r, steps, held, u), Head(steps)[1] = "deleteAttr",
         next[Head(steps)[2]] = {},
         \A b \in Attributes : b # Head(steps)[2] => next[b] = held[b]
  PROVE  /\ Tail(steps) # <<>> /\ PushBy(r, Tail(steps), next, u)
         /\ r.kind = "update" => next["Cleartext-Password"] = held["Cleartext-Password"]
<1> DEFINE w == r.copy.status
           known == r.kind # "update" => u.password # 0 /\ r.copy.password = u.password
           set(h) == r.kind # "update" => RightBy(h, u, "Cleartext-Password")
<1>1. /\ r.kind # "update" =>
           /\ PushBy(r, FromPassword(w), held, u) <=> known
           /\ PushBy(r, Tail(FromPassword(w)), next, u) <=> known /\ next["Cleartext-Password"] = {}
      /\ PushBy(r, FromAuthType(w), held, u) <=> known /\ set(held)
      /\ w # "ACTIVE" =>
           (PushBy(r, Tail(FromAuthType(w)), next, u) <=> known /\ set(next) /\ next["Auth-Type"] = {})
      /\ PushBy(r, FromExpiration, held, u) <=> known /\ set(held) /\ RightBy(held, u, "Auth-Type")
      /\ PushBy(r, FromExpiration, next, u) <=> known /\ set(next) /\ RightBy(next, u, "Auth-Type")
      /\ PushBy(r, Tail(FromExpiration), next, u) <=>
           known /\ set(next) /\ RightBy(next, u, "Auth-Type") /\ next["Expiration"] = {}
  BY PushAt, Zenon
<1>2. /\ PushBy(r, FromRate, held, u) <=>
           known /\ set(held) /\ RightBy(held, u, "Auth-Type") /\ RightBy(held, u, "Expiration")
      /\ PushBy(r, Tail(FromRate), next, u) <=>
           known /\ set(next) /\ RightBy(next, u, "Auth-Type") /\ RightBy(next, u, "Expiration")
  <2>1. FromRate \in {FromRate, Tail(FromRate)} /\ Tail(FromRate) \in {FromRate, Tail(FromRate)}
    OBVIOUS
  <2> QED
    BY <2>1, PushAt, Zenon
<1>3. ASSUME NEW b \in Attributes, next[b] = held[b]
      PROVE  RightBy(next, u, b) <=> RightBy(held, u, b)
  BY <1>3, Zenon DEF RightBy
<1> DEFINE kept(b) == next[b] = held[b]
<1>4. \A b \in Attributes : b # Head(steps)[2] => kept(b)
  OBVIOUS
<1>10. Head(steps) \notin {<<"insertAttr", "Cleartext-Password">>, <<"insertAttr", "Auth-Type">>,
                           <<"insertAttr", "Expiration">>, <<"insertAttr", "Rate-Limit">>}
  OBVIOUS
<1>11. \/ r.kind # "update" /\ steps = FromPassword(w) /\ Head(steps) = <<"deleteAttr", "Cleartext-Password">>
            /\ Tail(steps) = Tail(FromPassword(w))
       \/ /\ steps = FromAuthType(w) /\ Head(steps) = <<"deleteAttr", "Auth-Type">>
          /\ Tail(steps) = Tail(FromAuthType(w)) /\ (w = "ACTIVE" => Tail(steps) = FromExpiration)
       \/ steps = FromExpiration /\ Head(steps) = <<"deleteAttr", "Expiration">>
            /\ Tail(steps) = Tail(FromExpiration)
       \/ steps = FromRate /\ Head(steps) = <<"deleteAttr", "Rate-Limit">> /\ Tail(steps) = Tail(FromRate)
  <2>1. /\ Head(steps) # <<"insertAttr", "Cleartext-Password">> /\ Head(steps) # <<"insertAttr", "Auth-Type">>
        /\ Head(steps) # <<"insertAttr", "Expiration">> /\ Head(steps) # <<"insertAttr", "Rate-Limit">>
    BY <1>10
  <2> QED
    BY <2>1, Stages, Zenon
<1>5. Tail(steps) # <<>>
  <2>1. Tail(FromPassword(w)) # <<>> /\ Tail(FromAuthType(w)) # <<>>
    BY PasswordSteps, AuthTypeSteps, Zenon
  <2>2. Tail(FromExpiration) # <<>> /\ Tail(FromRate) # <<>>
    BY ExpirationSteps, RateSteps, Zenon
  <2> QED
    BY <1>11, <2>1, <2>2, Zenon
<1>6. CASE r.kind # "update" /\ steps = FromPassword(w) /\ Head(steps) = <<"deleteAttr", "Cleartext-Password">>
           /\ Tail(steps) = Tail(FromPassword(w))
  <2>1. next["Cleartext-Password"] = {}
    BY <1>6
  <2> QED
    BY <1>1, <1>5, <1>6, <2>1, Zenon
<1>7. CASE /\ steps = FromAuthType(w) /\ Head(steps) = <<"deleteAttr", "Auth-Type">>
           /\ Tail(steps) = Tail(FromAuthType(w)) /\ (w = "ACTIVE" => Tail(steps) = FromExpiration)
  <2>1. next["Auth-Type"] = {} /\ next["Cleartext-Password"] = held["Cleartext-Password"]
    BY <1>7, AttributesNamed
  <2>2. set(held) <=> set(next)
    BY <1>3, <2>1, AttributesNamed, Zenon
  <2>3. w = "ACTIVE" => RightBy(next, u, "Auth-Type")
    BY <2>1 DEF RightBy
  <2> QED
    BY <1>1, <1>5, <1>7, <2>1, <2>2, <2>3, Zenon
<1>8. CASE steps = FromExpiration /\ Head(steps) = <<"deleteAttr", "Expiration">>
           /\ Tail(steps) = Tail(FromExpiration)
  <2>1. /\ next["Expiration"] = {} /\ next["Cleartext-Password"] = held["Cleartext-Password"]
        /\ next["Auth-Type"] = held["Auth-Type"]
    BY <1>8, AttributesNamed
  <2>2. (set(held) <=> set(next)) /\ (RightBy(next, u, "Auth-Type") <=> RightBy(held, u, "Auth-Type"))
    BY <1>3, <2>1, AttributesNamed, Zenon
  <2> QED
    BY <1>1, <1>5, <1>8, <2>1, <2>2, Zenon
<1>9. CASE steps = FromRate /\ Head(steps) = <<"deleteAttr", "Rate-Limit">> /\ Tail(steps) = Tail(FromRate)
  <2>1. /\ next["Expiration"] = held["Expiration"] /\ next["Cleartext-Password"] = held["Cleartext-Password"]
        /\ next["Auth-Type"] = held["Auth-Type"]
    BY <1>9, AttributesNamed
  <2>2. /\ set(held) <=> set(next)
        /\ RightBy(next, u, "Auth-Type") <=> RightBy(held, u, "Auth-Type")
        /\ RightBy(next, u, "Expiration") <=> RightBy(held, u, "Expiration")
    BY <1>3, <2>1, AttributesNamed, Zenon
  <2> QED
    BY <1>2, <1>5, <1>9, <2>1, <2>2, Zenon
<1> QED
  BY <1>6, <1>7, <1>8, <1>9, <1>11, Zenon

LEMMA SecondNamed ==
  /\ <<"insertAttr", "Cleartext-Password">>[2] = "Cleartext-Password"
  /\ <<"insertAttr", "Auth-Type">>[2] = "Auth-Type"
  /\ <<"insertAttr", "Expiration">>[2] = "Expiration"
  /\ <<"insertAttr", "Rate-Limit">>[2] = "Rate-Limit"
OBVIOUS

AttrPut(held, next, a, v) ==
  next[a] = held[a] \union {v} /\ \A b \in Attributes : b # a => next[b] = held[b]

\* One attribute is inserted, with the value of the copy.  What a push inserts
\* was deleted by its statement before; the last one leaves nothing to be told.
LEMMA AttrInserted ==
  ASSUME NEW r, NEW steps, PushAhead(r, steps), NEW held, NEW next, NEW u,
         CopyBy(r, u), u.password \in Nat, PushBy(r, steps, held, u), Head(steps)[1] = "insertAttr",
         AttrPut(held, next, Head(steps)[2], Value(r.copy, Head(steps)[2]))
  PROVE  /\ Tail(steps) # <<>> => PushBy(r, Tail(steps), next, u)
         /\ Tail(steps) = <<>> =>
              /\ RightBy(next, u, "Auth-Type") /\ RightBy(next, u, "Expiration")
              /\ r.kind # "update" => RightBy(next, u, "Cleartext-Password")
         /\ r.kind = "update" => next["Cleartext-Password"] = held["Cleartext-Password"]
         /\ Head(steps)[2] = "Rate-Limit" \/ held[Head(steps)[2]] = {}
<1> /\ next[Head(steps)[2]] = held[Head(steps)[2]] \union {Value(r.copy, Head(steps)[2])}
    /\ \A b \in Attributes : b # Head(steps)[2] => next[b] = held[b]
  BY Zenon DEF AttrPut
<1> DEFINE w == r.copy.status
           known == r.kind # "update" => u.password # 0 /\ r.copy.password = u.password
           set(h) == r.kind # "update" => RightBy(h, u, "Cleartext-Password")
<1>0. u.state = "live" /\ w = u.status /\ r.copy.expires = u.expires
  BY Zenon DEF CopyBy
<1>1. /\ r.kind # "update" =>
           (PushBy(r, Tail(FromPassword(w)), held, u) <=> known /\ held["Cleartext-Password"] = {})
      /\ PushBy(r, FromAuthType(w), next, u) <=> known /\ set(next)
      /\ w # "ACTIVE" =>
           (PushBy(r, Tail(FromAuthType(w)), held, u) <=> known /\ set(held) /\ held["Auth-Type"] = {})
      /\ PushBy(r, FromExpiration, next, u) <=> known /\ set(next) /\ RightBy(next, u, "Auth-Type")
      /\ PushBy(r, Tail(FromExpiration), held, u) <=>
           known /\ set(held) /\ RightBy(held, u, "Auth-Type") /\ held["Expiration"] = {}
  BY <1>0, PushAt, Zenon
<1>2. /\ PushBy(r, FromRate, next, u) <=>
           known /\ set(next) /\ RightBy(next, u, "Auth-Type") /\ RightBy(next, u, "Expiration")
      /\ PushBy(r, Tail(FromRate), held, u) <=>
           known /\ set(held) /\ RightBy(held, u, "Auth-Type") /\ RightBy(held, u, "Expiration")
  <2>1. FromRate \in {FromRate, Tail(FromRate)} /\ Tail(FromRate) \in {FromRate, Tail(FromRate)}
    OBVIOUS
  <2> QED
    BY <2>1, PushAt, Zenon
<1>3. ASSUME NEW b \in Attributes, next[b] = held[b]
      PROVE  RightBy(next, u, b) <=> RightBy(held, u, b)
  BY <1>3, Zenon DEF RightBy
<1>4. /\ FromAuthType(w) # <<>> /\ FromExpiration # <<>> /\ FromRate # <<>>
  BY AuthTypeSteps, ExpirationSteps, RateSteps, Zenon
<1>5. \/ /\ r.kind # "update" /\ steps = Tail(FromPassword(w))
         /\ Head(steps) = <<"insertAttr", "Cleartext-Password">> /\ Tail(steps) = FromAuthType(w)
      \/ /\ w # "ACTIVE" /\ steps = Tail(FromAuthType(w)) /\ Head(steps) = <<"insertAttr", "Auth-Type">>
         /\ Tail(steps) = FromExpiration
      \/ /\ steps = Tail(FromExpiration) /\ Head(steps) = <<"insertAttr", "Expiration">>
         /\ Tail(steps) = FromRate
      \/ /\ steps = Tail(FromRate) /\ Head(steps) = <<"insertAttr", "Rate-Limit">>
         /\ Tail(steps) = <<>>
  <2>1. Head(steps) \notin {<<"deleteAttr", "Cleartext-Password">>, <<"deleteAttr", "Auth-Type">>,
                            <<"deleteAttr", "Expiration">>, <<"deleteAttr", "Rate-Limit">>}
    OBVIOUS
  <2>2. /\ Head(steps) # <<"deleteAttr", "Cleartext-Password">> /\ Head(steps) # <<"deleteAttr", "Auth-Type">>
        /\ Head(steps) # <<"deleteAttr", "Expiration">> /\ Head(steps) # <<"deleteAttr", "Rate-Limit">>
    BY <2>1
  <2> QED
    BY <2>2, Stages, Zenon
<1>6. CASE /\ r.kind # "update" /\ steps = Tail(FromPassword(w))
           /\ Head(steps) = <<"insertAttr", "Cleartext-Password">> /\ Tail(steps) = FromAuthType(w)
  <2>1. known /\ held["Cleartext-Password"] = {} /\ Head(steps)[2] = "Cleartext-Password"
    <3>1. Head(steps)[2] = "Cleartext-Password"
      BY <1>6, SecondNamed, Zenon
    <3> QED
      BY <1>1, <1>6, <3>1, Zenon
  <2>2. next["Cleartext-Password"] = {u.password}
    BY <1>6, <2>1 DEF Value
  <2>3. RightBy(next, u, "Cleartext-Password")
    BY <1>0, <1>6, <2>1, <2>2 DEF RightBy
  <2> QED
    BY <1>1, <1>4, <1>6, <2>1, <2>3, Zenon
<1>7. CASE /\ w # "ACTIVE" /\ steps = Tail(FromAuthType(w)) /\ Head(steps) = <<"insertAttr", "Auth-Type">>
           /\ Tail(steps) = FromExpiration
  <2>1. Head(steps)[2] = "Auth-Type"
    BY <1>7, SecondNamed, Zenon
  <2>2. known /\ set(held) /\ held["Auth-Type"] = {}
    BY <1>1, <1>7, Zenon
  <2>3. next["Auth-Type"] = {0} /\ next["Cleartext-Password"] = held["Cleartext-Password"]
    BY <2>1, <2>2, AttributesNamed DEF Value
  <2>4. RightBy(next, u, "Auth-Type")
    BY <1>0, <1>7, <2>3 DEF RightBy
  <2>5. set(next)
    BY <1>3, <2>2, <2>3, AttributesNamed, Zenon
  <2> QED
    BY <1>1, <1>4, <1>7, <2>1, <2>2, <2>3, <2>4, <2>5, Zenon
<1>8. CASE /\ steps = Tail(FromExpiration) /\ Head(steps) = <<"insertAttr", "Expiration">>
           /\ Tail(steps) = FromRate
  <2>1. Head(steps)[2] = "Expiration"
    BY <1>8, SecondNamed, Zenon
  <2>2. known /\ set(held) /\ RightBy(held, u, "Auth-Type") /\ held["Expiration"] = {}
    BY <1>1, <1>8, Zenon
  <2>3. /\ next["Expiration"] = {u.expires} /\ next["Cleartext-Password"] = held["Cleartext-Password"]
        /\ next["Auth-Type"] = held["Auth-Type"]
    BY <1>0, <2>1, <2>2, AttributesNamed DEF Value
  <2>4. RightBy(next, u, "Expiration")
    BY <2>3 DEF RightBy
  <2>5. set(next) /\ RightBy(next, u, "Auth-Type")
    BY <1>3, <2>2, <2>3, AttributesNamed, Zenon
  <2> QED
    BY <1>2, <1>4, <1>8, <2>1, <2>2, <2>3, <2>4, <2>5, Zenon
<1>9. CASE steps = Tail(FromRate) /\ Head(steps) = <<"insertAttr", "Rate-Limit">> /\ Tail(steps) = <<>>
  <2>1. Head(steps)[2] = "Rate-Limit"
    BY <1>9, SecondNamed, Zenon
  <2>2. known /\ set(held) /\ RightBy(held, u, "Auth-Type") /\ RightBy(held, u, "Expiration")
    BY <1>2, <1>9, Zenon
  <2>3. /\ next["Expiration"] = held["Expiration"] /\ next["Cleartext-Password"] = held["Cleartext-Password"]
        /\ next["Auth-Type"] = held["Auth-Type"]
    BY <2>1, AttributesNamed
  <2>4. set(next) /\ RightBy(next, u, "Auth-Type") /\ RightBy(next, u, "Expiration")
    BY <1>3, <2>2, <2>3, AttributesNamed, Zenon
  <2> QED
    BY <1>9, <2>1, <2>3, <2>4, Zenon
<1> QED
  BY <1>5, <1>6, <1>7, <1>8, <1>9, Zenon

\* What a request has to be in step with, by the statements it awaits.
LEMMA PushFitted ==
  ASSUME NEW r, NEW steps, PushAhead(r, steps), r.kind \in {"create", "update", "setPassword"},
         NEW held, NEW u
  PROVE  FitsBy(r, steps, held, u) <=> CopyBy(r, u) /\ PushBy(r, steps, held, u)
<1>1. ~Unwriting(steps) /\ Head(steps)[1] \in {"deleteAttr", "insertAttr"}
  BY PushSteps, Zenon
<1>2. Head(steps)[1] # "readPackage" /\ Head(steps)[1] # "deleteUser"
  BY <1>1
<1>3. steps # << <<"readPackage">> >> /\ steps # << <<"deleteUser", "radreply">> >>
  BY <1>2, HeadNamed, Zenon
<1>4. r.kind \notin {"revokePassword", "remove"}
  OBVIOUS
<1> QED
  BY <1>1, <1>3, <1>4, Zenon DEF FitsBy

LEMMA UnwritingFitted ==
  ASSUME NEW r, NEW steps, Unwriting(steps), NEW held, NEW u,
         r.kind \in {"update", "setPassword"} /\ Head(steps)[1] # "findOwned" => CopyBy(r, u)
  PROVE  FitsBy(r, steps, held, u)
<1>1. steps # << <<"readPackage">> >> /\ steps # << <<"deleteUser", "radreply">> >>
  <2>1. ~Unwriting(<< <<"readPackage">> >>)
    BY DEF Unwriting
  <2>2. ~Unwriting(<< <<"deleteUser", "radreply">> >>)
    BY DEF Unwriting
  <2> QED
    BY <2>1, <2>2, Zenon
<1>2. ~PushAhead(r, steps)
  BY PushSteps, Zenon
<1> QED
  BY <1>1, <1>2, Zenon DEF FitsBy

LEMMA ReadFitted ==
  ASSUME NEW r, r.kind \in {"create", "update", "setPassword"},
         NEW steps, steps = << <<"readPackage">> >>, NEW held, NEW u
  PROVE  FitsBy(r, steps, held, u) <=>
           CopyBy(r, u) /\ (r.kind # "update" => u.password = r.patch.password)
<1>1. ~Unwriting(steps)
  BY DEF Unwriting
<1>2. Head(steps)[1] = "readPackage"
  OBVIOUS
<1>3. ~PushAhead(r, steps)
  <2>1. Head(steps)[1] \notin {"deleteAttr", "insertAttr"}
    BY <1>2
  <2> QED
    BY <2>1, PushSteps, Zenon
<1>4. steps # << <<"deleteUser", "radreply">> >>
  <2>1. Head(steps)[1] # "deleteUser"
    BY <1>2
  <2> QED
    BY <2>1, HeadNamed, Zenon
<1>5. r.kind \notin {"revokePassword", "remove"}
  OBVIOUS
<1> QED
  BY <1>1, <1>3, <1>4, <1>5, Zenon DEF FitsBy

LEMMA WithdrawalFitted ==
  ASSUME NEW r, r.kind \in {"revokePassword", "remove"}, NEW steps, ~Unwriting(steps),
         Head(steps)[1] = "deleteUser", NEW held, NEW u
  PROVE  FitsBy(r, steps, held, u) <=>
           /\ u.state # "live" \/ u.password = 0
           /\ steps = << <<"deleteUser", "radreply">> >> => held["Cleartext-Password"] = {}
<1>1. steps # << <<"readPackage">> >>
  <2>1. Head(steps)[1] # "readPackage"
    OBVIOUS
  <2> QED
    BY <2>1, HeadNamed, Zenon
<1>2. ~PushAhead(r, steps)
  <2>1. Head(steps)[1] \notin {"deleteAttr", "insertAttr"}
    OBVIOUS
  <2> QED
    BY <2>1, PushSteps, Zenon
<1> QED
  BY <1>1, <1>2, Zenon DEF FitsBy

\* A request about s arrives: with rivals beside it s is disturbed and none of
\* them is clean, without any it is clean.
LEMMA LoginArrives ==
  ASSUME LoginInv, NEW p \in Requests, NEW s \in Subscribers, req[p].subs = {}, req'[p].subs = {s},
         \A q \in Requests \ {p} : req'[q] = req[q] /\ todo'[q] = todo[q],
         row' = row, aaa' = aaa,
         \A held, u : FitsBy(req'[p], todo'[p], held, u),
         disturbed' = disturbed \union Namesakes(s) \union IF Rivals(s) = {} THEN {} ELSE {s},
         clean' = IF Rivals(s) = {} THEN clean \union {p} ELSE clean \ Rivals(s)
  PROVE  LoginInv'
<1> DEFINE P == "Cleartext-Password"
           alone == Rivals(s) = {}
<1>1. /\ \A q \in clean : \E t \in Subscribers :
           /\ q \in Requests /\ req[q].subs = {t}
           /\ \A x \in Requests : About(req[x], t) => x = q
      /\ \A t \in Subscribers \ disturbed : \A q \in Requests :
           About(req[q], t) => req[q].subs = {t} /\ q \in clean
      /\ \A q \in clean : \A t \in req[q].subs : FitsBy(req[q], todo[q], aaa[UserOf[t]], row[t])
      /\ \A t \in Subscribers \ disturbed :
           (\A q \in Requests : About(req[q], t) => Unwriting(todo[q])) => GoodBy(aaa[UserOf[t]], row[t])
      /\ \A t \in Subscribers \ disturbed : \A q \in Requests :
           About(req[q], t) /\ req[q].kind = "update" => RightBy(aaa[UserOf[t]], row[t], P)
  BY LoginParts, Zenon
<1> HIDE DEF P
<1>2. \A t \in Subscribers : /\ About(req'[p], t) <=> UserOf[t] = UserOf[s]
                             /\ ~About(req[p], t)
  BY DEF About
<1>3. \A q \in Requests, t \in Subscribers : q # p => (About(req'[q], t) <=> About(req[q], t))
  BY Zenon
<1>4. /\ \A q : q \in Rivals(s) <=> q \in Requests /\ About(req[q], s)
      /\ alone => \A q \in Requests : ~About(req[q], s)
  BY DEF Rivals, About
<1>5. \A q : q \in clean' => q \in Requests
  <2>1. \A q \in clean : q \in Requests
    BY <1>1, Zenon
  <2> QED
    BY <2>1
<1>6. /\ \A q \in clean' : (q = p /\ alone) \/ (q # p /\ q \in clean)
      /\ ~alone => \A q \in clean' : ~About(req[q], s)
  <2>1. p \notin clean
    <3> SUFFICES ASSUME p \in clean
                 PROVE  FALSE
      OBVIOUS
    <3>1. PICK t \in Subscribers : req[p].subs = {t}
      BY <1>1, Zenon
    <3> QED
      BY <3>1
  <2>2. \A q \in clean' : (q = p /\ alone) \/ (q # p /\ q \in clean)
    BY <2>1
  <2>3. ~alone => \A q \in clean' : q \notin Rivals(s)
    OBVIOUS
  <2> QED
    BY <1>4, <1>5, <2>2, <2>3, Zenon
<1>7. \A t \in Subscribers \ disturbed' :
        t \notin disturbed /\ (UserOf[t] = UserOf[s] => t = s /\ alone)
  BY DEF Namesakes, RowsOf
<1>8. ASSUME NEW t \in Subscribers, NEW q \in Requests, About(req[q], t), UserOf[t] = UserOf[s]
      PROVE  About(req[q], s)
  BY <1>8, Zenon DEF About
<1>9. ASSUME NEW q \in clean'
      PROVE  \E t \in Subscribers : /\ q \in Requests /\ req'[q].subs = {t}
                                    /\ \A x \in Requests : About(req'[x], t) => x = q
  <2>1. CASE q = p /\ alone
    <3>1. \A x \in Requests : About(req'[x], s) => x = p
      BY <1>3, <1>4, <2>1, Zenon
    <3> QED
      BY <2>1, <3>1, Zenon
  <2>2. CASE q # p /\ q \in clean
    <3>1. PICK t \in Subscribers : /\ q \in Requests /\ req[q].subs = {t}
                                   /\ \A x \in Requests : About(req[x], t) => x = q
      BY <1>1, <2>2, Zenon
    <3>2. req'[q].subs = {t}
      BY <2>2, <3>1, Zenon
    <3>3. About(req[q], t)
      BY <3>1 DEF About
    <3>4. UserOf[t] # UserOf[s]
      <4> SUFFICES ASSUME UserOf[t] = UserOf[s]
                   PROVE  FALSE
        OBVIOUS
      <4>1. About(req[q], s)
        BY <1>8, <3>1, <3>3, Zenon
      <4>2. alone
        BY <1>6, <4>1, Zenon
      <4> QED
        BY <1>4, <3>1, <4>1, <4>2, Zenon
    <3>5. \A x \in Requests : About(req'[x], t) => x = q
      BY <1>2, <1>3, <3>1, <3>4, Zenon
    <3> QED
      BY <3>1, <3>2, <3>5, Zenon
  <2> QED
    BY <1>6, <2>1, <2>2, Zenon
<1>10. ASSUME NEW t \in Subscribers \ disturbed', NEW q \in Requests, About(req'[q], t)
       PROVE  req'[q].subs = {t} /\ q \in clean'
  <2>1. CASE q = p
    <3>1. t = s /\ alone
      BY <1>2, <1>7, <1>10, <2>1, Zenon
    <3> QED
      BY <2>1, <3>1
  <2>2. CASE q # p
    <3>1. /\ About(req[q], t) /\ req[q].subs = {t} /\ q \in clean /\ req'[q] = req[q]
      BY <1>1, <1>3, <1>7, <1>10, <2>2, Zenon
    <3>2. ASSUME q \in Rivals(s)
          PROVE  alone
      <4>1. About(req[q], s)
        BY <1>4, <3>2, Zenon
      <4>2. UserOf[t] = UserOf[s]
        BY <3>1, <4>1 DEF About
      <4> QED
        BY <1>7, <4>2, Zenon
    <3> QED
      BY <3>1, <3>2
  <2> QED
    BY <2>1, <2>2, Zenon
<1>11. ASSUME NEW q \in clean', NEW t \in req'[q].subs
       PROVE  FitsBy(req'[q], todo'[q], aaa'[UserOf[t]], row'[t])
  <2>1. CASE q = p
    BY <2>1, Zenon
  <2>2. CASE q # p /\ q \in clean
    <3>1. req'[q] = req[q] /\ todo'[q] = todo[q] /\ t \in req[q].subs
      BY <1>5, <1>11, <2>2, Zenon
    <3> QED
      BY <1>1, <2>2, <3>1, Zenon
  <2> QED
    BY <1>6, <2>1, <2>2, Zenon
<1>12. ASSUME NEW t \in Subscribers \ disturbed',
              \A q \in Requests : About(req'[q], t) => Unwriting(todo'[q])
       PROVE  GoodBy(aaa'[UserOf[t]], row'[t])
  <2>1. \A q \in Requests : About(req[q], t) => Unwriting(todo[q])
    <3> TAKE q \in Requests
    <3> HAVE About(req[q], t)
    <3>1. q # p
      BY <1>2, Zenon
    <3>2. About(req'[q], t) /\ todo'[q] = todo[q]
      BY <1>3, <3>1, Zenon
    <3> QED
      BY <1>12, <3>2, Zenon
  <2> QED
    BY <1>1, <1>7, <2>1, Zenon
<1>13. ASSUME NEW t \in Subscribers \ disturbed', NEW q \in Requests,
              About(req'[q], t), req'[q].kind = "update"
       PROVE  RightBy(aaa'[UserOf[t]], row'[t], P)
  <2>1. CASE q = p
    <3>1. t = s /\ alone /\ t \notin disturbed
      BY <1>2, <1>7, <1>13, <2>1, Zenon
    <3>2. GoodBy(aaa[UserOf[t]], row[t])
      BY <1>1, <1>4, <3>1, Zenon
    <3> QED
      BY <3>2, Zenon DEF GoodBy, P
  <2>2. CASE q # p
    <3>1. About(req[q], t) /\ req[q].kind = "update" /\ t \notin disturbed
      BY <1>3, <1>7, <1>13, <2>2, Zenon
    <3> QED
      BY <1>1, <3>1, Zenon
  <2> QED
    BY <2>1, <2>2, Zenon
<1> QED
  BY <1>9, <1>10, <1>11, <1>12, <1>13, LoginWhole, Zenon DEF P

LEMMA LoginArrival ==
  ASSUME AccountsTypeOK, RequestsFit, LoginInv, NEW p \in Requests, Arrive(p)
  PROVE  LoginInv'
<1>1. ASSUME NEW r, NEW steps, Admit(p, r, steps)
      PROVE  /\ req[p].subs = {}
             /\ req'[p] = r /\ todo'[p] = steps
             /\ \A q \in Requests \ {p} : req'[q] = req[q] /\ todo'[q] = todo[q]
             /\ row' = row /\ aaa' = aaa
  <2>1. /\ req' = [req EXCEPT ![p] = r] /\ todo' = [todo EXCEPT ![p] = steps]
        /\ row' = row /\ aaa' = aaa /\ req[p].kind = "idle"
    BY <1>1, Zenon DEF Admit, Busy
  <2>2. req[p] = Idle
    <3>1. RequestFits(req[p], todo[p])
      BY Zenon DEF RequestsFit
    <3>2. ~PlainFits(req[p], todo[p])
      BY <2>1 DEF PlainFits
    <3>3. ~OneFits(req[p], todo[p])
      <4>1. ~PatchFits(req[p])
        BY <2>1 DEF PatchFits
      <4> QED
        BY <4>1, Zenon DEF OneFits
    <3> QED
      BY <3>1, <3>2, <3>3, Zenon DEF RequestFits
  <2>3. req[p].subs = {}
    BY <2>2 DEF Idle
  <2> QED
    BY <2>1, <2>3, Replaced, Zenon
<1>2. ASSUME NEW r, NEW steps, AdmitPlain(p, r, steps), r.subs = {}
      PROVE  LoginInv'
  <2>1. Admit(p, r, steps) /\ disturbed' = disturbed /\ clean' = clean
    BY <1>2 DEF AdmitPlain
  <2> QED
    BY <1>1, <1>2, <2>1, LoginPlain, Zenon
<1>3. ASSUME NEW kind, NEW k, NEW patch, NEW steps, NEW s \in Subscribers,
             AdmitOne(p, kind, s, k, patch, steps),
             OneFits(OneRequest(kind, s, k, patch), steps),
             \/ kind = "create" /\ Head(steps)[1] = "assertPackage"
             \/ kind # "create" /\ Head(steps)[1] = "findOwned"
      PROVE  LoginInv'
  <2> DEFINE r == OneRequest(kind, s, k, patch)
  <2>1. /\ Admit(p, r, steps)
        /\ disturbed' = disturbed \union Namesakes(s) \union IF Rivals(s) = {} THEN {} ELSE {s}
        /\ clean' = IF Rivals(s) = {} THEN clean \union {p} ELSE clean \ Rivals(s)
    BY <1>3, Zenon DEF AdmitOne, OneRequest
  <2>2. r.kind = kind /\ r.subs = {s}
    BY DEF OneRequest
  <2> HIDE DEF r
  <2>3. Unwriting(steps)
    <3>1. Head(steps)[1] \notin {"readPackage", "deleteAttr", "insertAttr", "deleteUser"}
      BY <1>3
    <3> QED
      BY <1>3, <3>1, OneSteps, Zenon DEF r
  <2>4. r.kind \in {"update", "setPassword"} /\ Head(steps)[1] # "findOwned" => FALSE
    BY <1>3, <2>2
  <2>5. \A held, u : FitsBy(r, steps, held, u)
    BY <2>3, <2>4, UnwritingFitted, Zenon
  <2>6. \A held, u : FitsBy(req'[p], todo'[p], held, u)
    BY <1>1, <2>1, <2>5, Zenon
  <2>7. /\ req[p].subs = {} /\ req'[p].subs = {s} /\ row' = row /\ aaa' = aaa
        /\ \A q \in Requests \ {p} : req'[q] = req[q] /\ todo'[q] = todo[q]
    BY <1>1, <2>1, <2>2, Zenon
  <2> QED
    BY <2>1, <2>6, <2>7, LoginArrives, Zenon
<1>4. CASE \E r, steps : AdmitPlain(p, r, steps) /\ r.subs = {}
  BY <1>2, <1>4, Zenon
<1>5. CASE \E kind, k, patch, steps : \E s \in Subscribers :
              /\ AdmitOne(p, kind, s, k, patch, steps)
              /\ OneFits(OneRequest(kind, s, k, patch), steps)
              /\ \/ kind = "create" /\ Head(steps)[1] = "assertPackage"
                 \/ kind # "create" /\ Head(steps)[1] = "findOwned"
  <2>1. PICK kind, k, patch, steps : \E s \in Subscribers :
              /\ AdmitOne(p, kind, s, k, patch, steps)
              /\ OneFits(OneRequest(kind, s, k, patch), steps)
              /\ \/ kind = "create" /\ Head(steps)[1] = "assertPackage"
                 \/ kind # "create" /\ Head(steps)[1] = "findOwned"
    BY <1>5, Zenon
  <2>2. PICK s \in Subscribers :
              /\ AdmitOne(p, kind, s, k, patch, steps)
              /\ OneFits(OneRequest(kind, s, k, patch), steps)
              /\ \/ kind = "create" /\ Head(steps)[1] = "assertPackage"
                 \/ kind # "create" /\ Head(steps)[1] = "findOwned"
    BY <2>1, Zenon
  <2> QED
    BY <1>3, <2>2
<1> QED
  BY <1>4, <1>5, Arrives, Zenon

\* How a request goes on, or ends.
LEMMA GoesOn ==
  ASSUME AccountsTypeOK, NEW p \in Requests, NEW r, NEW rest, Proceed(p, r, rest), rest # <<>>
  PROVE  /\ req'[p] = r /\ todo'[p] = rest
         /\ \A q \in Requests \ {p} : req'[q] = req[q] /\ todo'[q] = todo[q]
         /\ clean' = clean /\ disturbed' = disturbed
<1>1. clean' = clean /\ disturbed' = disturbed
  BY DEF Proceed
<1>2. /\ req'[p] = (IF rest = <<>> THEN Idle ELSE r) /\ todo'[p] = rest
      /\ \A q \in Requests \ {p} : req'[q] = req[q] /\ todo'[q] = todo[q]
  BY RequestStep, Zenon
<1> QED
  BY <1>1, <1>2

LEMMA Refused ==
  ASSUME AccountsTypeOK, NEW p \in Requests, Refuse(p)
  PROVE  /\ req'[p].subs = {}
         /\ \A q \in Requests \ {p} : req'[q] = req[q] /\ todo'[q] = todo[q]
         /\ clean' = clean \ {p} /\ disturbed' = disturbed
<1>1. clean' = clean \ {p} /\ disturbed' = disturbed
  BY DEF Refuse
<1>2. Idle.subs = {}
  BY DEF Idle
<1> QED
  BY <1>1, <1>2, EndStep, Zenon

LEMMA Done ==
  ASSUME AccountsTypeOK, NEW p \in Requests, Next1(p), Tail(todo[p]) = <<>>
  PROVE  /\ req'[p].subs = {}
         /\ \A q \in Requests \ {p} : req'[q] = req[q] /\ todo'[q] = todo[q]
         /\ clean' = clean \ {p}
         /\ disturbed' = IF Whole(p) THEN disturbed \ req[p].subs ELSE disturbed
<1>1. clean' = clean \ {p} /\ disturbed' = IF Whole(p) THEN disturbed \ req[p].subs ELSE disturbed
  BY DEF Next1, Proceed
<1>2. Idle.subs = {}
  BY DEF Idle
<1> QED
  BY <1>1, <1>2, DoneStep, Zenon

\* A request of its own is refused, or fails, before it has written anything or
\* while it is not alone.
LEMMA LoginRefused ==
  ASSUME LoginInv, NEW p \in Requests, NEW s \in Subscribers, req[p].subs = {s},
         req'[p].subs = {}, clean' = clean \ {p},
         \A q \in Requests \ {p} : req'[q] = req[q] /\ todo'[q] = todo[q],
         row' = row, aaa' = aaa, disturbed \subseteq disturbed',
         p \in clean /\ s \notin disturbed' => Unwriting(todo[p])
  PROVE  LoginInv'
<1>1. ASSUME s \notin disturbed', p \in clean
      PROVE  GoodBy(aaa'[UserOf[s]], row'[s])
  <2>1. PICK t \in Subscribers : req[p].subs = {t} /\ \A q \in Requests : About(req[q], t) => q = p
    BY <1>1, LoginParts, Zenon
  <2>2. t = s
    BY <2>1
  <2>3. \A q \in Requests : About(req[q], s) => Unwriting(todo[q])
    BY <1>1, <2>1, <2>2, Zenon
  <2>4. s \notin disturbed
    BY <1>1
  <2>5. GoodBy(aaa[UserOf[s]], row[s])
    BY <2>3, <2>4, LoginParts, Zenon
  <2> QED
    BY <2>5, Zenon
<1>2. /\ \A t \in Subscribers \ {s} : t \in disturbed => t \in disturbed'
      /\ \A t \in Subscribers \ {s} : row'[t] = row[t]
      /\ \A u \in Users : u # UserOf[s] => aaa'[u] = aaa[u]
      /\ s \notin disturbed' => s \notin disturbed \/ p \in clean
  OBVIOUS
<1> QED
  BY <1>1, <1>2, LoginEnds, Zenon

LEMMA LoginPlainDone ==
  ASSUME AccountsTypeOK, LoginInv, NEW p \in Requests, req[p].subs = {},
         Next1(p) \/ Refuse(p), aaa' = aaa,
         \A s \in Subscribers :
           /\ row'[s].state = row[s].state /\ row'[s].status = row[s].status
           /\ row'[s].password = row[s].password /\ row'[s].expires = row[s].expires
  PROVE  LoginInv'
<1>1. CASE Next1(p) /\ Tail(todo[p]) = <<>>
  <2>1. /\ req'[p].subs = {}
        /\ \A q \in Requests \ {p} : req'[q] = req[q] /\ todo'[q] = todo[q]
        /\ clean' = clean \ {p}
        /\ disturbed' = IF Whole(p) THEN disturbed \ req[p].subs ELSE disturbed
    BY <1>1, Done, Zenon
  <2>2. disturbed' = disturbed
    BY <2>1
  <2> QED
    BY <2>1, <2>2, LoginPlain, Zenon
<1>2. CASE Next1(p) /\ Tail(todo[p]) # <<>>
  <2>1. Proceed(p, req[p], Tail(todo[p]))
    BY <1>2, Zenon DEF Next1
  <2>2. /\ req'[p] = req[p]
        /\ \A q \in Requests \ {p} : req'[q] = req[q] /\ todo'[q] = todo[q]
        /\ clean' = clean /\ disturbed' = disturbed
    BY <1>2, <2>1, GoesOn, Zenon
  <2> QED
    BY <2>2, LoginPlain, Zenon
<1>3. CASE Refuse(p)
  BY <1>3, Refused, LoginPlain, Zenon
<1> QED
  BY <1>1, <1>2, <1>3, Zenon

\* A request of its own goes on, its row still unwritten.
LEMMA LoginUnwritten ==
  ASSUME AccountsTypeOK, LoginInv, NEW p \in Requests, NEW s \in Subscribers, req[p].subs = {s},
         NEW r, NEW rest, Proceed(p, r, rest), rest # <<>>, r.subs = {s}, r.kind = req[p].kind,
         Unwriting(todo[p]), Unwriting(rest), row' = row, aaa' = aaa,
         p \in clean /\ r.kind \in {"update", "setPassword"} => CopyBy(r, row[s])
  PROVE  LoginInv'
<1>1. /\ req'[p] = r /\ todo'[p] = rest
      /\ \A q \in Requests \ {p} : req'[q] = req[q] /\ todo'[q] = todo[q]
      /\ clean' = clean /\ disturbed' = disturbed
  BY GoesOn, Zenon
<1>2. p \in clean => FitsBy(r, rest, aaa[UserOf[s]], row[s])
  BY UnwritingFitted, Zenon
<1>3. p \in clean => FitsBy(req'[p], todo'[p], aaa'[UserOf[s]], row'[s])
  BY <1>1, <1>2, Zenon
<1>4. req'[p].subs = {s} /\ req'[p].kind = req[p].kind
  BY <1>1, Zenon
<1> QED
  BY <1>1, <1>3, <1>4, LoginGoesOn, Zenon

LEMMA CleanNow ==
  ASSUME LoginInv, NEW p \in clean, NEW s, req[p].subs = {s}
  PROVE  FitsBy(req[p], todo[p], aaa[UserOf[s]], row[s])
<1>1. s \in req[p].subs
  OBVIOUS
<1> QED
  BY <1>1, LoginParts, Zenon

\* Before its row is written, a request leaves it in step with what it found.
LEMMA CleanUnwritten ==
  ASSUME LoginInv, NEW p \in clean, NEW s, req[p].subs = {s}, Unwriting(todo[p]),
         req[p].kind \in {"update", "setPassword"}, Head(todo[p])[1] # "findOwned"
  PROVE  CopyBy(req[p], row[s])
BY CleanNow, Zenon DEF FitsBy

\* A request that awaits something before the write of its row awaits the
\* write after it.
LEMMA StillUnwriting ==
  ASSUME NEW r, NEW steps, WriteAhead(r, steps),
         Head(steps)[1] # "insertRow", Head(steps)[1] # "updateRow"
  PROVE  Tail(steps) # <<>> /\ Unwriting(Tail(steps))
<1> DEFINE t1 == << <<"findExisting">>, <<"insertRow">>, <<"readPackage">> >>
           t2 == << <<"insertRow">>, <<"readPackage">> >>
           t3 == << <<"assertPackage">>, <<"updateRow">>, <<"readPackage">> >>
           t4 == << <<"updateRow">>, <<"readPackage">> >>
           t5 == << <<"updateRow">>, <<"deleteUser", "radcheck">>, <<"deleteUser", "radreply">> >>
<1>1. t1 # <<>> /\ Unwriting(t1)
  <2>1. t1 # <<>> /\ 2 \in DOMAIN t1 /\ t1[2][1] = "insertRow"
    OBVIOUS
  <2> HIDE DEF t1
  <2> QED
    BY <2>1, Zenon DEF Unwriting
<1>2. t2 # <<>> /\ Unwriting(t2)
  <2>1. t2 # <<>> /\ 1 \in DOMAIN t2 /\ t2[1][1] = "insertRow"
    OBVIOUS
  <2> HIDE DEF t2
  <2> QED
    BY <2>1, Zenon DEF Unwriting
<1>3. t3 # <<>> /\ Unwriting(t3)
  <2>1. t3 # <<>> /\ 2 \in DOMAIN t3 /\ t3[2][1] = "updateRow"
    OBVIOUS
  <2> HIDE DEF t3
  <2> QED
    BY <2>1, Zenon DEF Unwriting
<1>4. t4 # <<>> /\ Unwriting(t4)
  <2>1. t4 # <<>> /\ 1 \in DOMAIN t4 /\ t4[1][1] = "updateRow"
    OBVIOUS
  <2> HIDE DEF t4
  <2> QED
    BY <2>1, Zenon DEF Unwriting
<1>5. t5 # <<>> /\ Unwriting(t5)
  <2>1. t5 # <<>> /\ 1 \in DOMAIN t5 /\ t5[1][1] = "updateRow"
    OBVIOUS
  <2> HIDE DEF t5
  <2> QED
    BY <2>1, Zenon DEF Unwriting
<1>6. Tail(Withdrawal) = t5
  BY DEF Withdrawal
<1>7. \/ Tail(steps) = t1 \/ Tail(steps) = t2 \/ Tail(steps) = t3 \/ Tail(steps) = t4
      \/ Tail(steps) = Tail(Withdrawal)
  BY WriteSteps, Zenon
<1> HIDE DEF t1, t2, t3, t4, t5
<1> QED
  BY <1>1, <1>2, <1>3, <1>4, <1>5, <1>6, <1>7, Zenon

\* The statements before the write of the row.
LEMMA LoginAhead ==
  ASSUME AccountsTypeOK, RequestsFit, LoginInv, NEW p \in Requests,
         AssertPackage(p) \/ FindExisting(p) \/ FindOwned(p)
  PROVE  LoginInv'
<1> DEFINE named == Head(todo[p])[1]
<1>1. /\ row' = row /\ aaa' = aaa /\ todo[p] # <<>>
      /\ named \in {"assertPackage", "findExisting", "findOwned"}
  BY DEF AssertPackage, FindExisting, FindOwned, Awaits
<1>2. \/ Refuse(p)
      \/ named # "findOwned" /\ Next1(p)
      \/ \E t \in req[p].subs : named = "findOwned" /\ row[t].state = "live"
                                  /\ Proceed(p, [req[p] EXCEPT !.copy = row[t]], Tail(todo[p]))
  BY DEF AssertPackage, FindExisting, FindOwned, Guarded, Awaits
<1> HIDE DEF named
<1>3. CASE req[p].subs = {}
  <2>1. Next1(p) \/ Refuse(p)
    BY <1>2, <1>3
  <2> QED
    BY <1>1, <1>3, <2>1, LoginPlainDone, Zenon
<1>4. ASSUME NEW s \in Subscribers, req[p].subs = {s}, OneFits(req[p], todo[p])
      PROVE  LoginInv'
  <2>1. /\ Unwriting(todo[p]) /\ WriteAhead(req[p], todo[p])
        /\ DOMAIN req[p] = {"kind", "subs", "package", "patch", "copy"}
    <3>1. named \notin {"readPackage", "deleteAttr", "insertAttr", "deleteUser"}
      BY <1>1
    <3> QED
      BY <1>4, <3>1, OneSteps, Zenon DEF named
  <2>2. CASE Refuse(p)
    <3>1. /\ req'[p].subs = {}
          /\ \A q \in Requests \ {p} : req'[q] = req[q] /\ todo'[q] = todo[q]
          /\ clean' = clean \ {p} /\ disturbed' = disturbed
      BY <2>2, Refused, Zenon
    <3>2. disturbed \subseteq disturbed'
      BY <3>1
    <3> QED
      BY <1>1, <1>4, <2>1, <3>1, <3>2, LoginRefused, Zenon
  <2>3. Tail(todo[p]) # <<>> /\ Unwriting(Tail(todo[p]))
    <3>1. named # "insertRow" /\ named # "updateRow"
      BY <1>1
    <3> QED
      BY <2>1, <3>1, StillUnwriting, Zenon DEF named
  <2>4. CASE named # "findOwned" /\ Next1(p)
    <3>1. Proceed(p, req[p], Tail(todo[p]))
      BY <2>4, Zenon DEF Next1
    <3>2. p \in clean /\ req[p].kind \in {"update", "setPassword"} => CopyBy(req[p], row[s])
      BY <1>4, <2>1, <2>4, CleanUnwritten, Zenon DEF named
    <3> QED
      BY <1>1, <1>4, <2>1, <2>3, <3>1, <3>2, LoginUnwritten, Zenon
  <2>5. ASSUME NEW t \in req[p].subs, row[t].state = "live",
               Proceed(p, [req[p] EXCEPT !.copy = row[t]], Tail(todo[p]))
        PROVE  LoginInv'
    <3> DEFINE n == [req[p] EXCEPT !.copy = row[t]]
    <3>1. t = s
      BY <1>4, <2>5
    <3>2. n.copy = row[t] /\ n.kind = req[p].kind /\ n.subs = req[p].subs
      BY <2>1, CopyOnly, Zenon
    <3>3. Proceed(p, n, Tail(todo[p]))
      BY <2>5, Zenon
    <3> HIDE DEF n
    <3>4. CopyBy(n, row[s])
      BY <2>5, <3>1, <3>2, Zenon DEF CopyBy
    <3>5. n.subs = {s}
      BY <1>4, <3>2, Zenon
    <3> QED
      BY <1>1, <1>4, <2>1, <2>3, <3>2, <3>3, <3>4, <3>5, LoginUnwritten, Zenon
  <2> QED
    BY <1>2, <2>2, <2>4, <2>5, Zenon
<1> QED
  BY <1>1, <1>3, <1>4, WhoAwaits, Zenon

LEMMA OneCopied ==
  ASSUME NEW r, NEW steps, OneFits(r, steps), NEW c
  PROVE  LET n == [r EXCEPT !.copy = c]
         IN n.copy = c /\ n.kind = r.kind /\ n.subs = r.subs /\ n.patch = r.patch
<1>1. DOMAIN r = {"kind", "subs", "package", "patch", "copy"}
  BY OneSteps, Zenon
<1> QED
  BY <1>1, CopyOnly, Zenon

\* The row is written: the copy is the row, or what it was before but for the
\* password; what FreeRADIUS holds is left behind.
LEMMA LoginInsertRow ==
  ASSUME AccountsTypeOK, RequestsFit, LoginInv, NEW p \in Requests, InsertRow(p)
  PROVE  LoginInv'
<1> DEFINE n == [req[p] EXCEPT !.copy = req[p].patch]
           rest == << <<"readPackage">> >>
<1>1. aaa' = aaa
  BY Zenon DEF InsertRow
<1>2. PICK s \in Subscribers :
        /\ req[p].subs = {s} /\ OneFits(req[p], todo[p]) /\ Unwriting(todo[p])
        /\ req[p].kind = "create" /\ Tail(todo[p]) = rest
        /\ req[p].patch \in Accounts /\ req[p].patch.state = "live"
        /\ \/ /\ row'[s] = req[p].patch /\ \A t \in Subscribers \ {s} : row'[t] = row[t]
              /\ Proceed(p, n, Tail(todo[p]))
           \/ Refuse(p) /\ row' = row
  BY InsertRowStep, Zenon
<1>3. CASE Refuse(p) /\ row' = row
  <2>1. /\ req'[p].subs = {}
        /\ \A q \in Requests \ {p} : req'[q] = req[q] /\ todo'[q] = todo[q]
        /\ clean' = clean \ {p} /\ disturbed' = disturbed
    BY <1>3, Refused, Zenon
  <2>2. disturbed \subseteq disturbed'
    BY <2>1
  <2> QED
    BY <1>1, <1>2, <1>3, <2>1, <2>2, LoginRefused, Zenon
<1>4. CASE /\ row'[s] = req[p].patch /\ \A t \in Subscribers \ {s} : row'[t] = row[t]
           /\ Proceed(p, n, Tail(todo[p]))
  <2>1. n.copy = req[p].patch /\ n.kind = req[p].kind /\ n.subs = req[p].subs /\ n.patch = req[p].patch
    BY <1>2, OneCopied, Zenon
  <2> HIDE DEF n
  <2>2. rest # <<>> /\ ~Unwriting(rest)
    BY DEF Unwriting
  <2>3. CopyBy(n, row'[s]) /\ row'[s].password = n.patch.password
    BY <1>2, <1>4, <2>1, Zenon DEF CopyBy
  <2>4. n.kind \in {"create", "update", "setPassword"} /\ n.kind = "create"
    BY <1>2, <2>1
  <2>5. FitsBy(n, rest, aaa'[UserOf[s]], row'[s])
    BY <2>3, <2>4, ReadFitted
  <2> HIDE DEF rest
  <2>6. /\ req'[p] = n /\ todo'[p] = rest
        /\ \A q \in Requests \ {p} : req'[q] = req[q] /\ todo'[q] = todo[q]
        /\ clean' = clean /\ disturbed' = disturbed
    <3>1. Proceed(p, n, rest)
      BY <1>2, <1>4, Zenon
    <3> QED
      BY <2>2, <3>1, GoesOn, Zenon
  <2>7. req'[p].subs = {s} /\ req'[p].kind = req[p].kind /\ req[p].kind # "update"
    BY <1>2, <2>1, <2>4, <2>6, Zenon
  <2>8. FitsBy(req'[p], todo'[p], aaa'[UserOf[s]], row'[s]) /\ ~Unwriting(todo'[p])
    BY <2>2, <2>5, <2>6, Zenon
  <2>9. \A u \in Users : u # UserOf[s] => aaa'[u] = aaa[u]
    BY <1>1
  <2> QED
    BY <1>2, <1>4, <2>6, <2>7, <2>8, <2>9, LoginGoesOn, Zenon
<1> QED
  BY <1>2, <1>3, <1>4, Zenon

LEMMA LoginUpdateRow ==
  ASSUME AccountsTypeOK, RequestsFit, LoginInv, NEW p \in Requests, UpdateRow(p)
  PROVE  LoginInv'
<1>1. aaa' = aaa
  BY Zenon DEF UpdateRow
<1>2. PICK s \in Subscribers : \E c \in Accounts :
        /\ req[p].subs = {s} /\ OneFits(req[p], todo[p])
        /\ Unwriting(todo[p]) /\ PatchFits(req[p]) /\ Head(todo[p])[1] = "updateRow"
        /\ \/ req[p].kind \in {"update", "setPassword"} /\ Tail(todo[p]) = << <<"readPackage">> >>
           \/ req[p].kind \in {"revokePassword", "remove"} /\ Tail(todo[p]) = Tail(Tail(Withdrawal))
        /\ row'[s] = Patched(row[s], req[p].patch)
        /\ \A t \in Subscribers \ {s} : row'[t] = row[t]
        /\ c = (IF req[p].kind = "update" THEN row'[s] ELSE req[p].copy)
        /\ Proceed(p, [req[p] EXCEPT !.copy = c], Tail(todo[p]))
  BY UpdateRowStep, Zenon
<1>3. PICK c \in Accounts :
        /\ req[p].subs = {s} /\ OneFits(req[p], todo[p])
        /\ Unwriting(todo[p]) /\ PatchFits(req[p]) /\ Head(todo[p])[1] = "updateRow"
        /\ \/ req[p].kind \in {"update", "setPassword"} /\ Tail(todo[p]) = << <<"readPackage">> >>
           \/ req[p].kind \in {"revokePassword", "remove"} /\ Tail(todo[p]) = Tail(Tail(Withdrawal))
        /\ row'[s] = Patched(row[s], req[p].patch)
        /\ \A t \in Subscribers \ {s} : row'[t] = row[t]
        /\ c = (IF req[p].kind = "update" THEN row'[s] ELSE req[p].copy)
        /\ Proceed(p, [req[p] EXCEPT !.copy = c], Tail(todo[p]))
  BY <1>2, Zenon
<1> DEFINE n == [req[p] EXCEPT !.copy = c]
           rest == Tail(todo[p])
           u == row[s]
           v == row'[s]
<1>4. /\ n.copy = c /\ n.kind = req[p].kind /\ n.subs = req[p].subs /\ n.patch = req[p].patch
  <2>1. OneFits(req[p], todo[p])
    BY <1>3, Zenon
  <2> QED
    BY <2>1, OneCopied, Zenon
<1>5. Proceed(p, n, rest)
  BY <1>3, Zenon
<1> HIDE DEF n
<1>6. u \in Accounts /\ req[p].kind # "create"
  BY <1>3 DEF AccountsTypeOK
<1>7. /\ req[p].kind = "update" => v.state = u.state /\ v.password = u.password
      /\ req[p].kind = "setPassword" => v = [u EXCEPT !.password = req[p].patch.password]
      /\ req[p].kind = "revokePassword" => v = [u EXCEPT !.password = 0]
      /\ req[p].kind = "remove" => v = [u EXCEPT !.state = "removed"]
  <2> DEFINE x == Patched(u, req[p].patch)
  <2>1. /\ req[p].kind = "update" => x.state = u.state /\ x.password = u.password
        /\ req[p].kind = "setPassword" => x = [u EXCEPT !.password = req[p].patch.password]
        /\ req[p].kind = "revokePassword" => x = [u EXCEPT !.password = 0]
        /\ req[p].kind = "remove" => x = [u EXCEPT !.state = "removed"]
    <3> HIDE DEF u
    <3> QED
      BY <1>3, <1>6, PatchedRow, Zenon
  <2>2. v = x
    BY <1>3
  <2> HIDE DEF x, u, v
  <2> QED
    BY <2>1, <2>2, Zenon
<1> HIDE DEF u, v, rest
<1>8. rest # <<>> /\ ~Unwriting(rest)
  <2>1. << <<"readPackage">> >> # <<>> /\ ~Unwriting(<< <<"readPackage">> >>)
    BY DEF Unwriting
  <2>2. Tail(Tail(Withdrawal)) # <<>> /\ ~Unwriting(Tail(Tail(Withdrawal)))
    BY DEF Unwriting, Withdrawal
  <2> QED
    BY <1>3, <2>1, <2>2, Zenon DEF rest
<1>9. p \in clean /\ req[p].kind \in {"update", "setPassword"} => CopyBy(req[p], u)
  <2>1. Head(todo[p])[1] # "findOwned"
    BY <1>3
  <2> QED
    BY <1>3, <2>1, CleanUnwritten, Zenon DEF u
<1>10. ASSUME p \in clean
       PROVE  FitsBy(n, rest, aaa'[UserOf[s]], v)
  <2>1. CASE req[p].kind = "update"
    <3>1. v.state = "live"
      BY <1>7, <1>9, <1>10, <2>1, Zenon DEF CopyBy
    <3>2. CopyBy(n, v)
      BY <1>3, <1>4, <2>1, <3>1 DEF CopyBy, v
    <3>3. n.kind \in {"create", "update", "setPassword"} /\ n.kind = "update" /\ rest = << <<"readPackage">> >>
      BY <1>3, <1>4, <2>1 DEF rest
    <3> QED
      BY <3>2, <3>3, ReadFitted
  <2>2. CASE req[p].kind = "setPassword"
    <3>1. v = [u EXCEPT !.password = req[p].patch.password] /\ c = req[p].copy
      BY <1>3, <1>7, <2>2
    <3>2. /\ v.state = u.state /\ v.status = u.status /\ v.expires = u.expires
          /\ v.password = req[p].patch.password
      BY <1>6, <3>1 DEF Accounts
    <3>3. CopyBy(n, v)
      BY <1>4, <1>9, <1>10, <2>2, <3>1, <3>2, Zenon DEF CopyBy
    <3>4. n.kind \in {"create", "update", "setPassword"} /\ rest = << <<"readPackage">> >>
      BY <1>3, <1>4, <2>2 DEF rest
    <3> QED
      BY <1>4, <3>2, <3>3, <3>4, ReadFitted
  <2>3. CASE req[p].kind \in {"revokePassword", "remove"}
    <3>1. v.state # "live" \/ v.password = 0
      BY <1>6, <1>7, <2>3 DEF Accounts
    <3>2. rest = Tail(Tail(Withdrawal))
      BY <1>3, <2>3 DEF rest
    <3>3. Head(rest)[1] = "deleteUser" /\ Head(rest)[2] = "radcheck"
      BY <3>2 DEF Withdrawal
    <3>4. rest # << <<"deleteUser", "radreply">> >>
      <4>1. Head(<< <<"deleteUser", "radreply">> >>)[2] = "radreply"
        OBVIOUS
      <4>2. "radreply" # "radcheck"
        OBVIOUS
      <4> QED
        BY <3>3, <4>1, <4>2, Zenon
    <3>5. n.kind \in {"revokePassword", "remove"}
      BY <1>4, <2>3, Zenon
    <3> QED
      BY <1>8, <3>1, <3>3, <3>4, <3>5, WithdrawalFitted
  <2> QED
    BY <1>3, <2>1, <2>2, <2>3
<1>11. /\ req'[p] = n /\ todo'[p] = rest
       /\ \A q \in Requests \ {p} : req'[q] = req[q] /\ todo'[q] = todo[q]
       /\ clean' = clean /\ disturbed' = disturbed
  BY <1>5, <1>8, GoesOn, Zenon
<1>12. /\ req'[p].subs = {s} /\ req'[p].kind = req[p].kind
       /\ ~Unwriting(todo'[p])
       /\ p \in clean => FitsBy(req'[p], todo'[p], aaa'[UserOf[s]], row'[s])
  BY <1>3, <1>4, <1>8, <1>10, <1>11, Zenon DEF v
<1>13. req[p].kind = "update" /\ RightBy(aaa[UserOf[s]], row[s], "Cleartext-Password") =>
         RightBy(aaa'[UserOf[s]], row'[s], "Cleartext-Password")
  BY <1>1, <1>7, Zenon DEF RightBy, u, v
<1>14. \A x \in Users : x # UserOf[s] => aaa'[x] = aaa[x]
  BY <1>1
<1> QED
  BY <1>3, <1>11, <1>12, <1>13, <1>14, LoginGoesOn, Zenon

\* The push begins, of a copy that says what the row does.
LEMMA LoginReadPackage ==
  ASSUME AccountsTypeOK, RequestsFit, LoginInv, NEW p \in Requests, ReadPackage(p)
  PROVE  LoginInv'
<1>1. row' = row /\ aaa' = aaa /\ todo[p] # <<>> /\ Head(todo[p])[1] = "readPackage"
  BY Zenon DEF ReadPackage, Awaits
<1>2. PICK c \in Copies :
        LET n == [req[p] EXCEPT !.copy = c]
        IN /\ OneFits(req[p], todo[p])
           /\ c.status = req[p].copy.status /\ c.expires = req[p].copy.expires
           /\ req[p].kind # "update" => c.password = req[p].patch.password
           /\ PushAhead(n, Push(c, req[p].kind # "update"))
           /\ todo[p] = << <<"readPackage">> >> /\ req[p].kind \in {"create", "update", "setPassword"}
           /\ Proceed(p, n, Push(c, req[p].kind # "update"))
  BY ReadFits, Zenon
<1> DEFINE n == [req[p] EXCEPT !.copy = c]
           rest == Push(c, req[p].kind # "update")
<1>3. n.copy = c /\ n.kind = req[p].kind /\ n.subs = req[p].subs /\ n.patch = req[p].patch
  BY <1>2, OneCopied, Zenon
<1>4. PushAhead(n, rest) /\ Proceed(p, n, rest)
  BY <1>2, Zenon
<1>5. /\ req[p].kind = "update" => rest = FromAuthType(c.status)
      /\ req[p].kind # "update" => rest = FromPassword(c.status)
  BY Zenon DEF Push
<1> HIDE DEF n, rest
<1>6. PICK s \in Subscribers : req[p].subs = {s}
  <2>1. Head(todo[p])[1] \notin {"assertPackage", "updateRows", "updatePackage", "findInUse", "deletePackage"}
    BY <1>1
  <2> QED
    BY <1>1, <2>1, WhoAwaits, Zenon
<1>7. rest # <<>> /\ ~Unwriting(rest)
  BY <1>4, PushSteps, Zenon
<1>8. ASSUME p \in clean
      PROVE  FitsBy(n, rest, aaa[UserOf[s]], row[s])
  <2>1. CopyBy(req[p], row[s]) /\ (req[p].kind # "update" => row[s].password = req[p].patch.password)
    <3>1. FitsBy(req[p], todo[p], aaa[UserOf[s]], row[s])
      BY <1>6, <1>8, CleanNow, Zenon
    <3> QED
      BY <1>2, <3>1, ReadFitted
  <2>2. CopyBy(n, row[s])
    BY <1>2, <1>3, <2>1, Zenon DEF CopyBy
  <2>3. n.kind # "update" => row[s].password # 0 /\ n.copy.password = row[s].password
    <3>1. req[p].kind # "update" => req[p].patch.password # 0
      BY <1>2, OneSteps DEF PatchFits
    <3> QED
      BY <1>2, <1>3, <2>1, <3>1, Zenon
  <2>4. PushBy(n, rest, aaa[UserOf[s]], row[s])
    <3>1. CASE n.kind = "update"
      BY <1>3, <1>5, <2>3, <3>1, PushAt, Zenon
    <3>2. CASE n.kind # "update"
      <4>1. rest = FromPassword(n.copy.status)
        BY <1>3, <1>5, <3>2, Zenon
      <4>2. PushBy(n, FromPassword(n.copy.status), aaa[UserOf[s]], row[s])
        BY <2>3, <3>2, PushAt, Zenon
      <4> QED
        BY <4>1, <4>2, Zenon
    <3> QED
      BY <3>1, <3>2, Zenon
  <2>5. n.kind \in {"create", "update", "setPassword"}
    BY <1>2, <1>3, Zenon
  <2> QED
    BY <1>4, <2>2, <2>4, <2>5, PushFitted, Zenon
<1>9. /\ req'[p] = n /\ todo'[p] = rest
      /\ \A q \in Requests \ {p} : req'[q] = req[q] /\ todo'[q] = todo[q]
      /\ clean' = clean /\ disturbed' = disturbed
  BY <1>4, <1>7, GoesOn, Zenon
<1>10. /\ req'[p].subs = {s} /\ req'[p].kind = req[p].kind /\ ~Unwriting(todo'[p])
       /\ p \in clean => FitsBy(req'[p], todo'[p], aaa'[UserOf[s]], row'[s])
  BY <1>1, <1>3, <1>6, <1>7, <1>8, <1>9, Zenon
<1>11. /\ \A u \in Users : u # UserOf[s] => aaa'[u] = aaa[u]
       /\ \A t \in Subscribers \ {s} : row'[t] = row[t]
       /\ RightBy(aaa[UserOf[s]], row[s], "Cleartext-Password") =>
            RightBy(aaa'[UserOf[s]], row'[s], "Cleartext-Password")
  BY <1>1, Zenon
<1> QED
  BY <1>6, <1>9, <1>10, <1>11, LoginGoesOn, Zenon

\* An update pushes everything but the password.
LEMMA UpdatesKeepPassword ==
  ASSUME NEW r, r.kind = "update", NEW steps, PushAhead(r, steps)
  PROVE  Head(steps)[2] # "Cleartext-Password"
<1>1. /\ <<"deleteAttr", "Auth-Type">>[2] # "Cleartext-Password"
      /\ <<"insertAttr", "Auth-Type">>[2] # "Cleartext-Password"
      /\ <<"deleteAttr", "Expiration">>[2] # "Cleartext-Password"
      /\ <<"insertAttr", "Expiration">>[2] # "Cleartext-Password"
      /\ <<"deleteAttr", "Rate-Limit">>[2] # "Cleartext-Password"
      /\ <<"insertAttr", "Rate-Limit">>[2] # "Cleartext-Password"
  OBVIOUS
<1> QED
  BY <1>1, Stages, Zenon

\* What a clean push is in step with.
LEMMA CleanPush ==
  ASSUME LoginInv, NEW p \in clean, NEW s, req[p].subs = {s}, PushAhead(req[p], todo[p]),
         req[p].kind \in {"create", "update", "setPassword"}
  PROVE  CopyBy(req[p], row[s]) /\ PushBy(req[p], todo[p], aaa[UserOf[s]], row[s])
BY CleanNow, PushFitted, Zenon

\* The statements of a push.
LEMMA LoginDeleteAttr ==
  ASSUME AccountsTypeOK, RequestsFit, LoginInv, NEW p \in Requests, DeleteAttr(p)
  PROVE  LoginInv'
<1> DEFINE a == Head(todo[p])[2]
           rest == Tail(todo[p])
<1>1. row' = row /\ Head(todo[p])[1] = "deleteAttr" /\ Next1(p)
  BY Zenon DEF DeleteAttr, Awaits
<1>2. PICK s \in Subscribers :
        /\ req[p].subs = {s} /\ PushAhead(req[p], todo[p])
        /\ req[p].kind \in {"create", "update", "setPassword"}
        /\ aaa'[UserOf[s]][a] = {}
        /\ \A b \in Attributes : b # a => aaa'[UserOf[s]][b] = aaa[UserOf[s]][b]
        /\ \A u \in Users : u # UserOf[s] => aaa'[u] = aaa[u]
  BY DeleteAttrStep, Zenon
<1>3. rest # <<>> /\ PushAhead(req[p], rest) /\ ~Unwriting(rest)
  <2>1. rest # <<>>
    <3>1. todo[p] # Tail(FromRate)
      <4>1. Head(Tail(FromRate)) = <<"insertAttr", "Rate-Limit">>
        BY RateSteps, Zenon
      <4>2. <<"insertAttr", "Rate-Limit">>[1] # "deleteAttr"
        OBVIOUS
      <4> QED
        BY <1>1, <4>1, <4>2, Zenon
    <3>2. Tail(todo[p]) = <<>> => todo[p] = Tail(FromRate)
      <4> DEFINE w == req[p].copy.status
      <4>1. Tail(FromPassword(w)) # <<>> /\ Tail(FromAuthType(w)) # <<>>
        BY PasswordSteps, AuthTypeSteps, Zenon
      <4>2. Tail(FromExpiration) # <<>> /\ Tail(FromRate) # <<>> /\ FromAuthType(w) # <<>>
            /\ FromExpiration # <<>> /\ FromRate # <<>>
        BY AuthTypeSteps, ExpirationSteps, RateSteps, Zenon
      <4> QED
        BY <1>2, <4>1, <4>2, Stages, Zenon
    <3> QED
      BY <3>1, <3>2, Zenon
  <2>2. PushAhead(req[p], rest)
    BY <1>2, <2>1, PushSteps, Zenon
  <2> QED
    BY <2>1, <2>2, PushSteps, Zenon
<1>4. /\ req'[p] = req[p] /\ todo'[p] = rest
      /\ \A q \in Requests \ {p} : req'[q] = req[q] /\ todo'[q] = todo[q]
      /\ clean' = clean /\ disturbed' = disturbed
  <2>1. Proceed(p, req[p], rest)
    BY <1>1, Zenon DEF Next1
  <2> QED
    BY <1>3, <2>1, GoesOn, Zenon
<1>5. req[p].kind = "update" => a # "Cleartext-Password"
  BY <1>2, UpdatesKeepPassword, Zenon
<1>6. req[p].kind = "update" /\ RightBy(aaa[UserOf[s]], row[s], "Cleartext-Password") =>
        RightBy(aaa'[UserOf[s]], row'[s], "Cleartext-Password")
  BY <1>1, <1>2, <1>5, AttributesNamed, Zenon DEF RightBy
<1>7. ASSUME p \in clean
      PROVE  FitsBy(req[p], rest, aaa'[UserOf[s]], row[s])
  <2>1. CopyBy(req[p], row[s]) /\ PushBy(req[p], todo[p], aaa[UserOf[s]], row[s])
    BY <1>2, <1>7, CleanPush, Zenon
  <2>2. row[s].status = req[p].copy.status
    BY <2>1, Zenon DEF CopyBy
  <2>3. PushBy(req[p], rest, aaa'[UserOf[s]], row[s])
    BY <1>1, <1>2, <2>1, <2>2, AttrDeleted
  <2> QED
    BY <1>2, <1>3, <2>1, <2>3, PushFitted
<1>8. /\ req'[p].subs = {s} /\ req'[p].kind = req[p].kind /\ ~Unwriting(todo'[p])
      /\ p \in clean => FitsBy(req'[p], todo'[p], aaa'[UserOf[s]], row'[s])
      /\ \A t \in Subscribers \ {s} : row'[t] = row[t]
  <2> HIDE DEF rest
  <2> QED
    BY <1>1, <1>2, <1>3, <1>4, <1>7, Zenon
<1> HIDE DEF a, rest
<1> QED
  BY <1>2, <1>4, <1>6, <1>8, LoginGoesOn, Zenon

LEMMA LoginInsertAttr ==
  ASSUME AccountsTypeOK, RequestsFit, LoginInv, NEW p \in Requests, InsertAttr(p)
  PROVE  LoginInv'
<1> DEFINE a == Head(todo[p])[2]
           rest == Tail(todo[p])
           P == "Cleartext-Password"
<1>1. row' = row /\ Head(todo[p])[1] = "insertAttr"
  BY Zenon DEF InsertAttr, Awaits
<1>2. PICK s \in Subscribers :
        /\ req[p].subs = {s} /\ PushAhead(req[p], todo[p])
        /\ req[p].kind \in {"create", "update", "setPassword"}
        /\ \/ /\ a = "Rate-Limit" \/ aaa[UserOf[s]][a] = {}
              /\ Next1(p)
              /\ aaa'[UserOf[s]][a] = aaa[UserOf[s]][a] \union {Value(req[p].copy, a)}
              /\ \A b \in Attributes : b # a => aaa'[UserOf[s]][b] = aaa[UserOf[s]][b]
              /\ \A u \in Users : u # UserOf[s] => aaa'[u] = aaa[u]
           \/ a # "Rate-Limit" /\ aaa[UserOf[s]][a] # {} /\ Refuse(p) /\ UNCHANGED aaa
  BY InsertAttrStep, Zenon
<1>3. row[s].password \in Nat
  BY DEF AccountsTypeOK, Accounts
<1>4. p \in clean => CopyBy(req[p], row[s]) /\ PushBy(req[p], todo[p], aaa[UserOf[s]], row[s])
  BY <1>2, CleanPush, Zenon
<1>5. CASE a # "Rate-Limit" /\ aaa[UserOf[s]][a] # {} /\ Refuse(p) /\ UNCHANGED aaa
  <2>1. p \notin clean
    <3> SUFFICES ASSUME p \in clean
                 PROVE  a = "Rate-Limit" \/ aaa[UserOf[s]][a] = {}
      BY <1>5
    <3>1. PICK held : held = aaa[UserOf[s]]
      OBVIOUS
    <3>2. PICK r : r = req[p]
      OBVIOUS
    <3>3. PICK steps : steps = todo[p]
      OBVIOUS
    <3>4. PICK u : u = row[s]
      OBVIOUS
    <3>5. PICK b, v : b = Head(steps)[2] /\ v = Value(r.copy, b)
      OBVIOUS
    <3>6. PICK next : next[b] = held[b] \union {v} /\ \A c \in Attributes : c # b => next[c] = held[c]
      <4> DEFINE f == [c \in Attributes \union {b} |-> IF c = b THEN held[b] \union {v} ELSE held[c]]
      <4>1. f[b] = held[b] \union {v} /\ \A c \in Attributes : c # b => f[c] = held[c]
        OBVIOUS
      <4> HIDE DEF f
      <4> QED
        BY <4>1
    <3>7. /\ PushAhead(r, steps) /\ CopyBy(r, u) /\ PushBy(r, steps, held, u)
          /\ u.password \in Nat /\ Head(steps)[1] = "insertAttr"
      BY <1>1, <1>2, <1>3, <1>4, <3>1, <3>2, <3>3, <3>4, Zenon
    <3>8. b = "Rate-Limit" \/ held[b] = {}
      <4>1. AttrPut(held, next, Head(steps)[2], Value(r.copy, Head(steps)[2]))
        BY <3>5, <3>6, Zenon DEF AttrPut
      <4>2. Head(steps)[2] = "Rate-Limit" \/ held[Head(steps)[2]] = {}
        BY <3>7, <4>1, AttrInserted, Zenon
      <4> QED
        BY <3>5, <4>2, Zenon
    <3> QED
      BY <3>1, <3>3, <3>5, <3>8, Zenon
  <2>2. /\ req'[p].subs = {}
        /\ \A q \in Requests \ {p} : req'[q] = req[q] /\ todo'[q] = todo[q]
        /\ clean' = clean \ {p} /\ disturbed' = disturbed
    BY <1>5, Refused, Zenon
  <2>3. aaa' = aaa /\ disturbed \subseteq disturbed'
    BY <1>5, <2>2
  <2> HIDE DEF a, rest
  <2> QED
    BY <1>1, <1>2, <2>1, <2>2, <2>3, LoginRefused, Zenon
<1>6. CASE /\ Next1(p)
           /\ aaa'[UserOf[s]][a] = aaa[UserOf[s]][a] \union {Value(req[p].copy, a)}
           /\ \A b \in Attributes : b # a => aaa'[UserOf[s]][b] = aaa[UserOf[s]][b]
           /\ \A u \in Users : u # UserOf[s] => aaa'[u] = aaa[u]
  <2>1. req[p].kind = "update" => a # P
    BY <1>2, UpdatesKeepPassword, Zenon
  <2>2. req[p].kind = "update" /\ RightBy(aaa[UserOf[s]], row[s], P) => RightBy(aaa'[UserOf[s]], row[s], P)
    BY <1>6, <2>1, AttributesNamed, Zenon DEF RightBy
  <2>3. p \in clean =>
          /\ rest # <<>> => PushBy(req[p], rest, aaa'[UserOf[s]], row[s])
          /\ rest = <<>> =>
               /\ RightBy(aaa'[UserOf[s]], row[s], "Auth-Type") /\ RightBy(aaa'[UserOf[s]], row[s], "Expiration")
               /\ req[p].kind # "update" => RightBy(aaa'[UserOf[s]], row[s], P)
    <3> SUFFICES ASSUME p \in clean
                 PROVE  /\ rest # <<>> => PushBy(req[p], rest, aaa'[UserOf[s]], row[s])
                        /\ rest = <<>> =>
                             /\ RightBy(aaa'[UserOf[s]], row[s], "Auth-Type")
                             /\ RightBy(aaa'[UserOf[s]], row[s], "Expiration")
                             /\ req[p].kind # "update" => RightBy(aaa'[UserOf[s]], row[s], P)
      OBVIOUS
    <3>1. CopyBy(req[p], row[s]) /\ PushBy(req[p], todo[p], aaa[UserOf[s]], row[s])
      BY <1>4, Zenon
    <3>2. PICK held, next : held = aaa[UserOf[s]] /\ next = aaa'[UserOf[s]]
      OBVIOUS
    <3>3. PICK r, steps : r = req[p] /\ steps = todo[p]
      OBVIOUS
    <3>4. PICK u : u = row[s]
      OBVIOUS
    <3>5. PICK b, v : b = Head(steps)[2] /\ v = Value(r.copy, b)
      OBVIOUS
    <3>6. next[b] = held[b] \union {v} /\ \A c \in Attributes : c # b => next[c] = held[c]
      BY <1>6, <3>2, <3>3, <3>5, Zenon
    <3>7. /\ PushAhead(r, steps) /\ CopyBy(r, u) /\ PushBy(r, steps, held, u)
          /\ u.password \in Nat /\ Head(steps)[1] = "insertAttr"
      BY <1>1, <1>2, <1>3, <3>1, <3>2, <3>3, <3>4, Zenon
    <3>8. PICK after : after = Tail(steps)
      OBVIOUS
    <3>9. /\ after # <<>> => PushBy(r, after, next, u)
          /\ after = <<>> =>
               /\ RightBy(next, u, "Auth-Type") /\ RightBy(next, u, "Expiration")
               /\ r.kind # "update" => RightBy(next, u, "Cleartext-Password")
      <4>1. AttrPut(held, next, Head(steps)[2], Value(r.copy, Head(steps)[2]))
        BY <3>5, <3>6, Zenon DEF AttrPut
      <4>2. /\ Tail(steps) # <<>> => PushBy(r, Tail(steps), next, u)
            /\ Tail(steps) = <<>> =>
                 /\ RightBy(next, u, "Auth-Type") /\ RightBy(next, u, "Expiration")
                 /\ r.kind # "update" => RightBy(next, u, "Cleartext-Password")
        BY <3>7, <4>1, AttrInserted, Zenon
      <4> QED
        BY <3>8, <4>2, Zenon
    <3> QED
      BY <3>2, <3>3, <3>4, <3>8, <3>9, Zenon
  <2>4. CASE rest # <<>>
    <3>1. Proceed(p, req[p], rest)
      BY <1>6, Zenon DEF Next1
    <3>2. /\ req'[p] = req[p] /\ todo'[p] = rest
          /\ \A q \in Requests \ {p} : req'[q] = req[q] /\ todo'[q] = todo[q]
          /\ clean' = clean /\ disturbed' = disturbed
      BY <2>4, <3>1, GoesOn, Zenon
    <3>3. PushAhead(req[p], rest)
      BY <1>2, <2>4, PushSteps, Zenon
    <3>4. ~Unwriting(rest)
      BY <3>3, PushSteps, Zenon
    <3>5. p \in clean => FitsBy(req[p], rest, aaa'[UserOf[s]], row[s])
      BY <1>2, <1>4, <2>3, <2>4, <3>3, PushFitted
    <3>6. /\ req'[p].subs = {s} /\ req'[p].kind = req[p].kind /\ ~Unwriting(todo'[p])
          /\ p \in clean => FitsBy(req'[p], todo'[p], aaa'[UserOf[s]], row'[s])
          /\ \A t \in Subscribers \ {s} : row'[t] = row[t]
          /\ req[p].kind = "update" /\ RightBy(aaa[UserOf[s]], row[s], P) => RightBy(aaa'[UserOf[s]], row'[s], P)
      <4> HIDE DEF rest, P
      <4> QED
        BY <1>1, <1>2, <2>2, <3>2, <3>4, <3>5, Zenon
    <3> HIDE DEF a, rest
    <3> QED
      BY <1>2, <1>6, <3>2, <3>6, LoginGoesOn, Zenon
  <2>5. CASE rest = <<>>
    <3>1. /\ req'[p].subs = {}
          /\ \A q \in Requests \ {p} : req'[q] = req[q] /\ todo'[q] = todo[q]
          /\ clean' = clean \ {p}
          /\ disturbed' = IF Whole(p) THEN disturbed \ req[p].subs ELSE disturbed
      BY <1>6, <2>5, Done, Zenon
    <3>2. /\ \A t \in Subscribers \ {s} : t \in disturbed => t \in disturbed'
          /\ s \notin disturbed' => s \notin disturbed \/ (p \in clean /\ req[p].kind # "update")
      BY <1>2, <3>1 DEF Whole
    <3>3. ASSUME s \notin disturbed', p \in clean
          PROVE  GoodBy(aaa'[UserOf[s]], row'[s])
      <4>1. RightBy(aaa'[UserOf[s]], row[s], P)
        <5>1. CASE req[p].kind # "update"
          BY <2>3, <2>5, <3>3, <5>1, Zenon
        <5>2. CASE req[p].kind = "update"
          <6>1. s \notin disturbed
            BY <3>2, <3>3, <5>2
          <6>2. About(req[p], s)
            BY <1>2 DEF About
          <6>3. RightBy(aaa[UserOf[s]], row[s], P)
            BY <5>2, <6>1, <6>2, LoginParts, Zenon
          <6> QED
            BY <2>2, <5>2, <6>3, Zenon
        <5> QED
          BY <5>1, <5>2, Zenon
      <4>2. RightBy(aaa'[UserOf[s]], row[s], "Auth-Type") /\ RightBy(aaa'[UserOf[s]], row[s], "Expiration")
        BY <2>3, <2>5, <3>3, Zenon
      <4> QED
        BY <1>1, <4>1, <4>2, Zenon DEF GoodBy
    <3>4. /\ \A t \in Subscribers \ {s} : row'[t] = row[t]
          /\ s \notin disturbed' => s \notin disturbed \/ p \in clean
      BY <1>1, <3>2
    <3> HIDE DEF a, rest, P
    <3> QED
      BY <1>2, <1>6, <3>1, <3>2, <3>3, <3>4, LoginEnds, Zenon
  <2> QED
    BY <2>4, <2>5, Zenon
<1> QED
  BY <1>2, <1>5, <1>6, Zenon

\* The statements that follow the write of a withdrawal.
LEMMA LoginDeleteUser ==
  ASSUME AccountsTypeOK, RequestsFit, LoginInv, NEW p \in Requests, DeleteUser(p)
  PROVE  LoginInv'
<1> DEFINE last == << <<"deleteUser", "radreply">> >>
           P == "Cleartext-Password"
<1>1. row' = row /\ Head(todo[p])[1] = "deleteUser" /\ Next1(p)
  BY Zenon DEF DeleteUser, Awaits
<1>2. PICK s \in Subscribers :
        /\ req[p].subs = {s} /\ req[p].kind \in {"revokePassword", "remove"} /\ ~Unwriting(todo[p])
        /\ \/ Tail(todo[p]) = last /\ aaa'[UserOf[s]][P] = {}
           \/ /\ todo[p] = last /\ Tail(todo[p]) = <<>>
              /\ \A b \in Attributes \ {"Rate-Limit"} : aaa'[UserOf[s]][b] = aaa[UserOf[s]][b]
        /\ \A u \in Users : u # UserOf[s] => aaa'[u] = aaa[u]
  BY DeleteUserStep, Zenon
<1>3. p \in clean =>
        /\ row[s].state # "live" \/ row[s].password = 0
        /\ todo[p] = last => aaa[UserOf[s]][P] = {}
  <2>1. p \in clean => FitsBy(req[p], todo[p], aaa[UserOf[s]], row[s])
    BY <1>2, CleanNow, Zenon
  <2> QED
    <3>1. PICK held, u : held = aaa[UserOf[s]] /\ u = row[s]
      OBVIOUS
    <3>2. PICK r, steps : r = req[p] /\ steps = todo[p]
      OBVIOUS
    <3>3. /\ r.kind \in {"revokePassword", "remove"} /\ ~Unwriting(steps) /\ Head(steps)[1] = "deleteUser"
          /\ p \in clean => FitsBy(r, steps, held, u)
      BY <1>1, <1>2, <2>1, <3>1, <3>2, Zenon
    <3>4. p \in clean =>
            /\ u.state # "live" \/ u.password = 0
            /\ steps = << <<"deleteUser", "radreply">> >> => held["Cleartext-Password"] = {}
      BY <3>3, Zenon DEF FitsBy
    <3> QED
      BY <3>1, <3>2, <3>4, Zenon
<1>4. last # <<>> /\ ~Unwriting(last) /\ Head(last)[1] = "deleteUser"
  BY DEF Unwriting
<1>5. \A t \in Subscribers \ {s} : row'[t] = row[t]
  BY <1>1
<1>6. CASE Tail(todo[p]) = last /\ aaa'[UserOf[s]][P] = {}
  <2>1. Proceed(p, req[p], Tail(todo[p]))
    BY <1>1, Zenon DEF Next1
  <2>2. p \in clean => FitsBy(req[p], last, aaa'[UserOf[s]], row[s])
    BY <1>2, <1>3, <1>4, <1>6, WithdrawalFitted
  <2> HIDE DEF last
  <2>3. Tail(todo[p]) # <<>>
    BY <1>4, <1>6, Zenon
  <2>4. /\ req'[p] = req[p] /\ todo'[p] = last
        /\ \A q \in Requests \ {p} : req'[q] = req[q] /\ todo'[q] = todo[q]
        /\ clean' = clean /\ disturbed' = disturbed
    BY <1>6, <2>1, <2>3, GoesOn, Zenon
  <2>5. /\ req'[p].subs = {s} /\ req'[p].kind = req[p].kind /\ ~Unwriting(todo'[p])
        /\ p \in clean => FitsBy(req'[p], todo'[p], aaa'[UserOf[s]], row'[s])
        /\ req[p].kind # "update"
    <3>1. req[p].kind # "update"
      BY <1>2
    <3> QED
      BY <1>1, <1>2, <1>4, <2>2, <2>4, <3>1, Zenon
  <2> QED
    BY <1>2, <1>5, <2>4, <2>5, LoginGoesOn, Zenon
<1>7. CASE /\ todo[p] = last /\ Tail(todo[p]) = <<>>
           /\ \A b \in Attributes \ {"Rate-Limit"} : aaa'[UserOf[s]][b] = aaa[UserOf[s]][b]
  <2>1. /\ req'[p].subs = {}
        /\ \A q \in Requests \ {p} : req'[q] = req[q] /\ todo'[q] = todo[q]
        /\ clean' = clean \ {p}
        /\ disturbed' = IF Whole(p) THEN disturbed \ req[p].subs ELSE disturbed
    BY <1>1, <1>7, Done, Zenon
  <2>2. /\ \A t \in Subscribers \ {s} : t \in disturbed => t \in disturbed'
        /\ s \notin disturbed' => s \notin disturbed \/ p \in clean
    BY <1>2, <2>1 DEF Whole
  <2>3. ASSUME p \in clean
        PROVE  GoodBy(aaa'[UserOf[s]], row'[s])
    <3>1. aaa'[UserOf[s]][P] = {}
      <4>1. aaa'[UserOf[s]][P] = aaa[UserOf[s]][P]
        BY <1>7 DEF Attributes
      <4> QED
        BY <1>3, <1>7, <2>3, <4>1, Zenon
    <3>2. row[s].state # "live" \/ row[s].password = 0
      BY <1>3, <2>3, Zenon
    <3>3. RightBy(aaa'[UserOf[s]], row[s], P)
      BY <3>1, <3>2 DEF RightBy
    <3> QED
      BY <1>1, <3>2, <3>3, Zenon DEF GoodBy
  <2> HIDE DEF last, P
  <2> QED
    BY <1>2, <1>5, <2>1, <2>2, <2>3, LoginEnds, Zenon
<1> QED
  BY <1>2, <1>6, <1>7, Zenon

\* Every statement of a request keeps logins in step.
LEMMA LoginStatement ==
  ASSUME AccountsTypeOK, RequestsFit, LoginInv, NEW p \in Requests, Statement(p)
  PROVE  LoginInv'
<1>1. CASE UpdateRows(p)
  <2>1. Next1(p) /\ aaa' = aaa
    BY <1>1, Zenon DEF UpdateRows
  <2>2. /\ req[p].subs = {}
        /\ \A s \in Subscribers :
             /\ row'[s].state = row[s].state /\ row'[s].status = row[s].status
             /\ row'[s].password = row[s].password /\ row'[s].expires = row[s].expires
    BY <1>1, UpdateRowsStep, Zenon
  <2> QED
    BY <2>1, <2>2, LoginPlainDone, Zenon
<1>2. CASE WritePackage(p) \/ FindInUse(p) \/ DeletePackage(p)
  <2>1. /\ row' = row /\ aaa' = aaa /\ todo[p] # <<>>
        /\ Head(todo[p])[1] \in {"updatePackage", "findInUse", "deletePackage"}
        /\ Next1(p) \/ Refuse(p)
    BY <1>2 DEF WritePackage, FindInUse, DeletePackage, Awaits, Guarded
  <2>2. Head(todo[p])[1] \in {"updateRows", "updatePackage", "findInUse", "deletePackage"}
    BY <2>1
  <2>3. req[p].subs = {}
    BY <2>1, <2>2, WhoAwaits, Zenon
  <2> QED
    BY <2>1, <2>3, LoginPlainDone, Zenon
<1>3. CASE AssertPackage(p) \/ FindExisting(p) \/ FindOwned(p)
  BY <1>3, LoginAhead, Zenon
<1>4. CASE InsertRow(p) \/ UpdateRow(p) \/ ReadPackage(p)
  BY <1>4, LoginInsertRow, LoginUpdateRow, LoginReadPackage, Zenon
<1>5. CASE DeleteAttr(p) \/ InsertAttr(p) \/ DeleteUser(p)
  BY <1>5, LoginDeleteAttr, LoginInsertAttr, LoginDeleteUser, Zenon
<1> QED
  BY <1>1, <1>2, <1>3, <1>4, <1>5, Zenon DEF Statement

\* So does a statement that fails: past the write of its row the subscriber
\* counts as disturbed.
LEMMA LoginFault ==
  ASSUME AccountsTypeOK, RequestsFit, LoginInv, NEW p \in Requests, Fault(p)
  PROVE  LoginInv'
<1>1. /\ row' = row /\ aaa' = aaa /\ clean' = clean \ {p} /\ todo[p] # <<>>
      /\ disturbed' = IF Unwritten(p) THEN disturbed ELSE disturbed \union req[p].subs
  BY DEF Fault
<1>2. /\ req'[p].subs = {}
      /\ \A q \in Requests \ {p} : req'[q] = req[q] /\ todo'[q] = todo[q]
  <2>1. Idle.subs = {}
    BY DEF Idle
  <2> QED
    BY <2>1, EndStep, Zenon
<1>3. req[p].subs = {} \/ \E s \in Subscribers : req[p].subs = {s}
  BY <1>1, WhoAwaits, Zenon
<1>4. CASE req[p].subs = {}
  <2>1. disturbed' = disturbed
    BY <1>1, <1>4
  <2> QED
    BY <1>1, <1>2, <1>4, <2>1, LoginPlain, Zenon
<1>5. ASSUME NEW s \in Subscribers, req[p].subs = {s}
      PROVE  LoginInv'
  <2>1. disturbed \subseteq disturbed' /\ (s \notin disturbed' => Unwritten(p))
    BY <1>1, <1>5
  <2>2. s \notin disturbed' => Unwriting(todo[p])
    BY <2>1, Zenon DEF Unwritten, Unwriting
  <2> QED
    BY <1>1, <1>2, <1>5, <2>1, <2>2, LoginRefused, Zenon
<1> QED
  BY <1>3, <1>4, <1>5, Zenon

LEMMA EntitledTo ==
  ASSUME NEW r
  PROVE  /\ r.state # "live" \/ r.password = 0 => \A a \in Attributes : Entitlement(r)[a] = {}
         /\ r.state = "live" /\ r.password # 0 =>
              /\ Entitlement(r)["Cleartext-Password"] = {r.password}
              /\ Entitlement(r)["Auth-Type"] = IF r.status = "ACTIVE" THEN {} ELSE {0}
              /\ Entitlement(r)["Expiration"] = {r.expires}
<1>0. /\ "Cleartext-Password" \in Attributes /\ "Auth-Type" \in Attributes
      /\ "Expiration" \in Attributes /\ "Rate-Limit" \in Attributes
  BY AttributesNamed, Zenon
<1>1. ASSUME r.state # "live" \/ r.password = 0
      PROVE  \A a \in Attributes : Entitlement(r)[a] = {}
  <2>1. Entitlement(r)["Cleartext-Password"] = {} /\ Entitlement(r)["Auth-Type"] = {}
    BY <1>0, <1>1 DEF Entitlement
  <2>2. Entitlement(r)["Expiration"] = {} /\ Entitlement(r)["Rate-Limit"] = {}
    BY <1>0, <1>1 DEF Entitlement
  <2> QED
    BY <2>1, <2>2 DEF Attributes
<1>2. CASE r.state = "live" /\ r.password # 0
  <2>1. /\ "Cleartext-Password" \in Attributes /\ "Auth-Type" \in Attributes /\ "Expiration" \in Attributes
    BY DEF Attributes
  <2> QED
    BY <1>2, <2>1 DEF Entitlement
<1> QED
  BY <1>1, <1>2

LEMMA LoginInit ==
  ASSUME AccountsOK, Init
  PROVE  LoginInv
<1>1. PICK live \in SUBSET Subscribers, k \in Packages :
        /\ row = [s \in Subscribers |->
             [state |-> IF s \in live THEN "live" ELSE "absent", status |-> "ACTIVE",
              password |-> IF s \in live THEN 1 ELSE 0, expires |-> 1, package |-> k]]
        /\ disturbed = UNION {Namesakes(s) : s \in live}
  BY Zenon DEF Init
<1>2. /\ aaa = [u \in Users |->
                  [a \in Attributes |-> UNION {Entitlement(row[s])[a] : s \in RowsOf(u)}]]
      /\ clean = {} /\ \A p \in Requests : req[p] = Idle
  BY DEF Init
<1>3. \A s : Rivals(s) = {}
  <2>1. \A p \in Requests : req[p].subs = {}
    BY <1>2 DEF Idle
  <2> QED
    BY <2>1 DEF Rivals
<1>4. ASSUME NEW s \in Subscribers \ disturbed
      PROVE  Good(s)
  <2>1. \A t \in live : UserOf[t] = UserOf[s] => t = s
    <3> SUFFICES ASSUME NEW t \in live, UserOf[t] = UserOf[s], t # s
                 PROVE  FALSE
      OBVIOUS
    <3>1. s \in Namesakes(t)
      BY DEF Namesakes, RowsOf
    <3> QED
      BY <1>1, <1>4, <3>1
  <2>2. \A t \in Subscribers : \A a \in Attributes : t \notin live => Entitlement(row[t])[a] = {}
    <3> SUFFICES ASSUME NEW t \in Subscribers, NEW a \in Attributes, t \notin live
                 PROVE  Entitlement(row[t])[a] = {}
      OBVIOUS
    <3>1. row[t].state # "live"
      BY <1>1
    <3> QED
      BY <3>1, EntitledTo
  <2>3. ASSUME NEW a \in Attributes
        PROVE  aaa[UserOf[s]][a] = Entitlement(row[s])[a]
    <3>1. aaa[UserOf[s]][a] = UNION {Entitlement(row[t])[a] : t \in RowsOf(UserOf[s])}
      BY <1>2 DEF Users
    <3>2. s \in RowsOf(UserOf[s])
      BY DEF RowsOf
    <3>3. ASSUME NEW t \in RowsOf(UserOf[s]), t # s
          PROVE  Entitlement(row[t])[a] = {}
      BY <2>1, <2>2, <3>3 DEF RowsOf
    <3> QED
      BY <3>1, <3>2, <3>3
  <2>4. /\ row[s].state = (IF s \in live THEN "live" ELSE "absent") /\ row[s].status = "ACTIVE"
        /\ row[s].password = (IF s \in live THEN 1 ELSE 0) /\ row[s].expires = 1
    BY <1>1
  <2>5. /\ aaa[UserOf[s]]["Cleartext-Password"] = IF s \in live THEN {1} ELSE {}
        /\ s \in live => aaa[UserOf[s]]["Auth-Type"] = {} /\ aaa[UserOf[s]]["Expiration"] = {1}
    <3>1. /\ aaa[UserOf[s]]["Cleartext-Password"] = Entitlement(row[s])["Cleartext-Password"]
          /\ aaa[UserOf[s]]["Auth-Type"] = Entitlement(row[s])["Auth-Type"]
          /\ aaa[UserOf[s]]["Expiration"] = Entitlement(row[s])["Expiration"]
      BY <2>3, AttributesNamed, Zenon
    <3>2. CASE s \in live
      <4>1. row[s].state = "live" /\ row[s].password = 1 /\ row[s].status = "ACTIVE" /\ row[s].expires = 1
        BY <2>4, <3>2
      <4> QED
        BY <3>1, <3>2, <4>1, EntitledTo
    <3>3. CASE s \notin live
      <4>1. row[s].state # "live"
        BY <2>4, <3>3
      <4> QED
        BY <3>1, <3>3, <4>1, EntitledTo, AttributesNamed
    <3> QED
      BY <3>2, <3>3
  <2> QED
    BY <2>4, <2>5 DEF Good, Right
<1>5. CleanAlone /\ CleanFits
  BY <1>2, <1>3 DEF CleanAlone, CleanFits
<1>6. UndisturbedGood
  BY <1>3, <1>4 DEF UndisturbedGood
<1> QED
  BY <1>5, <1>6 DEF LoginInv

LEMMA LoginNext ==
  ASSUME AccountsTypeOK, RequestsFit, LoginInv, [Next]_vars
  PROVE  LoginInv'
<1>1. ASSUME NEW p \in Requests, Arrive(p) \/ Statement(p) \/ Fault(p)
      PROVE  LoginInv'
  BY <1>1, LoginArrival, LoginStatement, LoginFault, Zenon
<1>2. CASE UNCHANGED vars
  <2>1. /\ row' = row /\ aaa' = aaa /\ req' = req /\ todo' = todo
        /\ disturbed' = disturbed /\ clean' = clean
    BY <1>2 DEF vars
  <2> QED
    BY <2>1, LoginParts, LoginWhole, Zenon
<1> QED
  BY <1>1, <1>2, Zenon DEF Next

\* A subscriber whose attributes are right logs in by FreeRADIUS as it does by
\* the portal's own server.
LEMMA GoodOpens ==
  ASSUME AccountsTypeOK, NEW s \in Subscribers, Good(s)
  PROVE  FreeradiusOpens(aaa[UserOf[s]]) = Opens(row[s])
<1> DEFINE held == aaa[UserOf[s]]
           u == row[s]
<1>1. u \in Accounts
  BY DEF AccountsTypeOK
<1>2. CASE u.state # "live" \/ u.password = 0
  <2>1. held["Cleartext-Password"] = {}
    BY <1>2 DEF Good, Right
  <2>2. FreeradiusOpens(held) = {}
    BY <2>1 DEF FreeradiusOpens
  <2> QED
    BY <1>2, <2>2 DEF Opens
<1>3. CASE u.state = "live" /\ u.password # 0
  <2>1. /\ held["Cleartext-Password"] = {u.password} /\ held["Expiration"] = {u.expires}
        /\ held["Auth-Type"] = IF u.status = "ACTIVE" THEN {} ELSE {0}
    BY <1>3 DEF Good, Right
  <2>2. CASE u.status = "ACTIVE"
    <3>1. FreeradiusOpens(held) = {u.password} \X {u.expires}
      BY <2>1, <2>2 DEF FreeradiusOpens
    <3>2. Opens(u) = {<<u.password, u.expires>>}
      BY <1>3, <2>2 DEF Opens
    <3> QED
      BY <3>1, <3>2
  <2>3. CASE u.status # "ACTIVE"
    BY <2>1, <2>3 DEF FreeradiusOpens, Opens
  <2> QED
    BY <2>2, <2>3
<1> QED
  BY <1>2, <1>3

\* Whatever requests run side by side and wherever they fail: once the requests
\* about a subscriber are answered, FreeRADIUS opens with what the portal's own
\* RADIUS server opens with, unless a push overlapped another or was cut short
\* and no whole one has run alone since.
THEOREM LoginsFollowRows == Spec => []LoginFollowsRow
<1> USE AccountsOK
<1>1. Init => AccountsTypeOK /\ RequestsFit /\ LoginInv
  BY InitTyped, LoginInit, Zenon
<1>2. AccountsTypeOK /\ RequestsFit /\ LoginInv /\ [Next]_vars
        => AccountsTypeOK' /\ RequestsFit' /\ LoginInv'
  BY TypedStep, LoginNext, Zenon
<1>3. AccountsTypeOK /\ LoginInv => LoginFollowsRow
  <2> SUFFICES ASSUME AccountsTypeOK, LoginInv, NEW s \in Subscribers, Quiet(s)
               PROVE  FreeradiusOpens(aaa[UserOf[s]]) = Opens(row[s])
    BY Zenon DEF LoginFollowsRow
  <2>1. Rivals(s) = {} /\ s \in Subscribers \ disturbed
    BY DEF Quiet
  <2>2. Good(s)
    BY <2>1 DEF LoginInv, UndisturbedGood
  <2> QED
    BY <2>2, GoodOpens, Zenon
<1> QED
  BY <1>1, <1>2, <1>3, PTL DEF Spec
====
