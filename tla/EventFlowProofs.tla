--------------------------- MODULE EventFlowProofs ---------------------------
(***************************************************************************)
(* Proofs about EventFlow for any clients, users, channels, files and      *)
(* bounds: an event that is passed on is parsed into what was reported     *)
(* (Parsed), TypeOK, NothingMissed and NotedAsReported.                    *)
(***************************************************************************)
EXTENDS EventFlow, FiniteSetTheorems, SequenceTheorems, WellFoundedInduction, TLAPS
-----------------------------------------------------------------------------
(* The text of a message *)

\* The keys of the information come in some order, each of them once.
LEMMA KeysListed ==
    ASSUME NEW S, IsFiniteSet(S)
    PROVE  /\ Cardinality(S) \in Nat
           /\ SetToSeq(S) \in [1..Cardinality(S) -> S]
           /\ \A x \in S : \E i \in 1..Cardinality(S) : SetToSeq(S)[i] = x
<1> DEFINE n == Cardinality(S)
<1>1. n \in Nat /\ ExistsBijection(1..n, S)
  BY FS_CardinalityType
<1>2. PICK g \in [1..n -> S] : IsInjective(g)
  BY <1>1 DEF ExistsBijection, Bijection, Injection, IsInjective
<1>3. SetToSeq(S) \in [1..n -> S] /\ IsInjective(SetToSeq(S))
  BY <1>2 DEF SetToSeq
<1> DEFINE f == SetToSeq(S)
<1>4. f \in Injection(1..n, S)
  BY <1>3 DEF Injection, IsInjective
<1>5. Cardinality(1..n) = n /\ IsFiniteSet(1..n)
  BY <1>1, FS_Interval
<1>6. f \in Surjection(1..n, S)
  BY <1>4, <1>5, FS_Injection
<1>7. \A x \in S : \E i \in 1..n : f[i] = x
  BY <1>6 DEF Surjection
<1> QED BY <1>1, <1>3, <1>7

\* A nonempty set of numbers with a bound has a greatest one.
LEMMA Greatest ==
    ASSUME NEW L \in Nat, NEW S \in SUBSET (1..L), NEW x \in S
    PROVE  Max(S) \in S /\ Max(S) >= x
<1> DEFINE T == {L - y : y \in S}
<1>1. T \subseteq Nat /\ T # {}
  OBVIOUS
<1>2. PICK d \in T : \A e \in T : <<e, d>> \notin OpToRel(<, Nat)
  BY <1>1, NatLessThanWellFounded, WFMin
<1>3. PICK y \in S : d = L - y
  OBVIOUS
<1>4. ASSUME NEW z \in S PROVE z <= y
  <2>1. L - z \in T /\ L - z \in Nat /\ d \in Nat
    BY <1>1
  <2>2. ~(L - z < d)
    BY <1>2, <2>1 DEF OpToRel
  <2> QED BY <1>3, <2>2
<1>5. \A z \in S : y >= z
  BY <1>4
<1> QED BY <1>5 DEF Max

\* A sequence of n entries, whatever they are.
IsSequence(s, n) == n \in Nat /\ s = [i \in 1..n |-> s[i]]

\* A sequence of n entries has length n.
LEMMA Sequences ==
    ASSUME NEW s, NEW n, IsSequence(s, n)
    PROVE  Len(s) = n /\ s \in Seq({s[i] : i \in 1..n}) /\ DOMAIN s = 1..n
<1>1. s \in [1..n -> {s[i] : i \in 1..n}]
  BY DEF IsSequence
<1>2. s \in Seq({s[i] : i \in 1..n})
  BY <1>1 DEF IsSequence
<1> QED BY <1>1, <1>2 DEF IsSequence

\* r is q, of m entries, and then s, of n.
IsJoined(r, q, m, s, n) ==
    /\ IsSequence(r, m + n)
    /\ \A i \in 1..m : r[i] = q[i]
    /\ \A i \in 1..n : r[m + i] = s[i]

\* What has the entries of q and then those of s is joined of them.
LEMMA JoinedBy ==
    ASSUME NEW q, NEW m \in Nat, NEW s, NEW n \in Nat,
           NEW S, NEW r \in Seq(S), Len(r) = m + n,
           \A i \in 1..m + n : r[i] = IF i <= m THEN q[i] ELSE s[i - m]
    PROVE  IsJoined(r, q, m, s, n)
<1>1. r = [i \in 1..m + n |-> r[i]]
  OBVIOUS
<1>2. \A i \in 1..n : m + i \in 1..m + n /\ ~(m + i <= m) /\ (m + i) - m = i
  OBVIOUS
<1>3. \A i \in 1..n : r[m + i] = s[i]
  BY <1>2
<1>4. \A i \in 1..m : r[i] = q[i]
  OBVIOUS
<1>5. IsSequence(r, m + n)
  BY <1>1 DEF IsSequence
<1> QED BY <1>3, <1>4, <1>5 DEF IsJoined

\* Concatenation joins.
LEMMA Joined ==
    ASSUME NEW q, NEW m \in Nat, IsSequence(q, m),
           NEW s, NEW n \in Nat, IsSequence(s, n)
    PROVE  IsJoined(q \o s, q, m, s, n)
<1> DEFINE S == {q[i] : i \in 1..m} \cup {s[i] : i \in 1..n}
<1>1. q \in Seq({q[i] : i \in 1..m}) /\ Len(q) = m
  BY Sequences
<1>2. s \in Seq({s[i] : i \in 1..n}) /\ Len(s) = n
  BY Sequences
<1>3. q \in Seq(S) /\ s \in Seq(S)
  BY <1>1, <1>2, SeqMonotonic
<1> HIDE DEF S
<1>4. /\ q \o s \in Seq(S)
      /\ Len(q \o s) = m + n
      /\ \A i \in 1..m + n : (q \o s)[i] = IF i <= m THEN q[i] ELSE s[i - m]
  BY <1>1, <1>2, <1>3, ConcatProperties, ZenonT(30)
<1> QED BY <1>4, JoinedBy

\* The keys of the lines that formatEventMessage begins with
BodyBegins(body, u, e) ==
    /\ body[1] = Line(0, "user", u)
    /\ body[2] = Line(0, "city", e.city)
    /\ body[3] = Line(0, "event name", e.name)
    /\ body[4] = Line(0, "date time", Text(e.date_time))
    /\ body[5] = Line(0, "general information", Empty)

\* Then n lines of information, and the description.
IsInformation(line, info, key) == line = Line(2, key, info[key])

IsDescription(line) == line = Line(0, "description", Empty)

IsKeyless(line) == line.key = ""

BodyGoesOn(body, e, n) ==
    LET info == e.general_information IN
    /\ \A i \in 1..n : \E key \in DOMAIN info : IsInformation(body[5 + i], info, key)
    /\ \A key \in DOMAIN info : \E i \in 1..n : IsInformation(body[5 + i], info, key)
    /\ IsDescription(body[6 + n])

IsBody(body, u, e, n, length) ==
    /\ n \in Nat
    /\ IsSequence(body, length)
    /\ 6 + n <= length
    /\ BodyBegins(body, u, e)
    /\ BodyGoesOn(body, e, n)
    /\ \A i \in 7 + n..length : IsKeyless(body[i])

\* The four parts of a message make a body.
LEMMA Assembled ==
    ASSUME NEW u, NEW e, NEW n \in Nat, NEW d \in Nat,
           NEW first, IsSequence(first, 5), BodyBegins(first, u, e),
           NEW second, IsSequence(second, n),
           \A i \in 1..n : \E key \in DOMAIN e.general_information :
              IsInformation(second[i], e.general_information, key),
           \A key \in DOMAIN e.general_information : \E i \in 1..n :
              IsInformation(second[i], e.general_information, key),
           NEW third, IsSequence(third, 1), IsDescription(third[1]),
           NEW fourth, IsSequence(fourth, d), \A i \in 1..d : IsKeyless(fourth[i])
    PROVE  IsBody(((first \o second) \o third) \o fourth, u, e, n, 6 + n + d)
<1>1. 5 \in Nat /\ 1 \in Nat
  OBVIOUS
<1>2. 5 + n \in Nat /\ 6 + n \in Nat /\ (5 + n) + 1 = 6 + n
  OBVIOUS
<1> DEFINE two   == first \o second
           three == two \o third
           four  == three \o fourth
<1>3. IsJoined(two, first, 5, second, n)
  BY <1>1, Joined
<1> HIDE DEF two
<1>4. IsSequence(two, 5 + n)
  BY <1>3 DEF IsJoined
<1>5. IsJoined(three, two, 5 + n, third, 1)
  BY <1>1, <1>2, <1>4, Joined
<1> HIDE DEF three
<1>6. IsSequence(three, 6 + n)
  BY <1>2, <1>5 DEF IsJoined
<1>7. IsJoined(four, three, 6 + n, fourth, d)
  BY <1>1, <1>2, <1>6, Joined
<1> HIDE DEF four
<1>8. /\ IsSequence(four, 6 + n + d)
      /\ \A i \in 1..5 : four[i] = first[i]
      /\ \A i \in 1..n : four[5 + i] = second[i]
      /\ four[6 + n] = third[1]
      /\ \A i \in 7 + n..6 + n + d : \E j \in 1..d : four[i] = fourth[j]
  <2>1. /\ \A i \in 1..5 : two[i] = first[i]
        /\ \A i \in 1..n : two[5 + i] = second[i]
    BY <1>3 DEF IsJoined
  <2>2. /\ \A i \in 1..5 + n : three[i] = two[i]
        /\ three[(5 + n) + 1] = third[1]
    BY <1>5 DEF IsJoined
  <2>3. /\ IsSequence(four, 6 + n + d)
        /\ \A i \in 1..6 + n : four[i] = three[i]
        /\ \A i \in 1..d : four[(6 + n) + i] = fourth[i]
    BY <1>7 DEF IsJoined
  <2>4. \A i \in 1..5 : four[i] = first[i]
    BY <2>1, <2>2, <2>3
  <2>5. \A i \in 1..n : four[5 + i] = second[i]
    BY <2>1, <2>2, <2>3
  <2>6. four[6 + n] = third[1]
    BY <2>2, <2>3
  <2>7. \A i \in 7 + n..6 + n + d : \E j \in 1..d : four[i] = fourth[j]
    <3> SUFFICES ASSUME NEW i \in 7 + n..6 + n + d
                 PROVE  \E j \in 1..d : four[i] = fourth[j]
      OBVIOUS
    <3>1. i - (6 + n) \in 1..d /\ i = (6 + n) + (i - (6 + n))
      OBVIOUS
    <3> QED BY <3>1, <2>3
  <2> QED BY <2>3, <2>4, <2>5, <2>6, <2>7
<1>9. \A i \in 7 + n..6 + n + d : IsKeyless(four[i])
  BY <1>8
<1>10. BodyBegins(four, u, e)
  <2>1. 1 \in 1..5 /\ 2 \in 1..5 /\ 3 \in 1..5 /\ 4 \in 1..5 /\ 5 \in 1..5
    OBVIOUS
  <2> QED BY <2>1, <1>8 DEF BodyBegins
<1>11. BodyGoesOn(four, e, n)
  BY <1>8 DEF BodyGoesOn
<1>12. IsBody(four, u, e, n, 6 + n + d)
  BY <1>8, <1>9, <1>10, <1>11 DEF IsBody
<1> QED BY <1>12 DEF two, three, four

\* formatEventMessage makes a body.
LEMMA Formatted ==
    ASSUME NEW u, NEW e, IsFiniteSet(DOMAIN e.general_information),
           e.description \in Seq(Nat)
    PROVE  LET n == Cardinality(DOMAIN e.general_information) IN
           IsBody(FormatEvent(u, e), u, e, n, 6 + n + Len(e.description))
<1> DEFINE info   == e.general_information
           n      == Cardinality(DOMAIN info)
           keys   == SetToSeq(DOMAIN info)
           first  == << Line(0, "user", u),
                        Line(0, "city", e.city),
                        Line(0, "event name", e.name),
                        Line(0, "date time", Text(e.date_time)),
                        Line(0, "general information", Empty) >>
           second == [i \in 1..n |-> Line(2, keys[i], info[keys[i]])]
           third  == << Line(0, "description", Empty) >>
           d      == Len(e.description)
           fourth == [i \in 1..d |-> Line(0, "", Text(e.description[i]))]
<1>1. /\ n \in Nat
      /\ keys \in [1..n -> DOMAIN info]
      /\ \A key \in DOMAIN info : \E i \in 1..n : keys[i] = key
  BY KeysListed
<1>2. d \in Nat /\ DOMAIN e.description = 1..d
  OBVIOUS
<1>3. DOMAIN keys = 1..n
  BY <1>1
<1>4. FormatEvent(u, e) = ((first \o second) \o third) \o fourth
  BY <1>2, <1>3 DEF FormatEvent
<1>5. IsSequence(first, 5)
  BY DEF IsSequence
<1>6. IsSequence(second, n) /\ IsSequence(fourth, d)
  BY <1>1, <1>2 DEF IsSequence
<1>7. IsSequence(third, 1)
  BY DEF IsSequence
<1>8. /\ \A i \in 1..n : \E key \in DOMAIN info : IsInformation(second[i], info, key)
      /\ \A key \in DOMAIN info : \E i \in 1..n : IsInformation(second[i], info, key)
  BY <1>1 DEF IsInformation
<1>9. \A i \in 1..d : IsKeyless(fourth[i])
  BY DEF Line, IsKeyless
<1>10. BodyBegins(first, u, e)
  BY DEF BodyBegins
<1>11. IsDescription(third[1])
  BY DEF IsDescription
<1> HIDE DEF first, second, third, fourth, n, d
<1>12. IsBody(((first \o second) \o third) \o fourth, u, e, n, 6 + n + d)
  BY <1>1, <1>2, <1>5, <1>6, <1>7, <1>8, <1>9, <1>10, <1>11, Assembled
<1> QED BY <1>4, <1>12 DEF n, d

\* A line of the information is indented and has its key and value.
LEMMA InformationLine ==
    ASSUME NEW line, NEW info, NEW key, IsInformation(line, info, key)
    PROVE  line.indent = 2 /\ line.key = key /\ line.val = info[key]
BY DEF IsInformation, Line

\* The server drops lines at the end only, and none of the first 6 + n.
LEMMA Passed ==
    ASSUME NEW body, NEW u, NEW e, NEW n, NEW length, IsBody(body, u, e, n, length)
    PROVE  \E m \in Nat : IsBody(ThroughServer(body), u, e, n, m)
<1> DEFINE S == {i \in DOMAIN body : body[i].key # "" \/ body[i].val # Empty}
           m == Max(S)
<1>1. /\ n \in Nat /\ length \in Nat /\ 6 + n <= length
      /\ DOMAIN body = 1..length
      /\ \A i \in 7 + n..length : IsKeyless(body[i])
      /\ BodyBegins(body, u, e) /\ BodyGoesOn(body, e, n)
  BY Sequences DEF IsBody, IsSequence
<1>2. body[6 + n].key # ""
  BY <1>1 DEF BodyGoesOn, IsDescription, Line
<1>3. 6 + n \in S
  <2>1. 6 + n \in DOMAIN body
    BY <1>1
  <2> QED BY <2>1, <1>2, Zenon
<1>4. S \in SUBSET (1..length)
  BY <1>1
<1> HIDE DEF S
<1>5. m \in S /\ m >= 6 + n
  BY <1>1, <1>3, <1>4, Greatest
<1>6. ThroughServer(body) = SubSeq(body, 1, m)
  BY DEF ThroughServer, S
<1>7. m \in 1..length
  BY <1>4, <1>5
<1> HIDE DEF m
<1> DEFINE T == {body[i] : i \in 1..length}
           msg == SubSeq(body, 1, m)
<1>8. \A i \in 1..m : body[i] \in T
  BY <1>1, <1>7
<1>9. /\ msg \in Seq(T)
      /\ Len(msg) = m
      /\ \A i \in 1..m : msg[i] = body[i]
  <2> HIDE DEF T
  <2>1. 1 \in Int /\ m \in Int /\ 1 <= m
    BY <1>1, <1>7
  <2>2. /\ msg \in Seq(T)
        /\ Len(msg) = IF 1 <= m THEN m - 1 + 1 ELSE 0
        /\ \A i \in 1..m - 1 + 1 : msg[i] = body[1 + i - 1]
    BY <2>1, <1>8, SubSeqProperties
  <2> QED BY <2>1, <2>2
<1> HIDE DEF msg, T
<1>10. m \in Nat /\ 6 + n <= m /\ m <= length
  BY <1>1, <1>5, <1>7
<1>11. msg = [i \in 1..m |-> msg[i]]
  BY <1>9
<1>12. IsSequence(msg, m)
  BY <1>10, <1>11 DEF IsSequence
<1>13. BodyBegins(msg, u, e)
  <2>1. \A i \in 1..5 : msg[i] = body[i]
    BY <1>1, <1>9, <1>10
  <2>2. 1 \in 1..5 /\ 2 \in 1..5 /\ 3 \in 1..5 /\ 4 \in 1..5 /\ 5 \in 1..5
    OBVIOUS
  <2> QED BY <1>1, <2>1, <2>2 DEF BodyBegins
<1>14. BodyGoesOn(msg, e, n)
  <2>1. \A i \in 1..n : msg[5 + i] = body[5 + i]
    BY <1>1, <1>9, <1>10
  <2>2. msg[6 + n] = body[6 + n]
    BY <1>1, <1>9, <1>10
  <2> QED BY <1>1, <2>1, <2>2 DEF BodyGoesOn
<1>15. \A i \in 7 + n..m : IsKeyless(msg[i])
  <2> SUFFICES ASSUME NEW i \in 7 + n..m PROVE IsKeyless(msg[i])
    OBVIOUS
  <2>1. i \in 1..m /\ i \in 7 + n..length
    BY <1>1, <1>10
  <2> QED BY <2>1, <1>1, <1>9
<1>16. IsBody(msg, u, e, n, m)
  BY <1>1, <1>10, <1>12, <1>13, <1>14, <1>15 DEF IsBody
<1> QED BY <1>6, <1>10, <1>16 DEF msg

\* Where the constructor finds the lines it looks for
LEMMA LinesFound ==
    ASSUME NEW body, NEW u, NEW e, NEW n, NEW length, IsBody(body, u, e, n, length)
    PROVE  /\ LineOf(body, "user") = 1
           /\ LineOf(body, "city") = 2
           /\ LineOf(body, "event name") = 3
           /\ LineOf(body, "date time") = 4
           /\ LineOf(body, "general information") = 5
           /\ LineOf(body, "description") = 6 + n
<1>1. /\ n \in Nat /\ length \in Nat /\ 6 + n <= length
      /\ DOMAIN body = 1..length
      /\ \A i \in 7 + n..length : IsKeyless(body[i])
      /\ BodyBegins(body, u, e) /\ BodyGoesOn(body, e, n)
  BY Sequences DEF IsBody, IsSequence
<1>0. /\ body[1] = Line(0, "user", u)
      /\ body[2] = Line(0, "city", e.city)
      /\ body[3] = Line(0, "event name", e.name)
      /\ body[4] = Line(0, "date time", Text(e.date_time))
      /\ body[5] = Line(0, "general information", Empty)
  BY <1>1 DEF BodyBegins
<1>2. body[1].key = "user" /\ body[1].indent = 0
  <2>1. /\ Line(0, "user", u).key = "user"
        /\ Line(0, "user", u).indent = 0
    BY DEF Line
  <2> QED BY <1>0, <2>1, Zenon
<1>a. body[2].key = "city" /\ body[2].indent = 0
  <2>1. /\ Line(0, "city", e.city).key = "city"
        /\ Line(0, "city", e.city).indent = 0
    BY DEF Line
  <2> QED BY <1>0, <2>1, Zenon
<1>b. body[3].key = "event name" /\ body[3].indent = 0
  <2>1. /\ Line(0, "event name", e.name).key = "event name"
        /\ Line(0, "event name", e.name).indent = 0
    BY DEF Line
  <2> QED BY <1>0, <2>1, Zenon
<1>c. body[4].key = "date time" /\ body[4].indent = 0
  <2>1. /\ Line(0, "date time", Text(e.date_time)).key = "date time"
        /\ Line(0, "date time", Text(e.date_time)).indent = 0
    BY DEF Line
  <2> QED BY <1>0, <2>1, Zenon
<1>d. body[5].key = "general information" /\ body[5].indent = 0
  <2>1. /\ Line(0, "general information", Empty).key = "general information"
        /\ Line(0, "general information", Empty).indent = 0
    BY DEF Line
  <2> QED BY <1>0, <2>1, Zenon
<1>3. body[6 + n].key = "description" /\ body[6 + n].indent = 0
  BY <1>1 DEF BodyGoesOn, IsDescription, Line
<1>4. \A i \in 1..n : body[5 + i].indent # 0
  BY <1>1, InformationLine DEF BodyGoesOn
<1>5. \A i \in 7 + n..length : body[i].key = ""
  BY <1>1 DEF IsKeyless
<1>6. \A i \in DOMAIN body :
         \/ i \in {1, 2, 3, 4, 5, 6 + n}
         \/ body[i].indent # 0
         \/ body[i].key = ""
  <2> SUFFICES ASSUME NEW i \in DOMAIN body, i \notin {1, 2, 3, 4, 5, 6 + n}
               PROVE  body[i].indent # 0 \/ body[i].key = ""
    OBVIOUS
  <2>1. (i - 5 \in 1..n /\ i = 5 + (i - 5)) \/ i \in 7 + n..length
    BY <1>1
  <2> QED BY <2>1, <1>4, <1>5
<1>7. {1, 2, 3, 4, 5, 6 + n} \subseteq DOMAIN body
  BY <1>1
<1> QED BY <1>1, <1>2, <1>a, <1>b, <1>c, <1>d, <1>3, <1>6, <1>7 DEF LineOf

\* What NotedAsReported says of the fields
Agrees(got, was) ==
    /\ got.name = was.name /\ got.date_time = was.date_time
    /\ Arrived(got.city, was.city)
    /\ \A key \in DOMAIN was.general_information :
          /\ key \in DOMAIN got.general_information
          /\ Arrived(got.general_information[key], was.general_information[key])

\* The constructor finds the information under each key.
LEMMA InformationFound ==
    ASSUME NEW body, NEW u, NEW e, NEW n, NEW length, IsBody(body, u, e, n, length),
           "escription" \notin DOMAIN e.general_information,
           NEW key \in DOMAIN e.general_information
    PROVE  /\ key \in DOMAIN GeneralInformation(body)
           /\ Arrived(GeneralInformation(body)[key], e.general_information[key])
<1> DEFINE info  == e.general_information
           lines == InfoLines(body)
           has(i) == i \in lines /\ InfoKey(body[i]) = key
           place == CHOOSE i \in lines : InfoKey(body[i]) = key
<1>1. /\ n \in Nat /\ length \in Nat /\ 6 + n <= length
      /\ DOMAIN body = 1..length
      /\ BodyGoesOn(body, e, n)
  BY Sequences DEF IsBody, IsSequence
<1>2. lines = 6..6 + n
  <2>1. lines = {i \in DOMAIN body : i > 5 /\ i <= 6 + n}
    BY LinesFound DEF InfoLines
  <2> HIDE DEF lines
  <2> QED BY <2>1, <1>1
<1>3. PICK j \in 1..n : IsInformation(body[5 + j], info, key)
  BY <1>1 DEF BodyGoesOn
<1>4. 5 + j \in lines
  BY <1>1, <1>2, <1>3
<1>5. \A i \in 1..n : \E k \in DOMAIN info : /\ body[5 + i].val = info[k]
                                             /\ InfoKey(body[5 + i]) = k
  <2> SUFFICES ASSUME NEW i \in 1..n
               PROVE  \E k \in DOMAIN info : /\ body[5 + i].val = info[k]
                                             /\ InfoKey(body[5 + i]) = k
    OBVIOUS
  <2>1. PICK k \in DOMAIN info : IsInformation(body[5 + i], info, k)
    BY <1>1 DEF BodyGoesOn
  <2>2. body[5 + i].indent = 2 /\ body[5 + i].key = k /\ body[5 + i].val = info[k]
    BY <2>1, InformationLine
  <2>3. InfoKey(body[5 + i]) = k
    BY <2>2 DEF InfoKey
  <2> QED BY <2>2, <2>3
<1>6. InfoKey(body[5 + j]) = key
  <2>1. body[5 + j].indent = 2 /\ body[5 + j].key = key
    BY <1>3, InformationLine
  <2> QED BY <2>1 DEF InfoKey
<1>7. InfoKey(body[6 + n]) = "escription"
  <2>1. body[6 + n].indent = 0
    BY <1>1 DEF BodyGoesOn, IsDescription, Line
  <2>2. ~(body[6 + n].indent > 0)
    BY <2>1
  <2> QED BY <2>2, Zenon DEF InfoKey
<1> HIDE DEF lines
<1>8. place \in lines /\ InfoKey(body[place]) = key
  BY <1>4, <1>6
<1> HIDE DEF place
<1>9. place # 6 + n
  <2> SUFFICES ASSUME place = 6 + n PROVE FALSE
    OBVIOUS
  <2>1. key = "escription"
    BY <1>7, <1>8, Zenon
  <2> QED BY <2>1
<1>10. place - 5 \in 1..n /\ place = 5 + (place - 5)
  BY <1>1, <1>2, <1>8, <1>9
<1>11. body[place].val = info[key]
  BY <1>5, <1>8, <1>10
<1> DEFINE found == GeneralInformation(body)
<1>12. /\ DOMAIN found = {InfoKey(body[i]) : i \in lines}
       /\ key \in {InfoKey(body[i]) : i \in lines} => found[key] = ValueOf(body[place])
  BY DEF GeneralInformation, lines, place
<1>13. key \in DOMAIN found
  BY <1>4, <1>6, <1>12
<1>14. found[key] = ValueOf(body[place])
  BY <1>12, <1>13
<1>15. Arrived(ValueOf(body[place]), info[key])
  BY <1>11 DEF Arrived, ValueOf
<1> QED BY <1>13, <1>14, <1>15

\* What the constructor makes of a message about an event is that event, except
\* for the texts with a colon.
LEMMA ParsedBody ==
    ASSUME NEW body, NEW u, NEW e, NEW n, NEW length, IsBody(body, u, e, n, length),
           "escription" \notin DOMAIN e.general_information,
           ~u.colon, ~e.name.colon
    PROVE  ParseEvent(body).eventOwnerUser = u /\ Agrees(ParseEvent(body), e)
<1>1. /\ body[1] = Line(0, "user", u)
      /\ body[2] = Line(0, "city", e.city)
      /\ body[3] = Line(0, "event name", e.name)
      /\ body[4] = Line(0, "date time", Text(e.date_time))
  BY DEF IsBody, BodyBegins
<1>2. body[1].val = u
  <2>1. Line(0, "user", u).val = u
    BY DEF Line
  <2> QED BY <1>1, <2>1, Zenon
<1>3. body[2].val = e.city
  <2>1. Line(0, "city", e.city).val = e.city
    BY DEF Line
  <2> QED BY <1>1, <2>1, Zenon
<1>4. body[3].val = e.name
  <2>1. Line(0, "event name", e.name).val = e.name
    BY DEF Line
  <2> QED BY <1>1, <2>1, Zenon
<1>5. body[4].val = Text(e.date_time)
  <2>1. Line(0, "date time", Text(e.date_time)).val = Text(e.date_time)
    BY DEF Line
  <2> QED BY <1>1, <2>1, Zenon
<1>6. Field(body, "user") = u
  <2>1. ValueOf(body[1]) = u
    BY <1>2, Zenon DEF ValueOf
  <2> QED BY <2>1, LinesFound, Zenon DEF Field
<1>7. Arrived(Field(body, "city"), e.city)
  <2>1. Arrived(ValueOf(body[2]), e.city)
    BY <1>3, Zenon DEF ValueOf, Arrived
  <2> QED BY <2>1, LinesFound, Zenon DEF Field
<1>8. Field(body, "event name") = e.name
  <2>1. ValueOf(body[3]) = e.name
    BY <1>4, Zenon DEF ValueOf
  <2> QED BY <2>1, LinesFound, Zenon DEF Field
<1>9. Field(body, "date time").order = e.date_time
  <2>1. ValueOf(body[4]) = Text(e.date_time)
    BY <1>5 DEF ValueOf, Text
  <2>2. Field(body, "date time") = Text(e.date_time)
    BY <2>1, LinesFound, Zenon DEF Field
  <2>3. Text(e.date_time).order = e.date_time
    BY DEF Text
  <2> QED BY <2>2, <2>3, Zenon
<1>10. \A key \in DOMAIN e.general_information :
          /\ key \in DOMAIN GeneralInformation(body)
          /\ Arrived(GeneralInformation(body)[key], e.general_information[key])
  BY InformationFound, Zenon
<1> DEFINE got == ParseEvent(body)
<1>11. /\ got.eventOwnerUser = Field(body, "user")
       /\ got.city = Field(body, "city")
       /\ got.name = Field(body, "event name")
       /\ got.date_time = Field(body, "date time").order
       /\ got.general_information = GeneralInformation(body)
  BY Zenon DEF ParseEvent
<1> HIDE DEF got
<1>12. got.eventOwnerUser = u
  BY <1>6, <1>11
<1>13. Agrees(got, e)
  BY <1>7, <1>8, <1>9, <1>10, <1>11, Zenon DEF Agrees
<1> QED BY <1>12, <1>13 DEF got

\* What comes of an event that is formatted, passed on by the server and parsed:
\* its user, and an event that agrees with it.
LEMMA Parsed ==
    ASSUME NEW u, NEW e, IsFiniteSet(DOMAIN e.general_information),
           e.description \in Seq(Nat),
           "escription" \notin DOMAIN e.general_information,
           ~u.colon, ~e.name.colon
    PROVE  LET got == ParseEvent(ThroughServer(FormatEvent(u, e))) IN
           got.eventOwnerUser = u /\ Agrees(got, e)
<1> DEFINE n == Cardinality(DOMAIN e.general_information)
           length == 6 + n + Len(e.description)
<1>1. IsBody(FormatEvent(u, e), u, e, n, length)
  BY Formatted, Zenon
<1>2. PICK m \in Nat : IsBody(ThroughServer(FormatEvent(u, e)), u, e, n, m)
  BY <1>1, Passed, Zenon
<1> QED BY <1>2, ParsedBody, Zenon
-----------------------------------------------------------------------------
(* What is true of the sequences of frames, of messages and of notes *)

\* The events that clients read from files
FileEvents == UNION {{ParseEventsFile(f)[i] : i \in DOMAIN f.events} :
                        f \in {g \in Files : CanParse(g)}}

Bodies == {FormatEvent(u, e) : u \in Users, e \in FileEvents}
PassedBodies == {ThroughServer(body) : body \in Bodies}

ClientFrame == [type : {"SUBSCRIBE", "UNSUBSCRIBE"}, channel : Channels]
                  \cup [type : {"SEND"}, channel : Channels, no : Nat, body : Bodies]
ServerFrame == [type : {"ERROR"}]
                  \cup [type : {"MESSAGE"}, channel : Channels, no : Nat,
                        body : PassedBodies]
Note == [no : Nat, event : FileEvents \cup {ParseEvent(body) : body \in PassedBodies}]
ReportRecord == [channel : Channels, user : Users, event : FileEvents, by : Clients]

IsSend(frame) == frame.type = "SEND"
IsMessage(frame) == frame.type = "MESSAGE"

\* The numbers of the events in frames s
SendNos(s) == {s[i].no : i \in {k \in 1..Len(s) : IsSend(s[k])}}
MessageNos(s) == {s[i].no : i \in {k \in 1..Len(s) : IsMessage(s[k])}}
NoteNos(s) == {s[i].no : i \in 1..Len(s)}

\* A SEND of client p, who is user u, is about a report of theirs.
SendOf(frame, R, p, u) ==
    /\ frame.no \in 1..Len(R)
    /\ R[frame.no].by = p
    /\ R[frame.no].user = u
    /\ frame.channel = R[frame.no].channel
    /\ frame.body = FormatEvent(R[frame.no].user, R[frame.no].event)

\* A MESSAGE is about a report.  What comes back to client q, who is user u, was
\* reported under the same name.
MessageOf(msg, R, q, u) ==
    /\ msg.no \in 1..Len(R)
    /\ msg.channel = R[msg.no].channel
    /\ msg.body = ThroughServer(FormatEvent(R[msg.no].user, R[msg.no].event))
    /\ R[msg.no].by = q => R[msg.no].user = u

\* What is noted on channel ch under user u is a report of that user.
NoteOf(note, R, ch, u) ==
    /\ note.no \in 1..Len(R)
    /\ R[note.no].channel = ch
    /\ R[note.no].user = u
    /\ Agrees(note.event, R[note.no].event)

\* They follow each other as the reports did; messages, those of each client.
Sending(s, R, p, u) ==
    /\ \A i \in 1..Len(s) : IsSend(s[i]) => SendOf(s[i], R, p, u)
    /\ \A i, k \in 1..Len(s) :
          i < k /\ IsSend(s[i]) /\ IsSend(s[k]) => s[i].no < s[k].no

Messaging(s, R, q, u) ==
    /\ \A i \in 1..Len(s) : IsMessage(s[i]) => MessageOf(s[i], R, q, u)
    /\ \A i, k \in 1..Len(s) :
          i < k /\ IsMessage(s[i]) /\ IsMessage(s[k]) /\ R[s[i].no].by = R[s[k].no].by
             => s[i].no < s[k].no

Noting(s, R, ch, u) ==
    /\ \A i \in 1..Len(s) : NoteOf(s[i], R, ch, u)
    /\ \A i, k \in 1..Len(s) : i < k => s[i].no < s[k].no
-----------------------------------------------------------------------------
(* The inductive invariant *)

TypeInv ==
    /\ currentUsername \in [Clients -> Users \cup {Empty}]
    /\ online \in [Clients -> BOOLEAN]
    /\ channelToSubId \in [Clients -> SUBSET Channels]
    /\ userChannelEvents \in [Clients -> [Channels \X Users -> Seq(Note)]]
    /\ toServer \in [Clients -> Seq(ClientFrame)]
    /\ toClient \in [Clients -> Seq(ServerFrame)]
    /\ subscribers \in [Channels -> SUBSET Clients]
    /\ typed \in 0..MaxCommands
    /\ loggedIn \in SUBSET Users
    /\ reported \in Seq(ReportRecord)
    /\ Len(reported) <= MaxEvents
    /\ audience \in [1..MaxEvents -> SUBSET Clients]

\* Frames are on their way, connections subscribed, and users named, only where
\* there is a connection.
Connected ==
    /\ \A p \in Clients : ~online[p] => toServer[p] = <<>> /\ toClient[p] = <<>>
    /\ \A ch \in Channels : \A p \in subscribers[ch] : online[p]
    /\ \A p \in Clients : online[p] => currentUsername[p] \in Users

\* A user logs in once: all reports of a user are from one client, and whoever
\* has the name of a user is the client of that user.
OneClient ==
    /\ \A p \in Clients : online[p] => currentUsername[p] \in loggedIn
    /\ \A p \in Clients : currentUsername[p] \in loggedIn \cup {Empty}
    /\ \A p, q \in Clients :
          currentUsername[p] = currentUsername[q] /\ currentUsername[p] # Empty => p = q
    /\ \A n \in 1..Len(reported) :
          /\ reported[n].user \in loggedIn
          /\ \A p \in Clients :
                reported[n].user = currentUsername[p] => reported[n].by = p
          /\ \A m \in 1..Len(reported) :
                reported[n].user = reported[m].user => reported[n].by = reported[m].by

\* What was sent, passed on and noted is what was reported, in order.
Flowing ==
    /\ \A p \in Clients : Sending(toServer[p], reported, p, currentUsername[p])
    /\ \A p \in Clients : Messaging(toClient[p], reported, p, currentUsername[p])
    /\ \A p \in Clients : \A ch \in Channels, u \in Users :
          Noting(userChannelEvents[p][<<ch, u>>], reported, ch, u)

\* Messages were reported before what their reporter has still to send, and
\* what was noted before both.
MessagesFirst ==
    \A p, q \in Clients : \A m \in MessageNos(toClient[q]), s \in SendNos(toServer[p]) :
        reported[m].by = p => m < s

NotesFirst ==
    \A q \in Clients : \A ch \in Channels, u \in Users :
    \A n \in NoteNos(userChannelEvents[q][<<ch, u>>]) : reported[n].by # q =>
        /\ \A m \in MessageNos(toClient[q]) : reported[m].by = reported[n].by => n < m
        /\ \A s \in SendNos(toServer[reported[n].by]) : n < s

FlowInv == OneClient /\ Flowing /\ MessagesFirst /\ NotesFirst

\* Client p has noted report n.
Has(p, n) == n \in NoteNos(userChannelEvents[p][<<reported[n].channel, reported[n].user>>])

\* A reporter has noted its reports.  Who was sent a report has noted it, or will
\* handle the message.  Nobody was sent what nobody reported.
OwnNoted == \A n \in 1..Len(reported) : Has(reported[n].by, n)
PassedOn ==
    \A n \in 1..Len(reported) : \A q \in audience[n] :
        Has(q, n) \/ n \in MessageNos(toClient[q])
NotYet == \A n \in 1..MaxEvents : n > Len(reported) => audience[n] = {}

Reaching == OwnNoted /\ PassedOn /\ NotYet

\* R2 is R and later reports.
Extends(R2, R) == \A n \in 1..Len(R) : n \in 1..Len(R2) /\ R2[n] = R[n]

\* Notes and reports are only added.
Grows ==
    /\ Extends(reported', reported)
    /\ \A q \in Clients : \A ch \in Channels, u \in Users :
          NoteNos(userChannelEvents[q][<<ch, u>>])
             \subseteq NoteNos(userChannelEvents'[q][<<ch, u>>])
-----------------------------------------------------------------------------
(* How the sequences change *)

\* The entries of Head and Tail
LEMMA Shorter ==
    ASSUME NEW S, NEW s \in Seq(S), s # <<>>
    PROVE  /\ Head(s) = s[1] /\ Head(s) \in S /\ Tail(s) \in Seq(S)
           /\ Len(s) \in Nat /\ 1 \in 1..Len(s)
           /\ \A i \in 1..Len(Tail(s)) : i + 1 \in 1..Len(s) /\ Tail(s)[i] = s[i + 1]
OBVIOUS

\* The entries of two sequences, one after the other
LEMMA Longer ==
    ASSUME NEW S, NEW s \in Seq(S), NEW t \in Seq(S)
    PROVE  /\ s \o t \in Seq(S)
           /\ Len(s) \in Nat /\ Len(t) \in Nat /\ Len(s \o t) = Len(s) + Len(t)
           /\ \A i \in 1..Len(s) + Len(t) :
                 (s \o t)[i] = IF i <= Len(s) THEN s[i] ELSE t[i - Len(s)]
OBVIOUS

\* The entries of a sequence that is appended to
LEMMA OneMore ==
    ASSUME NEW S, NEW s \in Seq(S), NEW e \in S
    PROVE  /\ Append(s, e) \in Seq(S)
           /\ Len(s) \in Nat /\ Len(Append(s, e)) = Len(s) + 1
           /\ \A i \in 1..Len(s) : Append(s, e)[i] = s[i]
           /\ Append(s, e)[Len(s) + 1] = e
OBVIOUS

\* Frames of a client

\* Without its first frame it is still in order, and the first came before.
LEMMA SendingTail ==
    ASSUME NEW S, NEW s \in Seq(S), s # <<>>, NEW R, NEW p, NEW u, Sending(s, R, p, u)
    PROVE  /\ Sending(Tail(s), R, p, u)
           /\ SendNos(Tail(s)) \subseteq SendNos(s)
           /\ IsSend(Head(s)) =>
                 /\ SendOf(Head(s), R, p, u)
                 /\ Head(s).no \in SendNos(s)
                 /\ \A x \in SendNos(Tail(s)) : Head(s).no < x
<1>1. PICK t \in Seq(S) : t = Tail(s)
  BY Shorter
<1>2. PICK h \in S : h = Head(s)
  BY Shorter
<1>3. /\ h = s[1] /\ Len(s) \in Nat /\ 1 \in 1..Len(s) /\ Len(t) \in Nat
      /\ \A i \in 1..Len(t) : i + 1 \in 1..Len(s) /\ t[i] = s[i + 1]
  BY <1>1, <1>2, Shorter
<1>4. Sending(t, R, p, u)
  <2>1. \A i, k \in 1..Len(t) : i < k => i + 1 < k + 1
    BY <1>3
  <2> QED BY <1>3, <2>1 DEF Sending
<1>5. SendNos(t) \subseteq SendNos(s)
  BY <1>3 DEF SendNos
<1>6. ASSUME IsSend(h)
      PROVE  SendOf(h, R, p, u) /\ h.no \in SendNos(s)
  BY <1>3, <1>6 DEF Sending, SendNos
<1>7. ASSUME IsSend(h), NEW x \in SendNos(t) PROVE h.no < x
  <2>1. PICK i \in 1..Len(t) : IsSend(t[i]) /\ x = t[i].no
    BY DEF SendNos
  <2>2. i + 1 \in 1..Len(s) /\ 1 < i + 1 /\ t[i] = s[i + 1]
    BY <1>3
  <2> QED BY <1>3, <1>7, <2>1, <2>2 DEF Sending
<1> QED BY <1>1, <1>2, <1>4, <1>5, <1>6, <1>7

\* Frames with higher numbers can be added.
LEMMA SendingMore ==
    ASSUME NEW S, NEW s \in Seq(S), NEW t \in Seq(S), NEW R, NEW p, NEW u,
           Sending(s, R, p, u), Sending(t, R, p, u),
           \A x \in SendNos(s), y \in SendNos(t) : x < y
    PROVE  Sending(s \o t, R, p, u) /\ SendNos(s \o t) \subseteq SendNos(s) \cup SendNos(t)
<1>1. PICK q \in Seq(S) : q = s \o t
  BY Longer
<1>2. /\ Len(s) \in Nat /\ Len(t) \in Nat /\ Len(q) = Len(s) + Len(t)
      /\ \A i \in 1..Len(q) : q[i] = IF i <= Len(s) THEN s[i] ELSE t[i - Len(s)]
  BY <1>1, Longer
<1>3. \A i \in 1..Len(q) :
         \/ i \in 1..Len(s) /\ q[i] = s[i]
         \/ i > Len(s) /\ i - Len(s) \in 1..Len(t) /\ q[i] = t[i - Len(s)]
  BY <1>2
<1>4. \A i \in 1..Len(q) : IsSend(q[i]) => SendOf(q[i], R, p, u)
  BY <1>3 DEF Sending
<1>5. ASSUME NEW i \in 1..Len(q), NEW k \in 1..Len(q), i < k, IsSend(q[i]), IsSend(q[k])
      PROVE  q[i].no < q[k].no
  <2>1. CASE i \in 1..Len(s) /\ q[i] = s[i] /\ k \in 1..Len(s) /\ q[k] = s[k]
    BY <1>5, <2>1 DEF Sending
  <2>2. CASE /\ i \in 1..Len(s) /\ q[i] = s[i]
             /\ k - Len(s) \in 1..Len(t) /\ q[k] = t[k - Len(s)]
    <3>1. q[i].no \in SendNos(s) /\ q[k].no \in SendNos(t)
      BY <1>5, <2>2 DEF SendNos
    <3> QED BY <3>1
  <2>3. CASE /\ i - Len(s) \in 1..Len(t) /\ q[i] = t[i - Len(s)]
             /\ k - Len(s) \in 1..Len(t) /\ q[k] = t[k - Len(s)]
    <3>1. i - Len(s) < k - Len(s)
      BY <1>2, <1>5
    <3> QED BY <1>5, <2>3, <3>1 DEF Sending
  <2>4. ~ (i > Len(s) /\ k \in 1..Len(s))
    BY <1>2, <1>5
  <2> QED BY <1>3, <2>1, <2>2, <2>3, <2>4
<1>6. Sending(q, R, p, u)
  BY <1>4, <1>5 DEF Sending
<1>7. SendNos(q) \subseteq SendNos(s) \cup SendNos(t)
  <2> SUFFICES ASSUME NEW x \in SendNos(q) PROVE x \in SendNos(s) \cup SendNos(t)
    OBVIOUS
  <2>1. PICK i \in 1..Len(q) : IsSend(q[i]) /\ x = q[i].no
    BY DEF SendNos
  <2> QED BY <1>3, <2>1 DEF SendNos
<1> QED BY <1>1, <1>6, <1>7

\* Messages to a client

\* Without its first message it is still in order, and of each reporter the
\* first came before.
LEMMA MessagingTail ==
    ASSUME NEW S, NEW s \in Seq(S), s # <<>>, NEW R, NEW q, NEW u, Messaging(s, R, q, u)
    PROVE  /\ Messaging(Tail(s), R, q, u)
           /\ MessageNos(Tail(s)) \subseteq MessageNos(s)
           /\ \A x \in MessageNos(s) :
                 x \in MessageNos(Tail(s)) \/ (IsMessage(Head(s)) /\ x = Head(s).no)
           /\ IsMessage(Head(s)) =>
                 /\ MessageOf(Head(s), R, q, u)
                 /\ Head(s).no \in MessageNos(s)
                 /\ \A x \in MessageNos(Tail(s)) :
                       R[Head(s).no].by = R[x].by => Head(s).no < x
<1>1. PICK t \in Seq(S) : t = Tail(s)
  BY Shorter
<1>2. PICK h \in S : h = Head(s)
  BY Shorter
<1>3. /\ h = s[1] /\ Len(s) \in Nat /\ 1 \in 1..Len(s) /\ Len(t) \in Nat
      /\ \A i \in 1..Len(t) : i + 1 \in 1..Len(s) /\ t[i] = s[i + 1]
  BY <1>1, <1>2, Shorter
<1>4. Messaging(t, R, q, u)
  <2>1. \A i, k \in 1..Len(t) : i < k => i + 1 < k + 1
    BY <1>3
  <2> QED BY <1>3, <2>1 DEF Messaging
<1>5. MessageNos(t) \subseteq MessageNos(s)
  BY <1>3 DEF MessageNos
<1>6. ASSUME NEW x \in MessageNos(s), x \notin MessageNos(t)
      PROVE  IsMessage(h) /\ x = h.no
  <2>1. PICK i \in 1..Len(s) : IsMessage(s[i]) /\ x = s[i].no
    BY DEF MessageNos
  <2>2. CASE i = 1
    BY <1>3, <2>1, <2>2
  <2>3. CASE i # 1
    <3>0. Len(t) = Len(s) - 1
      BY <1>1
    <3>1. i - 1 \in 1..Len(t) /\ (i - 1) + 1 = i
      BY <1>3, <2>3, <3>0
    <3>2. t[i - 1] = s[i]
      BY <1>3, <3>1
    <3> QED BY <1>6, <2>1, <3>1, <3>2 DEF MessageNos
  <2> QED BY <2>2, <2>3
<1>7. ASSUME IsMessage(h)
      PROVE  MessageOf(h, R, q, u) /\ h.no \in MessageNos(s)
  BY <1>3, <1>7 DEF Messaging, MessageNos
<1>8. ASSUME IsMessage(h), NEW x \in MessageNos(t), R[h.no].by = R[x].by PROVE h.no < x
  <2>1. PICK i \in 1..Len(t) : IsMessage(t[i]) /\ x = t[i].no
    BY DEF MessageNos
  <2>2. i + 1 \in 1..Len(s) /\ 1 < i + 1 /\ t[i] = s[i + 1]
    BY <1>3
  <2> QED BY <1>3, <1>8, <2>1, <2>2 DEF Messaging
<1> QED BY <1>1, <1>2, <1>4, <1>5, <1>6, <1>7, <1>8

\* A message with a higher number than those of its reporter can be added.
LEMMA MessagingMore ==
    ASSUME NEW S, NEW s \in Seq(S), NEW msg \in S, NEW R, NEW q, NEW u,
           Messaging(s, R, q, u),
           IsMessage(msg) =>
              /\ MessageOf(msg, R, q, u)
              /\ \A x \in MessageNos(s) : R[x].by = R[msg.no].by => x < msg.no
    PROVE  /\ Messaging(Append(s, msg), R, q, u)
           /\ MessageNos(s) \subseteq MessageNos(Append(s, msg))
           /\ \A x \in MessageNos(Append(s, msg)) :
                 x \in MessageNos(s) \/ (IsMessage(msg) /\ x = msg.no)
           /\ IsMessage(msg) => msg.no \in MessageNos(Append(s, msg))
<1>1. PICK t \in Seq(S) : t = Append(s, msg)
  BY OneMore
<1>2. /\ Len(s) \in Nat /\ Len(t) = Len(s) + 1
      /\ \A i \in 1..Len(s) : t[i] = s[i]
      /\ t[Len(s) + 1] = msg
  BY <1>1, OneMore
<1>3. \A i \in 1..Len(t) :
         (i \in 1..Len(s) /\ t[i] = s[i]) \/ (i = Len(s) + 1 /\ t[i] = msg)
  BY <1>2
<1>4. \A i \in 1..Len(t) : IsMessage(t[i]) => MessageOf(t[i], R, q, u)
  BY <1>3 DEF Messaging
<1>5. ASSUME NEW i \in 1..Len(t), NEW k \in 1..Len(t), i < k,
             IsMessage(t[i]), IsMessage(t[k]), R[t[i].no].by = R[t[k].no].by
      PROVE  t[i].no < t[k].no
  <2>1. i \in 1..Len(s) /\ t[i] = s[i]
    BY <1>2, <1>3, <1>5
  <2>2. CASE k \in 1..Len(s) /\ t[k] = s[k]
    BY <1>5, <2>1, <2>2 DEF Messaging
  <2>3. CASE k = Len(s) + 1 /\ t[k] = msg
    <3>1. t[i].no \in MessageNos(s)
      BY <1>5, <2>1 DEF MessageNos
    <3> QED BY <1>5, <2>3, <3>1
  <2> QED BY <1>3, <2>2, <2>3
<1>6. Messaging(t, R, q, u)
  BY <1>4, <1>5 DEF Messaging
<1>7. ASSUME NEW x \in MessageNos(s) PROVE x \in MessageNos(t)
  <2>1. PICK i \in 1..Len(s) : IsMessage(s[i]) /\ x = s[i].no
    BY DEF MessageNos
  <2>2. i \in 1..Len(t) /\ t[i] = s[i]
    BY <1>2
  <2> QED BY <2>1, <2>2 DEF MessageNos
<1>8. ASSUME NEW x \in MessageNos(t), x \notin MessageNos(s)
      PROVE  IsMessage(msg) /\ x = msg.no
  <2>1. PICK i \in 1..Len(t) : IsMessage(t[i]) /\ x = t[i].no
    BY DEF MessageNos
  <2>2. ~ (i \in 1..Len(s) /\ t[i] = s[i])
    BY <1>8, <2>1 DEF MessageNos
  <2> QED BY <1>3, <2>1, <2>2
<1>9. ASSUME IsMessage(msg) PROVE msg.no \in MessageNos(t)
  <2>1. Len(s) + 1 \in 1..Len(t)
    BY <1>2
  <2> QED BY <1>2, <1>9, <2>1 DEF MessageNos
<1> QED BY <1>1, <1>6, <1>7, <1>8, <1>9

\* Notes

\* Notes with higher numbers can be added.
LEMMA NotingMore ==
    ASSUME NEW S, NEW s \in Seq(S), NEW t \in Seq(S), NEW R, NEW ch, NEW u,
           Noting(s, R, ch, u), Noting(t, R, ch, u),
           \A x \in NoteNos(s), y \in NoteNos(t) : x < y
    PROVE  /\ Noting(s \o t, R, ch, u)
           /\ NoteNos(s \o t) = NoteNos(s) \cup NoteNos(t)
<1>1. PICK q \in Seq(S) : q = s \o t
  BY Longer
<1>2. /\ Len(s) \in Nat /\ Len(t) \in Nat /\ Len(q) = Len(s) + Len(t)
      /\ \A i \in 1..Len(q) : q[i] = IF i <= Len(s) THEN s[i] ELSE t[i - Len(s)]
  BY <1>1, Longer
<1>3. \A i \in 1..Len(q) :
         \/ i \in 1..Len(s) /\ q[i] = s[i]
         \/ i > Len(s) /\ i - Len(s) \in 1..Len(t) /\ q[i] = t[i - Len(s)]
  BY <1>2
<1>4. \A i \in 1..Len(q) : NoteOf(q[i], R, ch, u)
  BY <1>3 DEF Noting
<1>5. ASSUME NEW i \in 1..Len(q), NEW k \in 1..Len(q), i < k
      PROVE  q[i].no < q[k].no
  <2>1. CASE i \in 1..Len(s) /\ q[i] = s[i] /\ k \in 1..Len(s) /\ q[k] = s[k]
    BY <1>5, <2>1 DEF Noting
  <2>2. CASE /\ i \in 1..Len(s) /\ q[i] = s[i]
             /\ k - Len(s) \in 1..Len(t) /\ q[k] = t[k - Len(s)]
    <3>1. q[i].no \in NoteNos(s) /\ q[k].no \in NoteNos(t)
      BY <2>2 DEF NoteNos
    <3> QED BY <3>1
  <2>3. CASE /\ i - Len(s) \in 1..Len(t) /\ q[i] = t[i - Len(s)]
             /\ k - Len(s) \in 1..Len(t) /\ q[k] = t[k - Len(s)]
    <3>1. i - Len(s) < k - Len(s)
      BY <1>2, <1>5
    <3> QED BY <2>3, <3>1 DEF Noting
  <2>4. ~ (i > Len(s) /\ k \in 1..Len(s))
    BY <1>2, <1>5
  <2> QED BY <1>3, <2>1, <2>2, <2>3, <2>4
<1>6. Noting(q, R, ch, u)
  BY <1>4, <1>5 DEF Noting
<1>7. NoteNos(q) \subseteq NoteNos(s) \cup NoteNos(t)
  BY <1>3 DEF NoteNos
<1>8. NoteNos(s) \subseteq NoteNos(q)
  BY <1>2 DEF NoteNos
<1>9. NoteNos(t) \subseteq NoteNos(q)
  <2> SUFFICES ASSUME NEW k \in 1..Len(t) PROVE t[k].no \in NoteNos(q)
    BY DEF NoteNos
  <2>1. Len(s) + k \in 1..Len(q) /\ q[Len(s) + k] = t[k]
    BY <1>2
  <2> QED BY <2>1 DEF NoteNos
<1> QED BY <1>1, <1>6, <1>7, <1>8, <1>9

\* Nothing is on its way where there is no connection.
LEMMA NothingThere ==
    ASSUME NEW R, NEW p, NEW u
    PROVE  /\ Sending(<<>>, R, p, u) /\ SendNos(<<>>) = {}
           /\ Messaging(<<>>, R, p, u) /\ MessageNos(<<>>) = {}
           /\ NoteNos(<<>>) = {}
           /\ \A ch : Noting(<<>>, R, ch, u)
BY DEF Sending, SendNos, Messaging, MessageNos, Noting, NoteNos

\* What is about a report stays so when others are added.
LEMMA MoreReports ==
    ASSUME NEW R, NEW R2, Extends(R2, R), NEW s, NEW p, NEW u, NEW ch
    PROVE  /\ Sending(s, R, p, u) => Sending(s, R2, p, u)
           /\ Messaging(s, R, p, u) => Messaging(s, R2, p, u)
           /\ Noting(s, R, ch, u) => Noting(s, R2, ch, u)
<1>1. ASSUME Sending(s, R, p, u) PROVE Sending(s, R2, p, u)
  BY <1>1 DEF Sending, SendOf, Extends
<1>2. ASSUME Messaging(s, R, p, u) PROVE Messaging(s, R2, p, u)
  BY <1>2 DEF Messaging, MessageOf, Extends
<1>3. ASSUME Noting(s, R, ch, u) PROVE Noting(s, R2, ch, u)
  BY <1>3 DEF Noting, NoteOf, Extends
<1> QED BY <1>1, <1>2, <1>3

\* What is noted under a channel and a user is theirs.
LEMMA NotesOf ==
    ASSUME NEW s, NEW R, NEW ch, NEW u, Noting(s, R, ch, u), NEW x \in NoteNos(s)
    PROVE  x \in 1..Len(R) /\ R[x].user = u /\ R[x].channel = ch
BY DEF Noting, NoteOf, NoteNos

\* What was there stays, whatever it is.
LEMMA MessagesAdded ==
    ASSUME NEW S, NEW s \in Seq(S), NEW msg \in S
    PROVE  /\ MessageNos(s) \subseteq MessageNos(Append(s, msg))
           /\ IsMessage(msg) => msg.no \in MessageNos(Append(s, msg))
<1>1. PICK t \in Seq(S) : t = Append(s, msg)
  BY OneMore
<1>2. /\ Len(s) \in Nat /\ Len(t) = Len(s) + 1
      /\ \A i \in 1..Len(s) : t[i] = s[i]
      /\ t[Len(s) + 1] = msg
  BY <1>1, OneMore
<1>3. /\ \A i \in 1..Len(s) : i \in 1..Len(t)
      /\ Len(s) + 1 \in 1..Len(t)
  BY <1>2
<1>4. MessageNos(s) \subseteq MessageNos(t)
  BY <1>2, <1>3 DEF MessageNos
<1>5. IsMessage(msg) => msg.no \in MessageNos(t)
  BY <1>2, <1>3 DEF MessageNos
<1> QED BY <1>1, <1>4, <1>5

\* An event of a file has what Parsed asks for.
LEMMA FileEvent ==
    ASSUME NEW e \in FileEvents
    PROVE  /\ IsFiniteSet(DOMAIN e.general_information)
           /\ e.description \in Seq(Nat)
           /\ "escription" \notin DOMAIN e.general_information
           /\ ~e.name.colon
<1>1. PICK f \in Files : CanParse(f) /\ e \in {ParseEventsFile(f)[i] : i \in DOMAIN f.events}
  BY DEF FileEvents
<1>2. PICK i \in DOMAIN f.events : e = ParseEventsFile(f)[i]
  BY <1>1
<1>3. ItemAssumption(f.events[i])
  BY <1>1, <1>2, EventAssumption
<1>4. /\ e.general_information = InformationIn(f.events[i])
      /\ e.description = f.events[i].description
      /\ e.name = f.events[i].event_name
  BY <1>2 DEF ParseEventsFile
<1> QED BY <1>3, <1>4, Zenon DEF ItemAssumption

\* What is read from a file is a sequence of events for a channel.
LEMMA FileRead ==
    ASSUME NEW f \in Files, CanParse(f)
    PROVE  f.channel_name \in Channels /\ ParseEventsFile(f) \in Seq(FileEvents)
<1>1. f.channel_name \in Channels /\ f.events \in Seq(Range(f.events))
  BY EventAssumption
<1>2. PICK n \in Nat : DOMAIN f.events = 1..n
  BY <1>1
<1> DEFINE events == ParseEventsFile(f)
<1>3. events = [i \in 1..n |-> events[i]]
  BY <1>2 DEF ParseEventsFile
<1>4. \A i \in 1..n : events[i] \in FileEvents
  BY <1>2 DEF FileEvents
<1> HIDE DEF events
<1>5. events \in [1..n -> FileEvents]
  BY <1>3, <1>4
<1>6. events \in Seq(FileEvents)
  BY <1>5
<1> QED BY <1>1, <1>6 DEF events

\* What was passed on is an event of a file and its user.
LEMMA BodyParsed ==
    ASSUME NEW u \in Users, NEW e \in FileEvents
    PROVE  LET got == ParseEvent(ThroughServer(FormatEvent(u, e))) IN
           got.eventOwnerUser = u /\ Agrees(got, e)
BY FileEvent, Parsed, EventAssumption, Zenon

\* A message that was passed on names a user.
LEMMA PassedUser ==
    ASSUME NEW body \in PassedBodies
    PROVE  ParseEvent(body).eventOwnerUser \in Users
<1>1. PICK u \in Users, e \in FileEvents : body = ThroughServer(FormatEvent(u, e))
  BY DEF PassedBodies, Bodies
<1>2. ParseEvent(ThroughServer(FormatEvent(u, e))).eventOwnerUser = u
  BY BodyParsed, Zenon
<1> QED BY <1>1, <1>2, Zenon

\* What report makes of the events of a file
NotesMade(R, events) ==
    [i \in DOMAIN events |-> [no |-> Len(R) + i, event |-> events[i]]]
FramesMade(R, events, ch, u) ==
    [i \in DOMAIN events |-> [type |-> "SEND", channel |-> ch, no |-> Len(R) + i,
                              body |-> FormatEvent(u, events[i])]]
RecordsMade(events, ch, u, p) ==
    [i \in DOMAIN events |-> [channel |-> ch, user |-> u, event |-> events[i], by |-> p]]

\* The types and lengths of what a report makes
LEMMA ReportTypes ==
    ASSUME NEW R \in Seq(ReportRecord), NEW events \in Seq(FileEvents),
           NEW ch \in Channels, NEW u \in Users, NEW p \in Clients
    PROVE  /\ NotesMade(R, events) \in Seq(Note)
           /\ FramesMade(R, events, ch, u) \in Seq(ClientFrame)
           /\ RecordsMade(events, ch, u, p) \in Seq(ReportRecord)
           /\ Len(NotesMade(R, events)) = Len(events)
           /\ Len(FramesMade(R, events, ch, u)) = Len(events)
           /\ Len(RecordsMade(events, ch, u, p)) = Len(events)
<1>1. PICK n \in Nat : n = Len(events)
  OBVIOUS
<1>2. DOMAIN events = 1..n /\ \A i \in 1..n : events[i] \in FileEvents
  BY <1>1
<1>3. PICK r \in Nat : r = Len(R)
  OBVIOUS
<1>4. NotesMade(R, events) \in [1..n -> Note]
  <2>1. \A i \in 1..n : [no |-> r + i, event |-> events[i]] \in Note
    BY <1>2 DEF Note
  <2> QED BY <1>2, <1>3, <2>1 DEF NotesMade
<1>5. FramesMade(R, events, ch, u) \in [1..n -> ClientFrame]
  <2>1. \A i \in 1..n : FormatEvent(u, events[i]) \in Bodies
    BY <1>2 DEF Bodies
  <2>2. \A i \in 1..n : [type |-> "SEND", channel |-> ch, no |-> r + i,
                         body |-> FormatEvent(u, events[i])] \in ClientFrame
    BY <2>1 DEF ClientFrame
  <2> QED BY <1>2, <1>3, <2>2 DEF FramesMade
<1>6. RecordsMade(events, ch, u, p) \in [1..n -> ReportRecord]
  <2>1. \A i \in 1..n : [channel |-> ch, user |-> u, event |-> events[i], by |-> p]
                            \in ReportRecord
    BY <1>2 DEF ReportRecord
  <2> QED BY <1>2, <2>1 DEF RecordsMade
<1>7. \A S : \A s \in [1..n -> S] : s \in Seq(S) /\ Len(s) = n
  OBVIOUS
<1> QED BY <1>1, <1>4, <1>5, <1>6, <1>7

\* The reports R2 are R and later ones, and what is sent and noted of these is in
\* their order.
Reported(R2, R, frames, notes, ch, u, p) ==
    /\ R2 \in Seq(ReportRecord)
    /\ Len(R2) = Len(R) + Len(frames)
    /\ Extends(R2, R)
    /\ \A n \in 1..Len(R2) : n > Len(R) =>
          /\ R2[n].channel = ch /\ R2[n].user = u /\ R2[n].by = p
          /\ n \in NoteNos(notes)
    /\ Sending(frames, R2, p, u)
    /\ Noting(notes, R2, ch, u)
    /\ \A n \in SendNos(frames) \cup NoteNos(notes) : n > Len(R) /\ n \in 1..Len(R2)

\* What report makes of a file is in the order of its events.
LEMMA ReportMakes ==
    ASSUME NEW R \in Seq(ReportRecord), NEW events \in Seq(FileEvents),
           NEW ch \in Channels, NEW u \in Users, NEW p \in Clients
    PROVE  Reported(R \o RecordsMade(events, ch, u, p), R, FramesMade(R, events, ch, u),
                    NotesMade(R, events), ch, u, p)
<1> DEFINE records == RecordsMade(events, ch, u, p)
           frames  == FramesMade(R, events, ch, u)
           notes   == NotesMade(R, events)
<1>1. PICK k \in Nat : k = Len(events) /\ DOMAIN events = 1..k
  OBVIOUS
<1>2. PICK r \in Nat : r = Len(R)
  OBVIOUS
<1>3. /\ notes \in Seq(Note) /\ frames \in Seq(ClientFrame)
      /\ records \in Seq(ReportRecord)
      /\ Len(notes) = k /\ Len(frames) = k /\ Len(records) = k
  BY <1>1, ReportTypes
<1>4. \A i \in 1..k : /\ records[i].channel = ch /\ records[i].user = u
                      /\ records[i].by = p /\ records[i].event = events[i]
  BY <1>1 DEF RecordsMade
<1>5. \A i \in 1..k : notes[i].no = r + i /\ notes[i].event = events[i]
  BY <1>1, <1>2 DEF NotesMade
<1>6. \A i \in 1..k : /\ frames[i].no = r + i /\ frames[i].channel = ch
                      /\ frames[i].body = FormatEvent(u, events[i])
  BY <1>1, <1>2 DEF FramesMade
<1> HIDE DEF records, frames, notes
<1>7. PICK R2 \in Seq(ReportRecord) : R2 = R \o records
  BY <1>3, Longer
<1>8. /\ Len(R2) = r + k
      /\ \A i \in 1..r + k : R2[i] = IF i <= r THEN R[i] ELSE records[i - r]
  <2>1. /\ Len(R \o records) = Len(R) + Len(records)
        /\ \A i \in 1..Len(R) + Len(records) :
              (R \o records)[i] = IF i <= Len(R) THEN R[i] ELSE records[i - Len(R)]
    BY <1>3, Longer
  <2> QED BY <1>2, <1>3, <1>7, <2>1
<1>9. Extends(R2, R)
  BY <1>1, <1>2, <1>8 DEF Extends
<1>10. \A i \in 1..k : r + i \in 1..r + k /\ r + i > r /\ R2[r + i] = records[i]
  <2> SUFFICES ASSUME NEW i \in 1..k
               PROVE  r + i \in 1..r + k /\ r + i > r /\ R2[r + i] = records[i]
    OBVIOUS
  <2>1. r + i \in 1..r + k /\ r + i > r /\ ~(r + i <= r) /\ (r + i) - r = i
    OBVIOUS
  <2> QED BY <2>1, <1>8
<1>11. \A n \in 1..Len(R2) : n > r =>
          /\ R2[n].channel = ch /\ R2[n].user = u /\ R2[n].by = p
          /\ n \in NoteNos(notes)
  <2> SUFFICES ASSUME NEW n \in 1..Len(R2), n > r
               PROVE  /\ R2[n].channel = ch /\ R2[n].user = u /\ R2[n].by = p
                      /\ n \in NoteNos(notes)
    OBVIOUS
  <2>1. n - r \in 1..k /\ r + (n - r) = n
    BY <1>8
  <2>2. n = notes[n - r].no
    BY <1>5, <2>1
  <2>3. n \in NoteNos(notes)
    BY <1>3, <2>1, <2>2 DEF NoteNos
  <2>4. R2[n] = records[n - r]
    BY <1>10, <2>1
  <2> QED BY <1>4, <2>1, <2>3, <2>4
<1>12. Sending(frames, R2, p, u)
  <2>1. \A i \in 1..k : SendOf(frames[i], R2, p, u)
    BY <1>4, <1>6, <1>8, <1>10 DEF SendOf
  <2>2. \A i, j \in 1..k : i < j => frames[i].no < frames[j].no
    BY <1>6
  <2> QED BY <1>3, <2>1, <2>2 DEF Sending
<1>13. Noting(notes, R2, ch, u)
  <2>1. \A i \in 1..k : Agrees(notes[i].event, R2[notes[i].no].event)
    <3> SUFFICES ASSUME NEW i \in 1..k
                 PROVE  Agrees(notes[i].event, R2[notes[i].no].event)
      OBVIOUS
    <3>1. R2[notes[i].no].event = events[i] /\ notes[i].event = events[i]
      BY <1>4, <1>5, <1>10
    <3>2. Agrees(events[i], events[i])
      BY DEF Agrees, Arrived
    <3> QED BY <3>1, <3>2
  <2>2. \A i \in 1..k : NoteOf(notes[i], R2, ch, u)
    <3> SUFFICES ASSUME NEW i \in 1..k PROVE NoteOf(notes[i], R2, ch, u)
      OBVIOUS
    <3>1. notes[i].no = r + i /\ r + i \in 1..Len(R2) /\ R2[r + i] = records[i]
      BY <1>5, <1>8, <1>10
    <3>2. R2[notes[i].no].channel = ch /\ R2[notes[i].no].user = u
      BY <1>4, <3>1
    <3> QED BY <2>1, <3>1, <3>2 DEF NoteOf
  <2>3. \A i, j \in 1..k : i < j => notes[i].no < notes[j].no
    BY <1>5
  <2> QED BY <1>3, <2>2, <2>3 DEF Noting
<1>14. \A n \in SendNos(frames) \cup NoteNos(notes) : n > r /\ n \in 1..Len(R2)
  <2>1. \A i \in 1..k : /\ frames[i].no > r /\ frames[i].no \in 1..Len(R2)
                        /\ notes[i].no > r /\ notes[i].no \in 1..Len(R2)
    BY <1>5, <1>6, <1>8, <1>10
  <2> QED BY <1>3, <2>1 DEF SendNos, NoteNos
<1>15. Reported(R2, R, frames, notes, ch, u, p)
  BY <1>1, <1>2, <1>3, <1>7, <1>8, <1>9, <1>11, <1>12, <1>13, <1>14 DEF Reported
<1> QED BY <1>7, <1>15 DEF records, frames, notes
-----------------------------------------------------------------------------
(* Types *)

\* The types, and where there is a connection
Typed == TypeInv /\ Connected

\* A step of a client or of the server that handles a frame of it
IsStep(p) ==
    \/ \E u \in Users : Login(p, u)
    \/ \E ch \in Channels : Join(p, ch) \/ Exit(p, ch) \/ (\E u \in Users : Summary(p, ch, u))
    \/ \E f \in Files : Report(p, f) \/ ReportFails(p, f)
    \/ Disconnect(p)
    \/ Subscribe(p)
    \/ Unsubscribe(p)
    \/ Send(p)
    \/ Receive(p)
    \/ ReceiveError(p)

\* Every step is one of some client's.
LEMMA StepsAre == Next => \E p \in Clients : IsStep(p)
BY DEF Next, Step, IsStep

\* The bounds are numbers.
LEMMA BoundsTyped == MaxCommands \in Nat /\ MaxEvents \in Nat
BY EventAssumption

\* The types hold at first,
LEMMA InitTyped == Init => Typed
<1> SUFFICES ASSUME Init PROVE Typed
  OBVIOUS
<1>1. TypeInv
  BY BoundsTyped DEF Init, TypeInv
<1>2. Connected
  BY DEF Init, Connected
<1> QED BY <1>1, <1>2 DEF Typed

\* after a login,
LEMMA LoginTyped ==
    ASSUME Typed, NEW p \in Clients, NEW u \in Users, Login(p, u) PROVE Typed'
<1>1. TypeInv'
  BY DEF Typed, TypeInv, Login, serverVars, netVars
<1>2. Connected'
  BY DEF Typed, TypeInv, Connected, Login, serverVars, netVars
<1> QED BY <1>1, <1>2 DEF Typed

\* after join or exit,
LEMMA CommandTyped ==
    ASSUME Typed, NEW p \in Clients, NEW ch \in Channels, Join(p, ch) \/ Exit(p, ch)
    PROVE  Typed'
<1>1. PICK frame \in ClientFrame : Sends(p, <<frame>>)
  BY DEF Join, Exit, ClientFrame
<1>2. toServer' \in [Clients -> Seq(ClientFrame)]
  BY <1>1 DEF Typed, TypeInv, Sends
<1>3. channelToSubId' \in [Clients -> SUBSET Channels]
  <2>1. PICK S \in SUBSET Channels : channelToSubId' = [channelToSubId EXCEPT ![p] = S]
    <3>1. channelToSubId[p] \cup {ch} \in SUBSET Channels
      BY DEF Typed, TypeInv
    <3>2. channelToSubId[p] \ {ch} \in SUBSET Channels
      BY DEF Typed, TypeInv
    <3> QED BY <3>1, <3>2 DEF Join, Exit
  <2> QED BY <2>1 DEF Typed, TypeInv
<1>4. typed' \in 0..MaxCommands
  BY BoundsTyped DEF Typed, TypeInv, Join, Exit, Types
<1>5. /\ UNCHANGED <<currentUsername, online, userChannelEvents, file, serverVars,
                     toClient, loggedIn, reported>>
      /\ online[p]
  BY DEF Join, Exit, Types
<1>6. TypeInv'
  BY <1>2, <1>3, <1>4, <1>5 DEF Typed, TypeInv, serverVars
<1>7. Connected'
  BY <1>1, <1>5 DEF Typed, TypeInv, Connected, Sends, serverVars
<1> QED BY <1>6, <1>7 DEF Typed

\* saveEventForUser changes what is noted under one key.
SavedAs(N2, N, p, ch, u, r) == N2 = [N EXCEPT ![p][<<ch, u>>] = r]

\* Only what is noted under that key changes.
LEMMA Saved ==
    ASSUME Typed, NEW p \in Clients, NEW ch \in Channels, NEW u \in Users,
           NEW r \in Seq(Note), SavedAs(userChannelEvents', userChannelEvents, p, ch, u, r)
    PROVE  /\ userChannelEvents' \in [Clients -> [Channels \X Users -> Seq(Note)]]
           /\ userChannelEvents'[p][<<ch, u>>] = r
           /\ \A q \in Clients : \A c \in Channels, v \in Users :
                 q # p \/ c # ch \/ v # u =>
                    userChannelEvents'[q][<<c, v>>] = userChannelEvents[q][<<c, v>>]
<1>1. PICK N \in [Clients -> [Channels \X Users -> Seq(Note)]] : N = userChannelEvents
  BY DEF Typed, TypeInv
<1>2. PICK N2 : N2 = userChannelEvents'
  OBVIOUS
<1>3. N2 = [N EXCEPT ![p] = [N[p] EXCEPT ![<<ch, u>>] = r]]
  BY <1>1, <1>2 DEF SavedAs
<1>4. [N[p] EXCEPT ![<<ch, u>>] = r] \in [Channels \X Users -> Seq(Note)]
  OBVIOUS
<1>5. N2 \in [Clients -> [Channels \X Users -> Seq(Note)]]
  BY <1>3, <1>4
<1>6. N2[p][<<ch, u>>] = r
  BY <1>3
<1>7. ASSUME NEW q \in Clients, NEW c \in Channels, NEW v \in Users,
             q # p \/ c # ch \/ v # u
      PROVE  N2[q][<<c, v>>] = N[q][<<c, v>>]
  BY <1>3, <1>7
<1> QED BY <1>1, <1>2, <1>5, <1>6, <1>7

\* What report does, with its events as a constant
LEMMA ReportDoes ==
    ASSUME Typed, NEW p \in Clients, NEW f \in Files, Report(p, f)
    PROVE  \E ch \in Channels, u \in Users, events \in Seq(FileEvents) :
              /\ u = currentUsername[p] /\ online[p]
              /\ Len(reported) + Len(events) <= MaxEvents
              /\ SavedAs(userChannelEvents', userChannelEvents, p, ch, u,
                         userChannelEvents[p][<<ch, u>>] \o NotesMade(reported, events))
              /\ toServer' = [toServer EXCEPT ![p] =
                                 @ \o FramesMade(reported, events, ch, u)]
              /\ reported' = reported \o RecordsMade(events, ch, u, p)
              /\ typed < MaxCommands /\ typed' = typed + 1
              /\ UNCHANGED <<currentUsername, online, channelToSubId, file, serverVars,
                             toClient, loggedIn>>
<1>1. CanParse(f) /\ online[p]
  BY DEF Report, Types
<1>2. f.channel_name \in Channels /\ ParseEventsFile(f) \in Seq(FileEvents)
  BY <1>1, FileRead
<1>3. currentUsername[p] \in Users
  BY <1>1 DEF Typed, Connected
<1> QED BY <1>1, <1>2, <1>3
        DEF Report, Types, SaveEvents, SavedAs, Sends, NotesMade, FramesMade, RecordsMade

\* The types hold after a report,
LEMMA ReportTyped ==
    ASSUME Typed, NEW p \in Clients, NEW f \in Files, Report(p, f)
    PROVE  Typed'
<1>1. PICK ch \in Channels, u \in Users, events \in Seq(FileEvents) :
              /\ u = currentUsername[p] /\ online[p]
              /\ Len(reported) + Len(events) <= MaxEvents
              /\ SavedAs(userChannelEvents', userChannelEvents, p, ch, u,
                         userChannelEvents[p][<<ch, u>>] \o NotesMade(reported, events))
              /\ toServer' = [toServer EXCEPT ![p] =
                                 @ \o FramesMade(reported, events, ch, u)]
              /\ reported' = reported \o RecordsMade(events, ch, u, p)
              /\ typed < MaxCommands /\ typed' = typed + 1
              /\ UNCHANGED <<currentUsername, online, channelToSubId, file, serverVars,
                             toClient, loggedIn>>
  BY ReportDoes, Zenon
<1>2. /\ reported \in Seq(ReportRecord)
      /\ userChannelEvents \in [Clients -> [Channels \X Users -> Seq(Note)]]
      /\ toServer \in [Clients -> Seq(ClientFrame)]
      /\ typed \in 0..MaxCommands
  BY DEF Typed, TypeInv
<1>3. /\ NotesMade(reported, events) \in Seq(Note)
      /\ FramesMade(reported, events, ch, u) \in Seq(ClientFrame)
  BY <1>2, ReportTypes
<1>4. reported' \in Seq(ReportRecord) /\ Len(reported') = Len(reported) + Len(events)
  <2>1. Reported(reported', reported, FramesMade(reported, events, ch, u),
                 NotesMade(reported, events), ch, u, p)
    BY <1>1, <1>2, ReportMakes, Zenon
  <2>2. Len(FramesMade(reported, events, ch, u)) = Len(events)
    BY <1>2, ReportTypes
  <2> QED BY <2>1, <2>2 DEF Reported
<1>5. userChannelEvents' \in [Clients -> [Channels \X Users -> Seq(Note)]]
  <2>1. userChannelEvents[p][<<ch, u>>] \o NotesMade(reported, events) \in Seq(Note)
    BY <1>2, <1>3, Longer
  <2> QED BY <1>1, <1>2, <2>1, Saved
<1>6. toServer' \in [Clients -> Seq(ClientFrame)]
  BY <1>1, <1>2, <1>3
<1>7. typed' \in 0..MaxCommands
  BY <1>1, <1>2, BoundsTyped
<1>8. TypeInv'
  BY <1>1, <1>4, <1>5, <1>6, <1>7 DEF Typed, TypeInv, serverVars
<1>9. Connected'
  BY <1>1, <1>2 DEF Typed, TypeInv, Connected, serverVars
<1> QED BY <1>8, <1>9 DEF Typed

\* after one that fails,
LEMMA ReportFailsTyped ==
    ASSUME Typed, NEW p \in Clients, NEW f \in Files, ReportFails(p, f)
    PROVE  Typed'
<1>1. typed' \in 0..MaxCommands
  BY BoundsTyped DEF Typed, TypeInv, ReportFails, Types
<1>2. TypeInv'
  BY <1>1 DEF Typed, TypeInv, ReportFails, clientVars, serverVars, netVars
<1>3. Connected'
  BY DEF Typed, Connected, ReportFails, clientVars, serverVars, netVars
<1> QED BY <1>2, <1>3 DEF Typed

\* after a summary,
LEMMA SummaryTyped ==
    ASSUME Typed, NEW p \in Clients, NEW ch \in Channels, NEW u \in Users,
           Summary(p, ch, u)
    PROVE  Typed'
BY DEF Typed, TypeInv, Connected, Summary, serverVars, netVars

\* and after a disconnection.
LEMMA DisconnectTyped ==
    ASSUME Typed, NEW p \in Clients, Disconnect(p) PROVE Typed'
<1>1. <<>> \in Seq(ClientFrame) /\ <<>> \in Seq(ServerFrame)
  OBVIOUS
<1>2. TypeInv'
  BY <1>1 DEF Typed, TypeInv, Disconnect
<1>3. Connected'
  BY DEF Typed, TypeInv, Connected, Disconnect
<1> QED BY <1>2, <1>3 DEF Typed

\* What the server does with a frame, of whatever type
LEMMA ServesDoes ==
    ASSUME Typed, NEW p \in Clients, NEW type, Serves(p, type)
    PROVE  /\ toServer[p] \in Seq(ClientFrame) /\ toServer[p] # <<>>
           /\ Head(toServer[p]) \in ClientFrame /\ Head(toServer[p]).type = type
           /\ toServer' = [toServer EXCEPT ![p] = Tail(@)]
           /\ toServer' \in [Clients -> Seq(ClientFrame)]
           /\ online[p]
           /\ UNCHANGED <<clientVars, typed, loggedIn, reported>>
<1>1. toServer[p] \in Seq(ClientFrame) /\ toServer[p] # <<>>
  BY DEF Typed, TypeInv, Serves
<1>2. Head(toServer[p]) \in ClientFrame /\ Tail(toServer[p]) \in Seq(ClientFrame)
  BY <1>1
<1>3. toServer' = [toServer EXCEPT ![p] = Tail(toServer[p])]
  BY DEF Serves
<1>4. toServer' \in [Clients -> Seq(ClientFrame)]
  BY <1>2, <1>3 DEF Typed, TypeInv
<1>5. online[p]
  BY <1>1 DEF Typed, Connected
<1> QED BY <1>1, <1>2, <1>4, <1>5 DEF Serves

\* The types hold after a request is refused,
LEMMA RefuseTyped ==
    ASSUME Typed, NEW p \in Clients, NEW type, Serves(p, type), Refuse(p)
    PROVE  Typed'
<1>1. PICK e \in ServerFrame : toClient' = [toClient EXCEPT ![p] = Append(@, e)]
  BY DEF Refuse, ServerFrame
<1>2. toClient' \in [Clients -> Seq(ServerFrame)]
  BY <1>1 DEF Typed, TypeInv
<1>3. TypeInv'
  BY <1>2, ServesDoes DEF Typed, TypeInv, Refuse, clientVars, serverVars
<1>4. Connected'
  <2>1. /\ UNCHANGED <<online, currentUsername, subscribers>> /\ online[p]
        /\ toServer' = [toServer EXCEPT ![p] = Tail(@)]
    BY ServesDoes DEF Refuse, clientVars, serverVars
  <2> QED BY <1>1, <2>1 DEF Typed, TypeInv, Connected
<1> QED BY <1>3, <1>4 DEF Typed

\* after a SUBSCRIBE,
LEMMA SubscribeTyped ==
    ASSUME Typed, NEW p \in Clients, Subscribe(p) PROVE Typed'
<1>1. PICK ch : ch = Head(toServer[p]).channel
  OBVIOUS
<1>2. Serves(p, "SUBSCRIBE")
  BY DEF Subscribe
<1>3. ch \in Channels
  BY <1>1, <1>2, ServesDoes DEF ClientFrame
<1>4. CASE Refuse(p)
  BY <1>2, <1>4, RefuseTyped
<1>5. CASE /\ subscribers' = [subscribers EXCEPT ![ch] = @ \cup {p}]
           /\ UNCHANGED <<audience, toClient>>
  <2>1. subscribers' \in [Channels -> SUBSET Clients]
    BY <1>3, <1>5 DEF Typed, TypeInv
  <2>2. TypeInv'
    BY <1>2, <1>5, <2>1, ServesDoes DEF Typed, TypeInv, clientVars
  <2>3. Connected'
    <3>1. /\ UNCHANGED <<online, currentUsername, toClient>> /\ online[p]
          /\ toServer' = [toServer EXCEPT ![p] = Tail(@)]
      BY <1>2, <1>5, ServesDoes DEF clientVars
    <3>2. \A c \in Channels : subscribers'[c] \subseteq subscribers[c] \cup {p}
      BY <1>3, <1>5 DEF Typed, TypeInv
    <3> QED BY <3>1, <3>2 DEF Typed, TypeInv, Connected
  <2> QED BY <2>2, <2>3 DEF Typed
<1> QED BY <1>1, <1>4, <1>5 DEF Subscribe

\* and after an UNSUBSCRIBE.
LEMMA UnsubscribeTyped ==
    ASSUME Typed, NEW p \in Clients, Unsubscribe(p) PROVE Typed'
<1>1. Serves(p, "UNSUBSCRIBE")
  BY DEF Unsubscribe
<1>2. CASE Refuse(p)
  BY <1>1, <1>2, RefuseTyped
<1>3. ASSUME NEW ch \in Channels, subscribers' = [subscribers EXCEPT ![ch] = @ \ {p}],
             UNCHANGED <<audience, toClient>>
      PROVE  Typed'
  <2>1. subscribers' \in [Channels -> SUBSET Clients]
    BY <1>3 DEF Typed, TypeInv
  <2>2. TypeInv'
    BY <1>1, <1>3, <2>1, ServesDoes DEF Typed, TypeInv, clientVars
  <2>3. Connected'
    <3>1. /\ UNCHANGED <<online, currentUsername, toClient>> /\ online[p]
          /\ toServer' = [toServer EXCEPT ![p] = Tail(@)]
      BY <1>1, <1>3, ServesDoes DEF clientVars
    <3>2. \A c \in Channels : subscribers'[c] \subseteq subscribers[c]
      BY <1>3 DEF Typed, TypeInv
    <3> QED BY <3>1, <3>2 DEF Typed, TypeInv, Connected
  <2> QED BY <2>2, <2>3 DEF Typed
<1> QED BY <1>2, <1>3 DEF Unsubscribe

\* A SEND becomes a message to connected clients.
LEMMA SendDoes ==
    ASSUME Typed, NEW p \in Clients, Serves(p, "SEND"), NEW to, NEW frame, NEW msg,
           frame = Head(toServer[p]), to = subscribers[frame.channel],
           msg = [type |-> "MESSAGE", channel |-> frame.channel, no |-> frame.no,
                  body |-> ThroughServer(frame.body)]
    PROVE  /\ msg \in ServerFrame /\ to \in SUBSET Clients
           /\ frame.no \in Nat
           /\ \A q \in to : online[q]
<1>1. frame \in [type : {"SEND"}, channel : Channels, no : Nat, body : Bodies]
  <2>1. frame \in ClientFrame /\ frame.type = "SEND"
    BY ServesDoes
  <2> QED BY <2>1 DEF ClientFrame
<1>2. msg \in ServerFrame
  BY <1>1 DEF ServerFrame, PassedBodies
<1> QED BY <1>1, <1>2 DEF Typed, TypeInv, Connected

\* The types hold after a SEND.
LEMMA SendTyped ==
    ASSUME Typed, NEW p \in Clients, Send(p) PROVE Typed'
<1>1. PICK frame : frame = Head(toServer[p])
  OBVIOUS
<1>2. PICK to : to = subscribers[frame.channel]
  OBVIOUS
<1>3. PICK msg : msg = [type |-> "MESSAGE", channel |-> frame.channel, no |-> frame.no,
                        body |-> ThroughServer(frame.body)]
  OBVIOUS
<1>4. Serves(p, "SEND")
  BY DEF Send
<1>5. CASE Refuse(p)
  BY <1>4, <1>5, RefuseTyped
<1>6. CASE /\ toClient' = [q \in Clients |->
                  IF q \in to THEN Append(toClient[q], msg) ELSE toClient[q]]
           /\ audience' = [audience EXCEPT ![frame.no] = to]
           /\ UNCHANGED subscribers
  <2>1. msg \in ServerFrame /\ to \in SUBSET Clients /\ \A q \in to : online[q]
    BY <1>1, <1>2, <1>3, <1>4, SendDoes
  <2>2. toClient' \in [Clients -> Seq(ServerFrame)]
    BY <1>6, <2>1 DEF Typed, TypeInv
  <2>3. audience' \in [1..MaxEvents -> SUBSET Clients]
    BY <1>6, <2>1 DEF Typed, TypeInv
  <2>4. TypeInv'
    BY <1>4, <1>6, <2>2, <2>3, ServesDoes DEF Typed, TypeInv, clientVars
  <2>5. Connected'
    BY <1>4, <1>6, <2>1, ServesDoes DEF Typed, TypeInv, Connected, clientVars
  <2> QED BY <2>4, <2>5 DEF Typed
<1> QED BY <1>1, <1>2, <1>3, <1>5, <1>6 DEF Send

\* What client p notes of a message
NotesAfter(p, msg) ==
    userChannelEvents[p][<<msg.channel, ParseEvent(msg.body).eventOwnerUser>>]
        \o <<[no |-> msg.no, event |-> ParseEvent(msg.body)]>>

\* What a client does with a message, with the message as a constant
LEMMA ReceiveDoes ==
    ASSUME Typed, NEW p \in Clients, Receive(p)
    PROVE  \E msg \in ServerFrame :
              /\ toClient[p] \in Seq(ServerFrame) /\ toClient[p] # <<>>
              /\ msg = Head(toClient[p]) /\ msg.type = "MESSAGE"
              /\ msg.channel \in Channels /\ msg.no \in Nat /\ msg.body \in PassedBodies
              /\ toClient' = [toClient EXCEPT ![p] = Tail(@)]
              /\ \/ /\ ParseEvent(msg.body).eventOwnerUser \notin {Empty, currentUsername[p]}
                    /\ SavedAs(userChannelEvents', userChannelEvents, p, msg.channel,
                               ParseEvent(msg.body).eventOwnerUser,
                               NotesAfter(p, msg))
                 \/ /\ ParseEvent(msg.body).eventOwnerUser \in {Empty, currentUsername[p]}
                    /\ UNCHANGED userChannelEvents
              /\ UNCHANGED <<currentUsername, online, channelToSubId, file, serverVars,
                             toServer, typed, loggedIn, reported>>
<1>1. toClient[p] \in Seq(ServerFrame) /\ toClient[p] # <<>>
  BY DEF Typed, TypeInv, Receive
<1>2. PICK msg \in ServerFrame : msg = Head(toClient[p])
  BY <1>1
<1>3. msg.type = "MESSAGE"
  BY <1>2 DEF Receive
<1>4. msg \in [type : {"MESSAGE"}, channel : Channels, no : Nat, body : PassedBodies]
  BY <1>3 DEF ServerFrame
<1>5. msg.channel \in Channels /\ msg.no \in Nat /\ msg.body \in PassedBodies
  BY <1>4
<1> QED BY <1>1, <1>2, <1>3, <1>5, Zenon DEF Receive, SaveEvents, SavedAs, NotesAfter

\* The types hold after a message.
LEMMA ReceiveTyped ==
    ASSUME Typed, NEW p \in Clients, Receive(p) PROVE Typed'
<1>1. PICK msg \in ServerFrame :
              /\ toClient[p] \in Seq(ServerFrame) /\ toClient[p] # <<>>
              /\ msg = Head(toClient[p]) /\ msg.type = "MESSAGE"
              /\ msg.channel \in Channels /\ msg.no \in Nat /\ msg.body \in PassedBodies
              /\ toClient' = [toClient EXCEPT ![p] = Tail(@)]
              /\ \/ /\ ParseEvent(msg.body).eventOwnerUser \notin {Empty, currentUsername[p]}
                    /\ SavedAs(userChannelEvents', userChannelEvents, p, msg.channel,
                               ParseEvent(msg.body).eventOwnerUser,
                               NotesAfter(p, msg))
                 \/ /\ ParseEvent(msg.body).eventOwnerUser \in {Empty, currentUsername[p]}
                    /\ UNCHANGED userChannelEvents
              /\ UNCHANGED <<currentUsername, online, channelToSubId, file, serverVars,
                             toServer, typed, loggedIn, reported>>
  BY ReceiveDoes, Zenon
<1>2. ParseEvent(msg.body).eventOwnerUser \in Users
  BY <1>1, PassedUser
<1>3. [no |-> msg.no, event |-> ParseEvent(msg.body)] \in Note
  BY <1>1 DEF Note
<1>4. <<[no |-> msg.no, event |-> ParseEvent(msg.body)]>> \in Seq(Note)
  BY <1>3
<1>5. userChannelEvents \in [Clients -> [Channels \X Users -> Seq(Note)]]
  BY DEF Typed, TypeInv
<1>6. userChannelEvents' \in [Clients -> [Channels \X Users -> Seq(Note)]]
  <2>1. NotesAfter(p, msg) \in Seq(Note)
    <3>1. userChannelEvents[p][<<msg.channel, ParseEvent(msg.body).eventOwnerUser>>]
             \in Seq(Note)
      BY <1>1, <1>2, <1>5
    <3> QED BY <1>4, <3>1, Longer DEF NotesAfter
  <2> QED BY <1>1, <1>2, <1>5, <2>1, Saved
<1>7. toClient' \in [Clients -> Seq(ServerFrame)]
  <2>1. Tail(toClient[p]) \in Seq(ServerFrame)
    BY <1>1, Shorter
  <2> QED BY <1>1, <2>1 DEF Typed, TypeInv
<1>8. TypeInv'
  BY <1>1, <1>6, <1>7 DEF Typed, TypeInv, serverVars
<1>9. Connected'
  BY <1>1 DEF Typed, TypeInv, Connected, serverVars
<1> QED BY <1>8, <1>9 DEF Typed

\* What is always true of the types
LEMMA StepTyped == Typed /\ [Next]_vars => Typed'
<1>1. ASSUME Typed, UNCHANGED vars PROVE Typed'
  BY <1>1 DEF Typed, TypeInv, Connected, vars, clientVars, serverVars, netVars
<1>2. ASSUME Typed, NEW p \in Clients, IsStep(p) PROVE Typed'
  <2>1. CASE \E u \in Users : Login(p, u)
    BY <1>2, <2>1, LoginTyped
  <2>2. CASE \E ch \in Channels : Join(p, ch) \/ Exit(p, ch) \/ (\E u \in Users : Summary(p, ch, u))
    BY <1>2, <2>2, CommandTyped, SummaryTyped
  <2>3. CASE \E f \in Files : Report(p, f) \/ ReportFails(p, f)
    BY <1>2, <2>3, ReportTyped, ReportFailsTyped
  <2>4. CASE Disconnect(p) \/ ReceiveError(p)
    BY <1>2, <2>4, DisconnectTyped DEF ReceiveError
  <2>5. CASE Subscribe(p) \/ Unsubscribe(p) \/ Send(p) \/ Receive(p)
    BY <1>2, <2>5, SubscribeTyped, UnsubscribeTyped, SendTyped, ReceiveTyped
  <2> QED BY <1>2, <2>1, <2>2, <2>3, <2>4, <2>5 DEF IsStep
<1> QED BY <1>1, <1>2, StepsAre
-----------------------------------------------------------------------------
(* The order of what is on its way *)

\* Nothing has flowed at first.
LEMMA InitFlow == Init => FlowInv
<1> SUFFICES ASSUME Init PROVE FlowInv
  OBVIOUS
<1>1. OneClient
  BY DEF Init, OneClient
<1>2. Flowing
  <2>1. \A p \in Clients : toServer[p] = <<>> /\ toClient[p] = <<>>
    BY DEF Init
  <2>2. \A p \in Clients, ch \in Channels, u \in Users :
           userChannelEvents[p][<<ch, u>>] = <<>>
    BY DEF Init
  <2> QED BY <2>1, <2>2, NothingThere DEF Flowing
<1>3. MessagesFirst
  <2>1. \A p \in Clients : MessageNos(toClient[p]) = {}
    BY NothingThere DEF Init
  <2> QED BY <2>1 DEF MessagesFirst
<1>4. NotesFirst
  <2>1. \A p \in Clients, ch \in Channels, u \in Users :
           NoteNos(userChannelEvents[p][<<ch, u>>]) = {}
    BY NothingThere DEF Init
  <2> QED BY <2>1 DEF NotesFirst
<1> QED BY <1>1, <1>2, <1>3, <1>4 DEF FlowInv

\* OneClient needs the users and the reports only.
LEMMA SameUsers ==
    ASSUME OneClient, UNCHANGED <<currentUsername, loggedIn, reported>>,
           \A p \in Clients : online'[p] => online[p]
    PROVE  OneClient'
BY DEF OneClient

\* Nothing is sent or passed on, but some of it may be lost.
LEMMA FlowShrinks ==
    ASSUME FlowInv, UNCHANGED <<currentUsername, loggedIn, reported, userChannelEvents>>,
           \A p \in Clients : online'[p] => online[p],
           \A p \in Clients :
              /\ Sending(toServer'[p], reported, p, currentUsername[p])
              /\ SendNos(toServer'[p]) \subseteq SendNos(toServer[p])
              /\ Messaging(toClient'[p], reported, p, currentUsername[p])
              /\ MessageNos(toClient'[p]) \subseteq MessageNos(toClient[p]),
           \A n \in 1..Len(reported) : reported[n].by \in Clients
    PROVE  FlowInv'
<1>1. OneClient'
  BY SameUsers DEF FlowInv
<1>2. Flowing'
  BY DEF FlowInv, Flowing
<1>3. MessagesFirst'
  BY DEF FlowInv, MessagesFirst
<1>4. NotesFirst'
  <2> SUFFICES ASSUME NEW q \in Clients, NEW ch \in Channels, NEW u \in Users,
                      NEW n \in NoteNos(userChannelEvents[q][<<ch, u>>]),
                      reported[n].by # q
               PROVE  /\ \A m \in MessageNos(toClient'[q]) :
                            reported[m].by = reported[n].by => n < m
                      /\ \A s \in SendNos(toServer'[reported[n].by]) : n < s
    BY DEF NotesFirst
  <2>1. n \in 1..Len(reported)
    BY DEF FlowInv, Flowing, Noting, NoteOf, NoteNos
  <2> QED BY <2>1 DEF FlowInv, NotesFirst
<1> QED BY <1>1, <1>2, <1>3, <1>4 DEF FlowInv

\* Every report has a reporter.
LEMMA Reporters ==
    ASSUME Typed, NEW n \in 1..Len(reported)
    PROVE  reported[n] \in ReportRecord /\ reported[n].by \in Clients
<1>1. reported \in Seq(ReportRecord)
  BY DEF Typed, TypeInv
<1>2. reported[n] \in ReportRecord
  BY <1>1
<1> QED BY <1>2 DEF ReportRecord

\* Nothing is on its way to a client that logs in, and its user is new.
LEMMA LoginFlow ==
    ASSUME Typed, FlowInv, NEW p \in Clients, NEW u \in Users, Login(p, u)
    PROVE  FlowInv'
<1>1. /\ currentUsername' = [currentUsername EXCEPT ![p] = u]
      /\ online' = [online EXCEPT ![p] = TRUE]
      /\ loggedIn' = loggedIn \cup {u} /\ u \notin loggedIn /\ u # Empty
      /\ UNCHANGED <<toServer, toClient, userChannelEvents, reported>>
      /\ toServer[p] = <<>> /\ toClient[p] = <<>>
  BY EventAssumption DEF Login, Typed, Connected, netVars
<1>2. OneClient'
  BY <1>1 DEF FlowInv, OneClient, Typed, TypeInv
<1>3. Flowing'
  <2>1. \A q \in Clients \ {p} : currentUsername'[q] = currentUsername[q]
    BY <1>1 DEF Typed, TypeInv
  <2>2. \A q \in Clients : /\ Sending(toServer[q], reported, q, currentUsername'[q])
                           /\ Messaging(toClient[q], reported, q, currentUsername'[q])
    BY <1>1, <2>1, NothingThere DEF FlowInv, Flowing
  <2> QED BY <1>1, <2>2 DEF FlowInv, Flowing
<1>4. MessagesFirst' /\ NotesFirst'
  BY <1>1 DEF FlowInv, MessagesFirst, NotesFirst
<1> QED BY <1>2, <1>3, <1>4 DEF FlowInv

\* What is lost leaves the rest in order.
LEMMA DisconnectFlow ==
    ASSUME Typed, FlowInv, NEW p \in Clients, Disconnect(p)
    PROVE  FlowInv'
<1>1. /\ UNCHANGED <<currentUsername, loggedIn, reported, userChannelEvents>>
      /\ toServer' = [toServer EXCEPT ![p] = <<>>]
      /\ toClient' = [toClient EXCEPT ![p] = <<>>]
      /\ online' = [online EXCEPT ![p] = FALSE]
  BY DEF Disconnect
<1>2. \A q \in Clients : online'[q] => online[q]
  BY <1>1 DEF Typed, TypeInv
<1>3. \A q \in Clients : /\ toServer'[q] = <<>> \/ toServer'[q] = toServer[q]
                         /\ toClient'[q] = <<>> \/ toClient'[q] = toClient[q]
  BY <1>1 DEF Typed, TypeInv
<1>4. \A q \in Clients :
         /\ Sending(toServer'[q], reported, q, currentUsername[q])
         /\ SendNos(toServer'[q]) \subseteq SendNos(toServer[q])
         /\ Messaging(toClient'[q], reported, q, currentUsername[q])
         /\ MessageNos(toClient'[q]) \subseteq MessageNos(toClient[q])
  BY <1>3, NothingThere DEF FlowInv, Flowing
<1> QED BY <1>1, <1>2, <1>4, FlowShrinks, Reporters

\* join and exit send no events.
LEMMA CommandFlow ==
    ASSUME Typed, FlowInv, NEW p \in Clients, NEW ch \in Channels, Join(p, ch) \/ Exit(p, ch)
    PROVE  FlowInv'
<1>1. PICK frame \in ClientFrame : Sends(p, <<frame>>) /\ frame.type # "SEND"
  BY DEF Join, Exit, ClientFrame
<1>2. /\ UNCHANGED <<currentUsername, online, loggedIn, reported, userChannelEvents,
                     toClient>>
      /\ toServer' = [toServer EXCEPT ![p] = @ \o <<frame>>]
  BY <1>1 DEF Join, Exit, Sends
<1>3. /\ \A u : Sending(<<frame>>, reported, p, u)
      /\ SendNos(<<frame>>) = {}
      /\ <<frame>> \in Seq(ClientFrame)
  BY <1>1 DEF Sending, SendNos, IsSend
<1>4. /\ Sending(toServer[p] \o <<frame>>, reported, p, currentUsername[p])
      /\ SendNos(toServer[p] \o <<frame>>) \subseteq SendNos(toServer[p])
  <2>1. toServer[p] \in Seq(ClientFrame) /\ Sending(toServer[p], reported, p, currentUsername[p])
    BY DEF Typed, TypeInv, FlowInv, Flowing
  <2>2. \A x \in SendNos(toServer[p]), y \in SendNos(<<frame>>) : x < y
    BY <1>3
  <2>3. /\ Sending(toServer[p] \o <<frame>>, reported, p, currentUsername[p])
        /\ SendNos(toServer[p] \o <<frame>>) \subseteq SendNos(toServer[p]) \cup SendNos(<<frame>>)
    BY <1>3, <2>1, <2>2, SendingMore
  <2> QED BY <1>3, <2>3
<1>5. \A q \in Clients : \/ q = p /\ toServer'[q] = toServer[p] \o <<frame>>
                         \/ toServer'[q] = toServer[q]
  BY <1>2 DEF Typed, TypeInv
<1>6. \A q \in Clients :
         /\ Sending(toServer'[q], reported, q, currentUsername[q])
         /\ SendNos(toServer'[q]) \subseteq SendNos(toServer[q])
         /\ Messaging(toClient'[q], reported, q, currentUsername[q])
         /\ MessageNos(toClient'[q]) \subseteq MessageNos(toClient[q])
  BY <1>2, <1>4, <1>5 DEF FlowInv, Flowing
<1> QED BY <1>2, <1>6, FlowShrinks, Reporters

\* A report that fails sends nothing.
LEMMA ReportFailsFlow ==
    ASSUME Typed, FlowInv, NEW p \in Clients, NEW f \in Files, ReportFails(p, f)
    PROVE  FlowInv'
<1>1. UNCHANGED <<currentUsername, online, loggedIn, reported, userChannelEvents,
                  toServer, toClient>>
  BY DEF ReportFails, clientVars, netVars
<1>2. \A q \in Clients :
         /\ Sending(toServer[q], reported, q, currentUsername[q])
         /\ Messaging(toClient[q], reported, q, currentUsername[q])
  BY DEF FlowInv, Flowing
<1> QED BY <1>1, <1>2, FlowShrinks, Reporters

\* summary sends nothing.
LEMMA SummaryFlow ==
    ASSUME Typed, FlowInv, NEW p \in Clients, NEW ch \in Channels, NEW u \in Users,
           Summary(p, ch, u)
    PROVE  FlowInv'
<1>1. UNCHANGED <<currentUsername, online, loggedIn, reported, userChannelEvents,
                  toServer, toClient>>
  BY DEF Summary, netVars
<1>2. \A q \in Clients :
         /\ Sending(toServer[q], reported, q, currentUsername[q])
         /\ Messaging(toClient[q], reported, q, currentUsername[q])
  BY DEF FlowInv, Flowing
<1> QED BY <1>1, <1>2, FlowShrinks, Reporters

\* The server takes the next frame of a connection.
LEMMA ServesFlow ==
    ASSUME Typed, FlowInv, NEW p \in Clients, NEW type, Serves(p, type)
    PROVE  /\ UNCHANGED <<currentUsername, online, loggedIn, reported, userChannelEvents>>
           /\ \A q \in Clients :
                 /\ Sending(toServer'[q], reported, q, currentUsername[q])
                 /\ SendNos(toServer'[q]) \subseteq SendNos(toServer[q])
           /\ LET frame == Head(toServer[p]) IN
              IsSend(frame) => /\ SendOf(frame, reported, p, currentUsername[p])
                               /\ frame.no \in SendNos(toServer[p])
                               /\ \A x \in SendNos(toServer'[p]) : frame.no < x
<1>1. /\ UNCHANGED <<currentUsername, online, loggedIn, reported, userChannelEvents>>
      /\ toServer[p] \in Seq(ClientFrame) /\ toServer[p] # <<>>
      /\ toServer' = [toServer EXCEPT ![p] = Tail(@)]
  BY ServesDoes DEF clientVars
<1>2. \A q \in Clients : Sending(toServer[q], reported, q, currentUsername[q])
  BY DEF FlowInv, Flowing
<1>3. /\ toServer'[p] = Tail(toServer[p])
      /\ \A q \in Clients \ {p} : toServer'[q] = toServer[q]
  BY <1>1 DEF Typed, TypeInv
<1>4. Sending(toServer[p], reported, p, currentUsername[p])
  BY <1>2
<1>5. /\ Sending(Tail(toServer[p]), reported, p, currentUsername[p])
      /\ SendNos(Tail(toServer[p])) \subseteq SendNos(toServer[p])
      /\ IsSend(Head(toServer[p])) =>
            /\ SendOf(Head(toServer[p]), reported, p, currentUsername[p])
            /\ Head(toServer[p]).no \in SendNos(toServer[p])
            /\ \A x \in SendNos(Tail(toServer[p])) : Head(toServer[p]).no < x
  BY <1>1, <1>4, SendingTail
<1> QED BY <1>1, <1>2, <1>3, <1>5

\* An ERROR is no message.
LEMMA RefuseFlow ==
    ASSUME Typed, FlowInv, NEW p \in Clients, NEW type, Serves(p, type), Refuse(p)
    PROVE  FlowInv'
<1>1. PICK e \in ServerFrame : /\ toClient' = [toClient EXCEPT ![p] = Append(@, e)]
                               /\ ~IsMessage(e)
  <2>1. [type |-> "ERROR"] \in ServerFrame /\ ~IsMessage([type |-> "ERROR"])
    BY DEF ServerFrame, IsMessage
  <2>2. toClient' = [toClient EXCEPT ![p] = Append(@, [type |-> "ERROR"])]
    BY DEF Refuse
  <2> QED BY <2>1, <2>2, Zenon
<1>2. toClient[p] \in Seq(ServerFrame)
  BY DEF Typed, TypeInv
<1>3. \A q \in Clients : Messaging(toClient[q], reported, q, currentUsername[q])
  BY DEF FlowInv, Flowing
<1>4. /\ toClient'[p] = Append(toClient[p], e)
      /\ \A q \in Clients \ {p} : toClient'[q] = toClient[q]
  BY <1>1 DEF Typed, TypeInv
<1>5. /\ Messaging(Append(toClient[p], e), reported, p, currentUsername[p])
      /\ MessageNos(Append(toClient[p], e)) \subseteq MessageNos(toClient[p])
  BY <1>1, <1>2, <1>3, MessagingMore
<1>6. \A q \in Clients : /\ Messaging(toClient'[q], reported, q, currentUsername[q])
                         /\ MessageNos(toClient'[q]) \subseteq MessageNos(toClient[q])
  BY <1>3, <1>4, <1>5
<1>7. /\ UNCHANGED <<currentUsername, online, loggedIn, reported, userChannelEvents>>
      /\ \A q \in Clients :
            /\ Sending(toServer'[q], reported, q, currentUsername[q])
            /\ SendNos(toServer'[q]) \subseteq SendNos(toServer[q])
  BY ServesFlow
<1> QED BY <1>6, <1>7, FlowShrinks, Reporters

\* A SUBSCRIBE or an UNSUBSCRIBE is answered or refused.
LEMMA SubscribingFlow ==
    ASSUME Typed, FlowInv, NEW p \in Clients, Subscribe(p) \/ Unsubscribe(p)
    PROVE  FlowInv'
<1>1. PICK type : Serves(p, type)
  BY DEF Subscribe, Unsubscribe
<1>2. CASE Refuse(p)
  BY <1>1, <1>2, RefuseFlow
<1>3. CASE UNCHANGED toClient
  <2>1. \A q \in Clients : Messaging(toClient[q], reported, q, currentUsername[q])
    BY DEF FlowInv, Flowing
  <2>2. /\ UNCHANGED <<currentUsername, online, loggedIn, reported, userChannelEvents>>
        /\ \A q \in Clients :
              /\ Sending(toServer'[q], reported, q, currentUsername[q])
              /\ SendNos(toServer'[q]) \subseteq SendNos(toServer[q])
    BY <1>1, ServesFlow
  <2> QED BY <1>3, <2>1, <2>2, FlowShrinks, Reporters
<1> QED BY <1>2, <1>3 DEF Subscribe, Unsubscribe

\* A message comes after those of the same reporter, which were sent before.
LEMMA SendFlow ==
    ASSUME Typed, FlowInv, NEW p \in Clients, Send(p)
    PROVE  FlowInv'
<1>1. PICK frame : frame = Head(toServer[p])
  OBVIOUS
<1>2. PICK to : to = subscribers[frame.channel]
  OBVIOUS
<1>3. PICK msg : msg = [type |-> "MESSAGE", channel |-> frame.channel, no |-> frame.no,
                        body |-> ThroughServer(frame.body)]
  OBVIOUS
<1>4. Serves(p, "SEND")
  BY DEF Send
<1>5. msg \in ServerFrame /\ to \in SUBSET Clients
  BY <1>1, <1>2, <1>3, <1>4, SendDoes
<1>6. /\ SendOf(frame, reported, p, currentUsername[p])
      /\ frame.no \in SendNos(toServer[p])
      /\ \A x \in SendNos(toServer'[p]) : frame.no < x
  <2>1. IsSend(frame)
    BY <1>1, <1>4, ServesDoes DEF IsSend
  <2> QED BY <1>1, <1>4, <2>1, ServesFlow, Zenon
<1>7. /\ UNCHANGED <<currentUsername, online, loggedIn, reported, userChannelEvents>>
      /\ \A q \in Clients :
            /\ Sending(toServer'[q], reported, q, currentUsername[q])
            /\ SendNos(toServer'[q]) \subseteq SendNos(toServer[q])
  BY <1>4, ServesFlow
<1>8. CASE Refuse(p)
  BY <1>4, <1>8, RefuseFlow
<1>9. ASSUME toClient' = [q \in Clients |->
                IF q \in to THEN Append(toClient[q], msg) ELSE toClient[q]]
      PROVE  FlowInv'
  <2>1. msg.no = frame.no /\ IsMessage(msg) /\ reported[msg.no].by = p
    BY <1>3, <1>6 DEF IsMessage, SendOf
  <2>2. \A q \in Clients : MessageOf(msg, reported, q, currentUsername[q])
    BY <1>3, <1>6 DEF SendOf, MessageOf
  <2>3. \A q \in Clients : \A x \in MessageNos(toClient[q]) :
           reported[x].by = p => x < msg.no
    BY <1>6, <2>1 DEF FlowInv, MessagesFirst
  <2>4. ASSUME NEW q \in Clients
        PROVE  /\ Messaging(toClient'[q], reported, q, currentUsername[q])
               /\ \A x \in MessageNos(toClient'[q]) :
                     x \in MessageNos(toClient[q]) \/ x = msg.no
    <3>1. toClient[q] \in Seq(ServerFrame)
      BY DEF Typed, TypeInv
    <3>2. Messaging(toClient[q], reported, q, currentUsername[q])
      BY DEF FlowInv, Flowing
    <3>3. \A x \in MessageNos(toClient[q]) :
             reported[x].by = reported[msg.no].by => x < msg.no
      BY <2>1, <2>3
    <3>4. /\ Messaging(Append(toClient[q], msg), reported, q, currentUsername[q])
          /\ \A x \in MessageNos(Append(toClient[q], msg)) :
                x \in MessageNos(toClient[q]) \/ (IsMessage(msg) /\ x = msg.no)
      BY <1>5, <2>2, <3>1, <3>2, <3>3, MessagingMore
    <3>5. toClient'[q] = toClient[q] \/ toClient'[q] = Append(toClient[q], msg)
      BY <1>9
    <3> QED BY <3>2, <3>4, <3>5
  <2>5. OneClient'
    BY <1>7, SameUsers DEF FlowInv
  <2>6. Flowing'
    BY <1>7, <2>4 DEF FlowInv, Flowing
  <2>7. MessagesFirst'
    <3> SUFFICES ASSUME NEW r \in Clients, NEW q \in Clients,
                        NEW m \in MessageNos(toClient'[q]),
                        NEW s \in SendNos(toServer'[r]), reported[m].by = r
                 PROVE  m < s
      BY <1>7 DEF MessagesFirst
    <3>1. CASE m \in MessageNos(toClient[q])
      BY <1>7, <3>1 DEF FlowInv, MessagesFirst
    <3>2. CASE m = msg.no
      BY <1>6, <2>1, <3>2
    <3> QED BY <2>4, <3>1, <3>2
  <2>8. NotesFirst'
    <3> SUFFICES ASSUME NEW q \in Clients, NEW ch \in Channels, NEW u \in Users,
                        NEW n \in NoteNos(userChannelEvents[q][<<ch, u>>]),
                        reported[n].by # q
                 PROVE  /\ \A m \in MessageNos(toClient'[q]) :
                              reported[m].by = reported[n].by => n < m
                        /\ \A s \in SendNos(toServer'[reported[n].by]) : n < s
      BY <1>7 DEF NotesFirst
    <3>1. n \in 1..Len(reported)
      BY DEF FlowInv, Flowing, Noting, NoteOf, NoteNos
    <3>2. reported[n].by \in Clients
      BY <3>1, Reporters
    <3>3. /\ \A m \in MessageNos(toClient[q]) : reported[m].by = reported[n].by => n < m
          /\ \A s \in SendNos(toServer[reported[n].by]) : n < s
      BY DEF FlowInv, NotesFirst
    <3>4. p = reported[n].by => n < msg.no
      BY <1>6, <2>1, <3>3
    <3> QED BY <1>7, <2>1, <2>4, <3>2, <3>3, <3>4
  <2> QED BY <2>5, <2>6, <2>7, <2>8 DEF FlowInv
<1> QED BY <1>1, <1>2, <1>3, <1>8, <1>9 DEF Send

\* A file is reported: its events come after all others, under the same user.
LEMMA ReportFlow ==
    ASSUME Typed, FlowInv, NEW p \in Clients, NEW f \in Files, Report(p, f)
    PROVE  /\ FlowInv'
           /\ Grows
           /\ \A n \in 1..Len(reported') :
                 n > Len(reported) => reported'[n].by = p /\ Has(p, n)'
           /\ UNCHANGED <<toClient, audience>>
<1>1. PICK ch \in Channels, u \in Users, events \in Seq(FileEvents) :
              /\ u = currentUsername[p] /\ online[p]
              /\ Len(reported) + Len(events) <= MaxEvents
              /\ SavedAs(userChannelEvents', userChannelEvents, p, ch, u,
                         userChannelEvents[p][<<ch, u>>] \o NotesMade(reported, events))
              /\ toServer' = [toServer EXCEPT ![p] =
                                 @ \o FramesMade(reported, events, ch, u)]
              /\ reported' = reported \o RecordsMade(events, ch, u, p)
              /\ typed < MaxCommands /\ typed' = typed + 1
              /\ UNCHANGED <<currentUsername, online, channelToSubId, file, serverVars,
                             toClient, loggedIn>>
  BY ReportDoes, Zenon
<1>2. /\ reported \in Seq(ReportRecord) /\ Len(reported) \in Nat
      /\ toServer \in [Clients -> Seq(ClientFrame)]
      /\ userChannelEvents \in [Clients -> [Channels \X Users -> Seq(Note)]]
  <2>1. /\ reported \in Seq(ReportRecord)
        /\ toServer \in [Clients -> Seq(ClientFrame)]
        /\ userChannelEvents \in [Clients -> [Channels \X Users -> Seq(Note)]]
    BY DEF Typed, TypeInv
  <2>2. Len(reported) \in Nat
    BY <2>1
  <2> QED BY <2>1, <2>2
<1>3. PICK notes \in Seq(Note) : notes = NotesMade(reported, events)
  BY <1>2, ReportTypes
<1>4. PICK frames \in Seq(ClientFrame) : frames = FramesMade(reported, events, ch, u)
  BY <1>2, ReportTypes
<1>5. /\ Extends(reported', reported)
      /\ \A n \in 1..Len(reported') : n > Len(reported) =>
            /\ reported'[n].channel = ch /\ reported'[n].user = u
            /\ reported'[n].by = p
            /\ n \in NoteNos(notes)
      /\ Sending(frames, reported', p, u)
      /\ Noting(notes, reported', ch, u)
      /\ \A n \in SendNos(frames) \cup NoteNos(notes) :
            n > Len(reported) /\ n \in 1..Len(reported')
  <2>1. Reported(reported', reported, frames, notes, ch, u, p)
    BY <1>1, <1>2, <1>3, <1>4, ReportMakes, Zenon
  <2> QED BY <2>1 DEF Reported
<1>6. /\ \A q \in Clients :
            /\ Sending(toServer[q], reported', q, currentUsername[q])
            /\ Messaging(toClient[q], reported', q, currentUsername[q])
      /\ \A q \in Clients : \A c \in Channels, v \in Users :
            Noting(userChannelEvents[q][<<c, v>>], reported', c, v)
  BY <1>5, MoreReports DEF FlowInv, Flowing
<1>7. /\ \A q \in Clients : /\ \A x \in SendNos(toServer[q]) : x \in 1..Len(reported)
                            /\ \A x \in MessageNos(toClient[q]) : x \in 1..Len(reported)
      /\ \A q \in Clients : \A c \in Channels, v \in Users :
            \A x \in NoteNos(userChannelEvents[q][<<c, v>>]) :
               x \in 1..Len(reported) /\ reported[x].user = v /\ reported[x].channel = c
  <2>1. \A q \in Clients : \A x \in SendNos(toServer[q]) : x \in 1..Len(reported)
    BY DEF FlowInv, Flowing, Sending, SendOf, SendNos
  <2>2. \A q \in Clients : \A x \in MessageNos(toClient[q]) : x \in 1..Len(reported)
    BY DEF FlowInv, Flowing, Messaging, MessageOf, MessageNos
  <2>3. \A q \in Clients : \A c \in Channels, v \in Users :
           \A x \in NoteNos(userChannelEvents[q][<<c, v>>]) :
              x \in 1..Len(reported) /\ reported[x].user = v /\ reported[x].channel = c
    BY NotesOf DEF FlowInv, Flowing
  <2> QED BY <2>1, <2>2, <2>3
<1>8. /\ Sending(toServer[p] \o frames, reported', p, u)
      /\ SendNos(toServer[p] \o frames) \subseteq SendNos(toServer[p]) \cup SendNos(frames)
  <2>1. toServer[p] \in Seq(ClientFrame) /\ Sending(toServer[p], reported', p, u)
    BY <1>1, <1>2, <1>6
  <2>2. \A x \in SendNos(toServer[p]), y \in SendNos(frames) : x < y
    BY <1>2, <1>5, <1>7
  <2> QED BY <1>5, <2>1, <2>2, SendingMore
<1>9. PICK N \in Seq(Note) : N = userChannelEvents[p][<<ch, u>>]
  BY <1>2
<1>20. Noting(N \o notes, reported', ch, u) /\ NoteNos(N \o notes) = NoteNos(N) \cup NoteNos(notes)
  <2>1. Noting(N, reported', ch, u) /\ Noting(notes, reported', ch, u)
    BY <1>5, <1>6, <1>9
  <2>2. \A x \in NoteNos(N) : x \in 1..Len(reported)
    BY <1>7, <1>9
  <2>3. \A y \in NoteNos(notes) : y > Len(reported) /\ y \in 1..Len(reported')
    BY <1>5
  <2>4. \A x \in NoteNos(N), y \in NoteNos(notes) : x < y
    BY <1>2, <2>2, <2>3
  <2> QED BY <2>1, <2>4, NotingMore
<1>10. /\ userChannelEvents'[p][<<ch, u>>] = N \o notes
       /\ \A q \in Clients : \A c \in Channels, v \in Users :
             q # p \/ c # ch \/ v # u =>
                userChannelEvents'[q][<<c, v>>] = userChannelEvents[q][<<c, v>>]
  <2>1. PICK r \in Seq(Note) : r = N \o notes
    BY Longer
  <2>2. SavedAs(userChannelEvents', userChannelEvents, p, ch, u, r)
    BY <1>1, <1>3, <1>9, <2>1, Zenon
  <2>4. /\ userChannelEvents'[p][<<ch, u>>] = r
        /\ \A q \in Clients : \A c \in Channels, v \in Users :
              q # p \/ c # ch \/ v # u =>
                 userChannelEvents'[q][<<c, v>>] = userChannelEvents[q][<<c, v>>]
    BY <2>2, Saved
  <2> QED BY <2>1, <2>4
<1>11. /\ toServer'[p] = toServer[p] \o frames
       /\ \A q \in Clients \ {p} : toServer'[q] = toServer[q]
  BY <1>1, <1>2, <1>4
<1>12. UNCHANGED <<currentUsername, online, toClient, loggedIn>>
  BY <1>1
<1>13. \A n \in 1..Len(reported') :
          \/ n \in 1..Len(reported) /\ reported'[n] = reported[n]
          \/ n > Len(reported) /\ reported'[n].user = u /\ reported'[n].by = p
  <2>1. \A n \in 1..Len(reported') : n \in 1..Len(reported) \/ n > Len(reported)
    BY <1>2
  <2> QED BY <1>5, <2>1 DEF Extends
<1>14. OneClient'
  <2>1. u \in loggedIn /\ u = currentUsername[p] /\ u # Empty
    BY <1>1, EventAssumption DEF FlowInv, OneClient
  <2>2. \A q \in Clients : u = currentUsername[q] => q = p
    BY <2>1 DEF FlowInv, OneClient
  <2>3. \A n \in 1..Len(reported) : reported[n].user = u => reported[n].by = p
    BY <2>1 DEF FlowInv, OneClient
  <2>4. \A n \in 1..Len(reported') :
           /\ reported'[n].user \in loggedIn
           /\ \A q \in Clients :
                 reported'[n].user = currentUsername[q] => reported'[n].by = q
    <3>1. \A n \in 1..Len(reported) :
             /\ reported[n].user \in loggedIn
             /\ \A q \in Clients :
                   reported[n].user = currentUsername[q] => reported[n].by = q
      BY DEF FlowInv, OneClient
    <3> SUFFICES ASSUME NEW n \in 1..Len(reported')
                 PROVE  /\ reported'[n].user \in loggedIn
                        /\ \A q \in Clients :
                              reported'[n].user = currentUsername[q] => reported'[n].by = q
      OBVIOUS
    <3>2. CASE n \in 1..Len(reported) /\ reported'[n] = reported[n]
      BY <3>1, <3>2
    <3>3. CASE reported'[n].user = u /\ reported'[n].by = p
      BY <2>1, <2>2, <3>3
    <3> QED BY <1>13, <3>2, <3>3
  <2>5. \A n, m \in 1..Len(reported') :
           reported'[n].user = reported'[m].user => reported'[n].by = reported'[m].by
    <3>1. \A n, m \in 1..Len(reported) :
             reported[n].user = reported[m].user => reported[n].by = reported[m].by
      BY DEF FlowInv, OneClient
    <3> SUFFICES ASSUME NEW n \in 1..Len(reported'), NEW m \in 1..Len(reported'),
                        reported'[n].user = reported'[m].user
                 PROVE  reported'[n].by = reported'[m].by
      OBVIOUS
    <3>2. CASE n \in 1..Len(reported) /\ reported'[n] = reported[n]
      BY <1>13, <2>3, <3>1, <3>2
    <3>3. CASE reported'[n].user = u /\ reported'[n].by = p
      BY <1>13, <2>3, <3>3
    <3> QED BY <1>13, <3>2, <3>3
  <2> QED BY <1>12, <2>4, <2>5 DEF FlowInv, OneClient
<1>15. Flowing'
  <2>1. \A q \in Clients : Sending(toServer'[q], reported', q, currentUsername[q])
    BY <1>1, <1>6, <1>8, <1>11
  <2>2. \A q \in Clients : \A c \in Channels, v \in Users :
           Noting(userChannelEvents'[q][<<c, v>>], reported', c, v)
    BY <1>6, <1>20, <1>10
  <2> QED BY <1>6, <1>12, <2>1, <2>2 DEF Flowing
<1>16. \A x \in 1..Len(reported) : reported'[x] = reported[x]
  BY <1>5 DEF Extends
<1>17. \A q \in Clients : \A s \in SendNos(toServer'[q]) :
          s \in SendNos(toServer[q]) \/ s > Len(reported)
  BY <1>5, <1>8, <1>11
<1>18. MessagesFirst'
  <2> SUFFICES ASSUME NEW r \in Clients, NEW q \in Clients,
                      NEW m \in MessageNos(toClient[q]),
                      NEW s \in SendNos(toServer'[r]), reported'[m].by = r
               PROVE  m < s
    BY <1>12 DEF MessagesFirst
  <2>1. m \in 1..Len(reported) /\ reported[m].by = r
    BY <1>7, <1>16
  <2>2. CASE s \in SendNos(toServer[r])
    BY <2>1, <2>2 DEF FlowInv, MessagesFirst
  <2>3. CASE s > Len(reported)
    <3>1. s \in Int
      BY <1>15 DEF Flowing, Sending, SendOf, SendNos
    <3> QED BY <1>2, <2>1, <2>3, <3>1
  <2> QED BY <1>17, <2>2, <2>3
<1>19. NotesFirst'
  <2> SUFFICES ASSUME NEW q \in Clients, NEW c \in Channels, NEW v \in Users,
                      NEW n \in NoteNos(userChannelEvents'[q][<<c, v>>]),
                      reported'[n].by # q
               PROVE  /\ \A m \in MessageNos(toClient[q]) :
                            reported'[m].by = reported'[n].by => n < m
                      /\ \A s \in SendNos(toServer'[reported'[n].by]) : n < s
    BY <1>12 DEF NotesFirst
  <2>1. n \in NoteNos(userChannelEvents[q][<<c, v>>])
    <3>1. ASSUME n \in NoteNos(notes), q = p
          PROVE  FALSE
      BY <1>5, <3>1
    <3> QED BY <1>9, <1>20, <1>10, <3>1
  <2>2. n \in 1..Len(reported) /\ reported'[n] = reported[n]
    BY <1>7, <1>16, <2>1
  <2>3. reported[n].by \in Clients
    BY <2>2, Reporters
  <2>4. /\ \A m \in MessageNos(toClient[q]) : reported[m].by = reported[n].by => n < m
        /\ \A s \in SendNos(toServer[reported[n].by]) : n < s
    BY <2>1, <2>2 DEF FlowInv, NotesFirst
  <2>5. \A m \in MessageNos(toClient[q]) : reported'[m] = reported[m]
    BY <1>7, <1>16
  <2>6. \A s \in SendNos(toServer'[reported[n].by]) :
           s \in SendNos(toServer[reported[n].by]) \/ s > Len(reported)
    BY <1>17, <2>3
  <2>7. \A s \in SendNos(toServer'[reported[n].by]) : s \in Int
    BY <1>15, <2>3 DEF Flowing, Sending, SendOf, SendNos
  <2>8. \A s \in SendNos(toServer'[reported[n].by]) : n < s
    BY <1>2, <2>2, <2>4, <2>6, <2>7
  <2> QED BY <2>2, <2>4, <2>5, <2>8
<1>21. FlowInv'
  BY <1>14, <1>15, <1>18, <1>19 DEF FlowInv
<1>22. Grows
  BY <1>5, <1>9, <1>10, <1>20 DEF Grows
<1>23. \A n \in 1..Len(reported') :
          n > Len(reported) => reported'[n].by = p /\ Has(p, n)'
  BY <1>5, <1>10, <1>20 DEF Has
<1>24. UNCHANGED <<toClient, audience>>
  BY <1>1 DEF serverVars
<1> QED BY <1>21, <1>22, <1>23, <1>24

\* A message that is handled is about a report of another client, and is noted
\* under its user, or it is about a report of this user, who has noted it.
LEMMA ReceiveReads ==
    ASSUME Typed, FlowInv, NEW p \in Clients, Receive(p)
    PROVE  \E msg \in ServerFrame, user \in Users, event \in {n.event : n \in Note} :
              /\ toClient[p] \in Seq(ServerFrame) /\ toClient[p] # <<>>
              /\ msg = Head(toClient[p]) /\ IsMessage(msg)
              /\ MessageOf(msg, reported, p, currentUsername[p])
              /\ msg.channel \in Channels
              /\ user = reported[msg.no].user
              /\ [no |-> msg.no, event |-> event] \in Note
              /\ Agrees(event, reported[msg.no].event)
              /\ toClient' = [toClient EXCEPT ![p] = Tail(@)]
              /\ \/ /\ user # currentUsername[p]
                    /\ SavedAs(userChannelEvents', userChannelEvents, p, msg.channel, user,
                               userChannelEvents[p][<<msg.channel, user>>]
                                  \o <<[no |-> msg.no, event |-> event]>>)
                 \/ user = currentUsername[p] /\ UNCHANGED userChannelEvents
              /\ UNCHANGED <<currentUsername, online, serverVars, toServer, loggedIn,
                             reported>>
<1>1. PICK msg \in ServerFrame :
              /\ toClient[p] \in Seq(ServerFrame) /\ toClient[p] # <<>>
              /\ msg = Head(toClient[p]) /\ msg.type = "MESSAGE"
              /\ msg.channel \in Channels /\ msg.no \in Nat /\ msg.body \in PassedBodies
              /\ toClient' = [toClient EXCEPT ![p] = Tail(@)]
              /\ \/ /\ ParseEvent(msg.body).eventOwnerUser \notin {Empty, currentUsername[p]}
                    /\ SavedAs(userChannelEvents', userChannelEvents, p, msg.channel,
                               ParseEvent(msg.body).eventOwnerUser,
                               NotesAfter(p, msg))
                 \/ /\ ParseEvent(msg.body).eventOwnerUser \in {Empty, currentUsername[p]}
                    /\ UNCHANGED userChannelEvents
              /\ UNCHANGED <<currentUsername, online, channelToSubId, file, serverVars,
                             toServer, typed, loggedIn, reported>>
  BY ReceiveDoes, Zenon
<1>2. IsMessage(msg)
  BY <1>1 DEF IsMessage
<1>3. Messaging(toClient[p], reported, p, currentUsername[p])
  BY DEF FlowInv, Flowing
<1>4. MessageOf(msg, reported, p, currentUsername[p])
  BY <1>1, <1>2, <1>3, MessagingTail
<1>5. reported[msg.no] \in ReportRecord
  BY <1>4, Reporters DEF MessageOf
<1>6. PICK user \in Users : user = reported[msg.no].user
  BY <1>5 DEF ReportRecord
<1>7. PICK was \in FileEvents : was = reported[msg.no].event
  BY <1>5 DEF ReportRecord
<1>8. PICK event : event = ParseEvent(msg.body)
  OBVIOUS
<1>9. msg.body = ThroughServer(FormatEvent(user, was))
  BY <1>4, <1>6, <1>7 DEF MessageOf
<1>10. event.eventOwnerUser = user /\ Agrees(event, was)
  BY <1>8, <1>9, BodyParsed, Zenon
<1>11. [no |-> msg.no, event |-> event] \in Note
  BY <1>1, <1>8 DEF Note
<1>12. event \in {n.event : n \in Note}
  BY <1>11
<1>13. user # Empty
  BY EventAssumption
<1>14. \/ /\ user # currentUsername[p]
          /\ SavedAs(userChannelEvents', userChannelEvents, p, msg.channel, user,
                     userChannelEvents[p][<<msg.channel, user>>]
                        \o <<[no |-> msg.no, event |-> event]>>)
       \/ user = currentUsername[p] /\ UNCHANGED userChannelEvents
  BY <1>1, <1>8, <1>10, <1>13, Zenon DEF NotesAfter
<1>15. Agrees(event, reported[msg.no].event)
  BY <1>7, <1>10
<1> QED BY <1>1, <1>2, <1>4, <1>6, <1>11, <1>12, <1>14, <1>15, Zenon

\* A message of another client is noted after those of the same reporter, and
\* what is handled is noted or was noted by its reporter.
LEMMA ReceiveFlow ==
    ASSUME Typed, FlowInv, NEW p \in Clients, Receive(p)
    PROVE  /\ FlowInv'
           /\ Grows
           /\ \A q \in Clients : \A x \in MessageNos(toClient[q]) :
                 \/ x \in MessageNos(toClient'[q])
                 \/ reported[x].by = q
                 \/ Has(q, x)'
           /\ UNCHANGED <<audience, reported>>
<1>1. PICK msg \in ServerFrame, user \in Users, event \in {n.event : n \in Note} :
              /\ toClient[p] \in Seq(ServerFrame) /\ toClient[p] # <<>>
              /\ msg = Head(toClient[p]) /\ IsMessage(msg)
              /\ MessageOf(msg, reported, p, currentUsername[p])
              /\ msg.channel \in Channels
              /\ user = reported[msg.no].user
              /\ [no |-> msg.no, event |-> event] \in Note
              /\ Agrees(event, reported[msg.no].event)
              /\ toClient' = [toClient EXCEPT ![p] = Tail(@)]
              /\ \/ /\ user # currentUsername[p]
                    /\ SavedAs(userChannelEvents', userChannelEvents, p, msg.channel, user,
                               userChannelEvents[p][<<msg.channel, user>>]
                                  \o <<[no |-> msg.no, event |-> event]>>)
                 \/ user = currentUsername[p] /\ UNCHANGED userChannelEvents
              /\ UNCHANGED <<currentUsername, online, serverVars, toServer, loggedIn,
                             reported>>
  BY ReceiveReads, Zenon
<1>2. /\ Messaging(Tail(toClient[p]), reported, p, currentUsername[p])
      /\ MessageNos(Tail(toClient[p])) \subseteq MessageNos(toClient[p])
      /\ msg.no \in MessageNos(toClient[p])
      /\ \A x \in MessageNos(Tail(toClient[p])) :
            reported[msg.no].by = reported[x].by => msg.no < x
      /\ \A x \in MessageNos(toClient[p]) :
            x \in MessageNos(Tail(toClient[p])) \/ x = msg.no
  <2>1. Messaging(toClient[p], reported, p, currentUsername[p])
    BY DEF FlowInv, Flowing
  <2> QED BY <1>1, <2>1, MessagingTail
<1>3. /\ toClient'[p] = Tail(toClient[p])
      /\ \A q \in Clients \ {p} : toClient'[q] = toClient[q]
  BY <1>1 DEF Typed, TypeInv
<1>4. \A q \in Clients : /\ Messaging(toClient'[q], reported, q, currentUsername[q])
                         /\ MessageNos(toClient'[q]) \subseteq MessageNos(toClient[q])
  BY <1>2, <1>3 DEF FlowInv, Flowing
<1>5. \A q \in Clients : Sending(toServer[q], reported, q, currentUsername[q])
  BY DEF FlowInv, Flowing
<1> DEFINE Handled == \A q \in Clients : \A x \in MessageNos(toClient[q]) :
              \/ x \in MessageNos(toClient'[q])
              \/ reported[x].by = q
              \/ Has(q, x)'
<1>6. ASSUME user = currentUsername[p], UNCHANGED userChannelEvents
      PROVE  FlowInv' /\ Grows /\ Handled
  <2>1. UNCHANGED <<currentUsername, online, loggedIn, reported, toServer>>
    BY <1>1
  <2>2. FlowInv'
    BY <1>4, <1>5, <1>6, <2>1, FlowShrinks, Reporters
  <2>3. Grows
    BY <1>6, <2>1 DEF Grows, Extends
  <2>4. reported[msg.no].by = p
    BY <1>1, <1>6 DEF MessageOf, FlowInv, OneClient
  <2>5. Handled
    BY <1>2, <1>3, <2>4
  <2> QED BY <2>2, <2>3, <2>5
<1>7. ASSUME user # currentUsername[p],
             SavedAs(userChannelEvents', userChannelEvents, p, msg.channel, user,
                     userChannelEvents[p][<<msg.channel, user>>]
                        \o <<[no |-> msg.no, event |-> event]>>)
      PROVE  FlowInv' /\ Grows /\ Handled
  <2>1. PICK ch \in Channels : ch = msg.channel
    BY <1>1
  <2>2. PICK N \in Seq(Note) : N = userChannelEvents[p][<<ch, user>>]
    BY DEF Typed, TypeInv
  <2>3. PICK note \in Note : note = [no |-> msg.no, event |-> event]
    BY <1>1
  <2>4. UNCHANGED <<currentUsername, online, toServer, loggedIn, reported>>
    BY <1>1
  <2>5. /\ NoteOf(note, reported, ch, user) /\ note.no = msg.no
        /\ reported[msg.no].by # p
        /\ reported[msg.no].user = user
        /\ msg.no \in 1..Len(reported)
    BY <1>1, <1>7, <2>1, <2>3 DEF MessageOf, NoteOf
  <2>6. PICK one \in Seq(Note) : one = <<note>>
    <3>1. <<note>> \in Seq(Note)
      OBVIOUS
    <3> QED BY <3>1
  <2>7. Noting(one, reported, ch, user) /\ NoteNos(one) = {msg.no}
    BY <2>5, <2>6 DEF Noting, NoteNos
  <2>8. Noting(N, reported, ch, user)
    BY <2>2 DEF FlowInv, Flowing
  <2>9. \A x \in NoteNos(N) : x < msg.no
    <3> SUFFICES ASSUME NEW x \in NoteNos(N) PROVE x < msg.no
      OBVIOUS
    <3>1. x \in 1..Len(reported) /\ reported[x].user = user
      BY <2>8 DEF Noting, NoteOf, NoteNos
    <3>2. reported[x].by = reported[msg.no].by
      BY <2>5, <3>1 DEF FlowInv, OneClient
    <3> QED BY <1>2, <2>2, <2>5, <3>2 DEF FlowInv, NotesFirst
  <2>10. /\ Noting(N \o one, reported, ch, user)
         /\ NoteNos(N \o one) = NoteNos(N) \cup {msg.no}
    <3>1. \A x \in NoteNos(N), y \in NoteNos(one) : x < y
      BY <2>7, <2>9
    <3> QED BY <2>7, <2>8, <3>1, NotingMore
  <2>11. PICK r \in Seq(Note) : r = N \o one
    BY Longer
  <2>12. /\ userChannelEvents'[p][<<ch, user>>] = r
         /\ \A q \in Clients : \A c \in Channels, v \in Users :
               q # p \/ c # ch \/ v # user =>
                  userChannelEvents'[q][<<c, v>>] = userChannelEvents[q][<<c, v>>]
    <3>1. SavedAs(userChannelEvents', userChannelEvents, p, ch, user, r)
      BY <1>7, <2>1, <2>2, <2>3, <2>6, <2>11, Zenon
    <3> QED BY <3>1, Saved
  <2>13. OneClient'
    BY <2>4, SameUsers DEF FlowInv
  <2>14. Flowing'
    <3>1. \A q \in Clients : \A c \in Channels, v \in Users :
             Noting(userChannelEvents'[q][<<c, v>>], reported, c, v)
      <4>1. \A q \in Clients : \A c \in Channels, v \in Users :
               Noting(userChannelEvents[q][<<c, v>>], reported, c, v)
        BY DEF FlowInv, Flowing
      <4>2. Noting(r, reported, ch, user)
        BY <2>10, <2>11
      <4> SUFFICES ASSUME NEW q \in Clients, NEW c \in Channels, NEW v \in Users
                   PROVE  Noting(userChannelEvents'[q][<<c, v>>], reported, c, v)
        OBVIOUS
      <4>3. CASE q = p /\ c = ch /\ v = user
        BY <2>12, <4>2, <4>3
      <4>4. CASE q # p \/ c # ch \/ v # user
        BY <2>12, <4>1, <4>4
      <4> QED BY <4>3, <4>4
    <3> QED BY <1>4, <1>5, <2>4, <3>1 DEF Flowing
  <2>15. MessagesFirst'
    BY <1>4, <2>4 DEF FlowInv, MessagesFirst
  <2>16. NotesFirst'
    <3> SUFFICES ASSUME NEW q \in Clients, NEW c \in Channels, NEW v \in Users,
                        NEW n \in NoteNos(userChannelEvents'[q][<<c, v>>]),
                        reported[n].by # q
                 PROVE  /\ \A m \in MessageNos(toClient'[q]) :
                              reported[m].by = reported[n].by => n < m
                        /\ \A s \in SendNos(toServer[reported[n].by]) : n < s
      BY <2>4 DEF NotesFirst
    <3>1. CASE n \in NoteNos(userChannelEvents[q][<<c, v>>])
      BY <1>4, <3>1 DEF FlowInv, NotesFirst
    <3>2. CASE q = p /\ n = msg.no
      <4>1. reported[n].by \in Clients
        BY <2>5, <3>2, Reporters
      <4>2. \A s \in SendNos(toServer[reported[n].by]) : n < s
        BY <1>2, <3>2, <4>1 DEF FlowInv, MessagesFirst
      <4> QED BY <1>2, <1>3, <3>2, <4>2
    <3> QED BY <2>2, <2>10, <2>11, <2>12, <3>1, <3>2
  <2>17. FlowInv'
    BY <2>13, <2>14, <2>15, <2>16 DEF FlowInv
  <2>18. Grows
    BY <2>2, <2>4, <2>10, <2>11, <2>12 DEF Grows, Extends
  <2>19. Has(p, msg.no)'
    BY <1>1, <2>1, <2>4, <2>5, <2>10, <2>11, <2>12 DEF Has, NoteOf
  <2>20. Handled
    BY <1>2, <1>3, <2>19
  <2> QED BY <2>17, <2>18, <2>20
<1>8. UNCHANGED <<audience, reported>>
  BY <1>1 DEF serverVars
<1> QED BY <1>1, <1>6, <1>7, <1>8

\* FlowInv is inductive, given the types.
LEMMA StepFlow == Typed /\ FlowInv /\ [Next]_vars => FlowInv'
<1>1. ASSUME Typed, FlowInv, UNCHANGED vars PROVE FlowInv'
  <2>1. UNCHANGED <<currentUsername, online, loggedIn, reported, userChannelEvents,
                    toServer, toClient>>
    BY <1>1 DEF vars, clientVars, netVars
  <2> QED BY <1>1, <2>1 DEF FlowInv, OneClient, Flowing, MessagesFirst, NotesFirst
<1>2. ASSUME Typed, FlowInv, NEW p \in Clients, IsStep(p) PROVE FlowInv'
  <2>1. CASE \E u \in Users : Login(p, u)
    BY <1>2, <2>1, LoginFlow
  <2>2. CASE \E ch \in Channels : Join(p, ch) \/ Exit(p, ch) \/ (\E u \in Users : Summary(p, ch, u))
    BY <1>2, <2>2, CommandFlow, SummaryFlow
  <2>3. CASE \E f \in Files : Report(p, f) \/ ReportFails(p, f)
    BY <1>2, <2>3, ReportFlow, ReportFailsFlow
  <2>4. CASE Disconnect(p) \/ ReceiveError(p)
    BY <1>2, <2>4, DisconnectFlow DEF ReceiveError
  <2>5. CASE Subscribe(p) \/ Unsubscribe(p) \/ Send(p) \/ Receive(p)
    BY <1>2, <2>5, SubscribingFlow, SendFlow, ReceiveFlow
  <2> QED BY <1>2, <2>1, <2>2, <2>3, <2>4, <2>5 DEF IsStep
<1> QED BY <1>1, <1>2, StepsAre
-----------------------------------------------------------------------------
(* What was passed on is noted *)

\* What is noted stays noted.
LEMMA HasGrows ==
    ASSUME Typed, Grows, NEW q \in Clients, NEW n \in 1..Len(reported), Has(q, n)
    PROVE  Has(q, n)'
<1>1. reported'[n] = reported[n]
  BY DEF Grows, Extends
<1>2. reported[n].channel \in Channels /\ reported[n].user \in Users
  BY Reporters DEF ReportRecord
<1> QED BY <1>1, <1>2 DEF Has, Grows

\* It stays so where notes and reports are added and messages are noted.
LEMMA ReachingKept ==
    ASSUME Typed, Typed', Reaching, Grows,
           \A n \in 1..Len(reported') : \A q \in Clients :
              n > Len(reported) /\ reported'[n].by = q => Has(q, n)',
           \A n \in 1..MaxEvents : n > Len(reported) => audience'[n] = {},
           \A n \in 1..Len(reported) : \A q \in audience'[n] :
              /\ q \in Clients
              /\ \/ n \in MessageNos(toClient'[q])
                 \/ reported[n].by = q
                 \/ Has(q, n)'
                 \/ q \in audience[n] /\ n \notin MessageNos(toClient[q])
    PROVE  Reaching'
<1>1. Len(reported) \in Nat /\ Len(reported) <= MaxEvents /\ MaxEvents \in Nat
  <2>1. reported \in Seq(ReportRecord) /\ Len(reported) <= MaxEvents
    BY DEF Typed, TypeInv
  <2>2. Len(reported) \in Nat
    BY <2>1
  <2> QED BY <2>1, <2>2, BoundsTyped
<1>2. \A n \in 1..Len(reported) : n \in 1..Len(reported') /\ reported'[n] = reported[n]
  BY DEF Grows, Extends
<1>3. Len(reported') \in Nat /\ Len(reported) <= Len(reported') /\ Len(reported') <= MaxEvents
  <2>1. reported' \in Seq(ReportRecord) /\ Len(reported') <= MaxEvents
    BY DEF Typed, TypeInv
  <2>2. Len(reported') \in Nat
    BY <2>1
  <2>3. Len(reported) > 0 => Len(reported) \in 1..Len(reported')
    BY <1>1, <1>2
  <2> QED BY <1>1, <2>1, <2>2, <2>3
<1>4. \A n \in 1..Len(reported) : \A q \in Clients : reported[n].by = q => Has(q, n)'
  <2> SUFFICES ASSUME NEW n \in 1..Len(reported), NEW q \in Clients, reported[n].by = q
               PROVE  Has(q, n)'
    OBVIOUS
  <2>1. Has(q, n)
    BY DEF Reaching, OwnNoted
  <2> QED BY <2>1, HasGrows
<1>5. OwnNoted'
  <2> SUFFICES ASSUME NEW n \in 1..Len(reported'), NEW q, q = reported'[n].by
               PROVE  Has(q, n)'
    BY DEF OwnNoted, Has
  <2>1. q \in Clients
    <3>1. reported' \in Seq(ReportRecord)
      BY DEF Typed, TypeInv
    <3>2. reported'[n] \in ReportRecord
      BY <3>1
    <3> QED BY <3>2 DEF ReportRecord
  <2>2. CASE n \in 1..Len(reported)
    BY <1>2, <1>4, <2>1, <2>2
  <2>3. CASE n > Len(reported)
    BY <2>1, <2>3
  <2> QED BY <1>1, <1>3, <2>2, <2>3
<1>6. NotYet'
  BY <1>1, <1>3 DEF NotYet
<1>7. \A n \in 1..Len(reported) : \A q \in audience'[n] :
         Has(q, n)' \/ n \in MessageNos(toClient'[q])
  <2> SUFFICES ASSUME NEW n \in 1..Len(reported), NEW q \in audience'[n]
               PROVE  Has(q, n)' \/ n \in MessageNos(toClient'[q])
    OBVIOUS
  <2>1. CASE reported[n].by = q
    BY <1>4, <2>1
  <2>2. CASE q \in Clients /\ q \in audience[n] /\ n \notin MessageNos(toClient[q])
    <3>1. Has(q, n)
      BY <2>2 DEF Reaching, PassedOn
    <3> QED BY <2>2, <3>1, HasGrows
  <2> QED BY <2>1, <2>2
<1>8. \A n \in 1..Len(reported') : n > Len(reported) => audience'[n] = {}
  BY <1>1, <1>3
<1>9. PassedOn'
  BY <1>1, <1>3, <1>7, <1>8 DEF PassedOn
<1> QED BY <1>5, <1>6, <1>9 DEF Reaching

\* Nothing is reported or noted.
LEMMA ReachingSame ==
    ASSUME Typed, Typed', Reaching, UNCHANGED <<userChannelEvents, reported>>,
           \A n \in 1..MaxEvents : \A q \in audience'[n] :
              \/ n \in 1..Len(reported) /\ n \in MessageNos(toClient'[q]) /\ q \in Clients
              \/ /\ q \in audience[n]
                 /\ n \in MessageNos(toClient[q]) => n \in MessageNos(toClient'[q])
    PROVE  Reaching'
<1>1. Grows
  BY DEF Grows, Extends
<1>2. \A n \in 1..Len(reported') : \A q \in Clients :
         n > Len(reported) /\ reported'[n].by = q => Has(q, n)'
  <2>1. reported \in Seq(ReportRecord)
    BY DEF Typed, TypeInv
  <2>2. Len(reported) \in Nat
    BY <2>1
  <2> QED BY <2>2
<1>3. /\ Len(reported) \in Nat /\ Len(reported) <= MaxEvents /\ MaxEvents \in Nat
      /\ audience \in [1..MaxEvents -> SUBSET Clients]
  <2>1. /\ reported \in Seq(ReportRecord) /\ Len(reported) <= MaxEvents
        /\ audience \in [1..MaxEvents -> SUBSET Clients]
    BY DEF Typed, TypeInv
  <2>2. Len(reported) \in Nat
    BY <2>1
  <2> QED BY <2>1, <2>2, BoundsTyped
<1>4. \A n \in 1..MaxEvents : n > Len(reported) => audience'[n] = {}
  <2> SUFFICES ASSUME NEW n \in 1..MaxEvents, n > Len(reported), NEW q \in audience'[n]
               PROVE  FALSE
    OBVIOUS
  <2>1. n \notin 1..Len(reported)
    BY <1>3
  <2>2. audience[n] = {}
    BY DEF Reaching, NotYet
  <2> QED BY <2>1, <2>2
<1>5. \A n \in 1..Len(reported) : \A q \in audience'[n] :
         /\ q \in Clients
         /\ \/ n \in MessageNos(toClient'[q])
            \/ q \in audience[n] /\ n \notin MessageNos(toClient[q])
  <2> SUFFICES ASSUME NEW n \in 1..Len(reported), NEW q \in audience'[n]
               PROVE  /\ q \in Clients
                      /\ \/ n \in MessageNos(toClient'[q])
                         \/ q \in audience[n] /\ n \notin MessageNos(toClient[q])
    OBVIOUS
  <2>1. n \in 1..MaxEvents
    BY <1>3
  <2>2. audience[n] \subseteq Clients
    BY <1>3, <2>1
  <2> QED BY <2>1, <2>2
<1> QED BY <1>1, <1>2, <1>4, <1>5, ReachingKept

\* Nothing was reported at first.
LEMMA InitReaching == Init => Reaching
BY DEF Init, Reaching, OwnNoted, PassedOn, NotYet

\* An ERROR takes no message away.
LEMMA RefuseReaching ==
    ASSUME Typed, Typed', Reaching, NEW p \in Clients, NEW type, Serves(p, type), Refuse(p)
    PROVE  Reaching'
<1>1. PICK e \in ServerFrame : toClient' = [toClient EXCEPT ![p] = Append(@, e)]
  BY DEF Refuse, ServerFrame
<1>2. UNCHANGED <<userChannelEvents, reported, audience>>
  BY ServesDoes DEF Refuse, clientVars, serverVars
<1>3. \A q \in Clients : toClient'[q] = toClient[q] \/ toClient'[q] = Append(toClient[q], e)
  BY <1>1 DEF Typed, TypeInv
<1>4. \A q \in Clients : MessageNos(toClient[q]) \subseteq MessageNos(toClient'[q])
  <2> SUFFICES ASSUME NEW q \in Clients
               PROVE  MessageNos(toClient[q]) \subseteq MessageNos(toClient'[q])
    OBVIOUS
  <2>1. toClient[q] \in Seq(ServerFrame)
    BY DEF Typed, TypeInv
  <2>2. MessageNos(toClient[q]) \subseteq MessageNos(Append(toClient[q], e))
    BY <2>1, MessagesAdded
  <2> QED BY <1>3, <2>2
<1>5. \A n \in 1..MaxEvents : audience[n] \subseteq Clients
  BY DEF Typed, TypeInv
<1> QED BY <1>2, <1>4, <1>5, ReachingSame

\* A SUBSCRIBE or an UNSUBSCRIBE takes no message away.
LEMMA SubscribingReaching ==
    ASSUME Typed, Typed', Reaching, NEW p \in Clients, Subscribe(p) \/ Unsubscribe(p)
    PROVE  Reaching'
<1>1. PICK type : Serves(p, type)
  BY DEF Subscribe, Unsubscribe
<1>2. CASE Refuse(p)
  BY <1>1, <1>2, RefuseReaching
<1>3. CASE UNCHANGED <<audience, toClient>>
  <2>1. UNCHANGED <<userChannelEvents, reported>>
    BY <1>1, ServesDoes DEF clientVars
  <2> QED BY <1>3, <2>1, ReachingSame
<1> QED BY <1>2, <1>3 DEF Subscribe, Unsubscribe

\* Commands without events leave notes and messages alone.
LEMMA CommandReaching ==
    ASSUME Typed, Typed', Reaching, NEW p \in Clients,
           \/ \E u \in Users : Login(p, u)
           \/ \E ch \in Channels : Join(p, ch) \/ Exit(p, ch)
           \/ \E ch \in Channels, u \in Users : Summary(p, ch, u)
           \/ \E f \in Files : ReportFails(p, f)
    PROVE  Reaching'
<1>1. UNCHANGED <<userChannelEvents, reported, toClient, audience>>
  BY DEF Login, Join, Exit, Summary, ReportFails, clientVars, serverVars, netVars
<1> QED BY <1>1, ReachingSame

\* Who is disconnected is no longer counted on.
LEMMA DisconnectReaching ==
    ASSUME Typed, Typed', Reaching, NEW p \in Clients, Disconnect(p)
    PROVE  Reaching'
<1>1. /\ UNCHANGED <<userChannelEvents, reported>>
      /\ \A q \in Clients \ {p} : toClient'[q] = toClient[q]
      /\ \A n \in 1..MaxEvents :
            audience'[n] = audience[n] \ {p} /\ audience[n] \subseteq Clients
  <2>1. DOMAIN toClient = Clients /\ audience \in [1..MaxEvents -> SUBSET Clients]
    BY DEF Typed, TypeInv
  <2>2. /\ UNCHANGED <<userChannelEvents, reported>>
        /\ toClient' = [toClient EXCEPT ![p] = <<>>]
        /\ audience' = [n \in DOMAIN audience |-> audience[n] \ {p}]
    BY DEF Disconnect
  <2> QED BY <2>1, <2>2
<1>2. \A n \in 1..MaxEvents : \A q \in audience'[n] :
         q \in audience[n] /\ toClient'[q] = toClient[q]
  BY <1>1
<1>3. \A n \in 1..MaxEvents : \A q \in audience'[n] :
         /\ q \in audience[n]
         /\ n \in MessageNos(toClient[q]) => n \in MessageNos(toClient'[q])
  BY <1>2
<1>4. UNCHANGED <<userChannelEvents, reported>>
  BY <1>1
<1> QED BY <1>3, <1>4, ReachingSame

\* Everyone who is counted on gets the message.
LEMMA SendReaching ==
    ASSUME Typed, Typed', FlowInv, Reaching, NEW p \in Clients, Send(p)
    PROVE  Reaching'
<1>1. PICK frame : frame = Head(toServer[p])
  OBVIOUS
<1>2. PICK to : to = subscribers[frame.channel]
  OBVIOUS
<1>3. PICK msg : msg = [type |-> "MESSAGE", channel |-> frame.channel, no |-> frame.no,
                        body |-> ThroughServer(frame.body)]
  OBVIOUS
<1>4. Serves(p, "SEND")
  BY DEF Send
<1>5. msg \in ServerFrame /\ to \in SUBSET Clients
  BY <1>1, <1>2, <1>3, <1>4, SendDoes
<1>6. frame.no \in 1..Len(reported)
  <2>1. IsSend(frame)
    BY <1>1, <1>4, ServesDoes DEF IsSend
  <2>2. SendOf(frame, reported, p, currentUsername[p])
    BY <1>1, <1>4, <2>1, ServesFlow, Zenon
  <2> QED BY <2>2 DEF SendOf
<1>7. UNCHANGED <<userChannelEvents, reported>>
  BY <1>4, ServesDoes DEF clientVars
<1>8. CASE Refuse(p)
  BY <1>4, <1>8, RefuseReaching
<1>9. ASSUME toClient' = [q \in Clients |->
                IF q \in to THEN Append(toClient[q], msg) ELSE toClient[q]],
             audience' = [audience EXCEPT ![frame.no] = to]
      PROVE  Reaching'
  <2>1. msg.no = frame.no /\ IsMessage(msg)
    BY <1>3 DEF IsMessage
  <2>2. \A q \in Clients : /\ MessageNos(toClient[q]) \subseteq MessageNos(toClient'[q])
                           /\ q \in to => frame.no \in MessageNos(toClient'[q])
    <3> SUFFICES ASSUME NEW q \in Clients
                 PROVE  /\ MessageNos(toClient[q]) \subseteq MessageNos(toClient'[q])
                        /\ q \in to => frame.no \in MessageNos(toClient'[q])
      OBVIOUS
    <3>1. toClient[q] \in Seq(ServerFrame)
      BY DEF Typed, TypeInv
    <3>2. /\ MessageNos(toClient[q]) \subseteq MessageNos(Append(toClient[q], msg))
          /\ msg.no \in MessageNos(Append(toClient[q], msg))
      BY <1>5, <2>1, <3>1, MessagesAdded
    <3>3. toClient'[q] = IF q \in to THEN Append(toClient[q], msg) ELSE toClient[q]
      BY <1>9
    <3> QED BY <2>1, <3>2, <3>3
  <2>3. \A n \in 1..MaxEvents :
           /\ audience[n] \subseteq Clients
           /\ audience'[n] = audience[n] \/ (n = frame.no /\ audience'[n] = to)
    BY <1>9 DEF Typed, TypeInv
  <2> QED BY <1>5, <1>6, <1>7, <2>2, <2>3, ReachingSame
<1> QED BY <1>1, <1>2, <1>3, <1>8, <1>9 DEF Send

\* A reporter notes what it reports, and nobody was sent it yet.
LEMMA ReportReaching ==
    ASSUME Typed, Typed', FlowInv, Reaching, NEW p \in Clients, NEW f \in Files, Report(p, f)
    PROVE  Reaching'
<1>1. /\ Grows
      /\ \A n \in 1..Len(reported') :
            n > Len(reported) => reported'[n].by = p /\ Has(p, n)'
      /\ UNCHANGED <<toClient, audience>>
  BY ReportFlow
<1>2. \A n \in 1..Len(reported') : \A q \in Clients :
         n > Len(reported) /\ reported'[n].by = q => Has(q, n)'
  BY <1>1
<1>3. \A n \in 1..MaxEvents : n > Len(reported) => audience'[n] = {}
  BY <1>1 DEF Reaching, NotYet
<1>4. \A n \in 1..Len(reported) : audience[n] \subseteq Clients
  <2>1. /\ reported \in Seq(ReportRecord) /\ Len(reported) <= MaxEvents
        /\ audience \in [1..MaxEvents -> SUBSET Clients]
    BY DEF Typed, TypeInv
  <2>2. Len(reported) \in Nat
    BY <2>1
  <2>3. \A n \in 1..Len(reported) : n \in 1..MaxEvents
    BY <2>1, <2>2, BoundsTyped
  <2> QED BY <2>1, <2>3
<1>5. \A n \in 1..Len(reported) : \A q \in audience'[n] :
         /\ q \in Clients
         /\ \/ n \in MessageNos(toClient'[q])
            \/ q \in audience[n] /\ n \notin MessageNos(toClient[q])
  BY <1>1, <1>4
<1> QED BY <1>1, <1>2, <1>3, <1>5, ReachingKept

\* What is taken from the messages is noted.
LEMMA ReceiveReaching ==
    ASSUME Typed, Typed', FlowInv, Reaching, NEW p \in Clients, Receive(p)
    PROVE  Reaching'
<1>1. /\ Grows
      /\ \A q \in Clients : \A x \in MessageNos(toClient[q]) :
            \/ x \in MessageNos(toClient'[q])
            \/ reported[x].by = q
            \/ Has(q, x)'
      /\ UNCHANGED <<audience, reported>>
  BY ReceiveFlow
<1>2. \A n \in 1..MaxEvents : n > Len(reported) => audience'[n] = {}
  BY <1>1 DEF Reaching, NotYet
<1>3. /\ reported \in Seq(ReportRecord) /\ Len(reported) <= MaxEvents
      /\ audience \in [1..MaxEvents -> SUBSET Clients]
  BY DEF Typed, TypeInv
<1>4. Len(reported) \in Nat
  BY <1>3
<1>5. \A n \in 1..Len(reported) : audience[n] \subseteq Clients
  <2>1. \A n \in 1..Len(reported) : n \in 1..MaxEvents
    BY <1>3, <1>4, BoundsTyped
  <2> QED BY <1>3, <2>1
<1>6. \A n \in 1..Len(reported) : \A q \in audience'[n] :
         /\ q \in Clients
         /\ \/ n \in MessageNos(toClient'[q])
            \/ reported[n].by = q
            \/ Has(q, n)'
            \/ q \in audience[n] /\ n \notin MessageNos(toClient[q])
  BY <1>1, <1>5
<1>7. \A n \in 1..Len(reported') : ~(n > Len(reported))
  BY <1>1, <1>4
<1> QED BY <1>1, <1>2, <1>6, <1>7, ReachingKept

\* Reaching is inductive, given the types and the order.
LEMMA StepReaching == Typed /\ FlowInv /\ Reaching /\ [Next]_vars => Reaching'
<1>1. ASSUME Typed, Typed', Reaching, UNCHANGED vars PROVE Reaching'
  <2>1. UNCHANGED <<userChannelEvents, reported, toClient, audience>>
    BY <1>1 DEF vars, clientVars, netVars, serverVars
  <2> QED BY <1>1, <2>1, ReachingSame
<1>2. ASSUME Typed, Typed', FlowInv, Reaching, NEW p \in Clients, IsStep(p) PROVE Reaching'
  <2>1. CASE \/ \E u \in Users : Login(p, u)
             \/ \E ch \in Channels : Join(p, ch) \/ Exit(p, ch)
             \/ \E ch \in Channels, u \in Users : Summary(p, ch, u)
             \/ \E f \in Files : ReportFails(p, f)
    BY <1>2, <2>1, CommandReaching
  <2>2. CASE \E f \in Files : Report(p, f)
    BY <1>2, <2>2, ReportReaching
  <2>3. CASE Disconnect(p) \/ ReceiveError(p)
    BY <1>2, <2>3, DisconnectReaching DEF ReceiveError
  <2>4. CASE Subscribe(p) \/ Unsubscribe(p) \/ Send(p) \/ Receive(p)
    BY <1>2, <2>4, SubscribingReaching, SendReaching, ReceiveReaching
  <2> QED BY <1>2, <2>1, <2>2, <2>3, <2>4 DEF IsStep
<1> QED BY <1>1, <1>2, StepsAre, StepTyped
-----------------------------------------------------------------------------
(* Theorems *)

\* The whole invariant
LEMMA Invariance == Spec => [](Typed /\ FlowInv /\ Reaching)
<1>1. Init => Typed /\ FlowInv /\ Reaching
  BY InitTyped, InitFlow, InitReaching
<1>2. Typed /\ FlowInv /\ Reaching /\ [Next]_vars => (Typed /\ FlowInv /\ Reaching)'
  BY StepTyped, StepFlow, StepReaching
<1> QED BY <1>1, <1>2, PTL DEF Spec

\* Every variable keeps its type, and what is noted or on its way is numbered
\* among the reports.
THEOREM TypeCorrect == Spec => []TypeOK
<1>1. Typed /\ FlowInv => TypeOK
  <2> SUFFICES ASSUME Typed, FlowInv PROVE TypeOK
    OBVIOUS
  <2>1. ASSUME NEW p \in Clients
        PROVE  /\ DOMAIN userChannelEvents[p] = Channels \X Users
               /\ \A key \in Channels \X Users :
                     \A i \in DOMAIN userChannelEvents[p][key] :
                         userChannelEvents[p][key][i].no \in 1..Len(reported)
               /\ \A i \in DOMAIN toServer[p] :
                     toServer[p][i].type \in {"SUBSCRIBE", "UNSUBSCRIBE", "SEND"}
               /\ \A i \in DOMAIN toClient[p] :
                     toClient[p][i].type = "MESSAGE"
                         => toClient[p][i].no \in 1..Len(reported)
               /\ toServer[p] # <<>> \/ toClient[p] # <<>> => online[p]
    <3>1. DOMAIN userChannelEvents[p] = Channels \X Users
      BY DEF Typed, TypeInv
    <3>2. ASSUME NEW ch \in Channels, NEW u \in Users,
                 NEW i \in DOMAIN userChannelEvents[p][<<ch, u>>]
          PROVE  userChannelEvents[p][<<ch, u>>][i].no \in 1..Len(reported)
      <4>1. PICK N \in Seq(Note) : N = userChannelEvents[p][<<ch, u>>]
        BY DEF Typed, TypeInv
      <4>2. Noting(N, reported, ch, u)
        BY <4>1 DEF FlowInv, Flowing
      <4>3. i \in 1..Len(N)
        BY <4>1
      <4> QED BY <4>1, <4>2, <4>3 DEF Noting, NoteOf
    <3>3. ASSUME NEW i \in DOMAIN toServer[p]
          PROVE  toServer[p][i].type \in {"SUBSCRIBE", "UNSUBSCRIBE", "SEND"}
      <4>1. PICK s \in Seq(ClientFrame) : s = toServer[p]
        BY DEF Typed, TypeInv
      <4>2. s[i] \in ClientFrame
        BY <4>1
      <4> QED BY <4>1, <4>2 DEF ClientFrame
    <3>4. ASSUME NEW i \in DOMAIN toClient[p], toClient[p][i].type = "MESSAGE"
          PROVE  toClient[p][i].no \in 1..Len(reported)
      <4>1. PICK s \in Seq(ServerFrame) : s = toClient[p]
        BY DEF Typed, TypeInv
      <4>2. Messaging(s, reported, p, currentUsername[p])
        BY <4>1 DEF FlowInv, Flowing
      <4>3. i \in 1..Len(s) /\ IsMessage(s[i])
        BY <3>4, <4>1 DEF IsMessage
      <4> QED BY <4>1, <4>2, <4>3 DEF Messaging, MessageOf
    <3>5. toServer[p] # <<>> \/ toClient[p] # <<>> => online[p]
      BY DEF Typed, Connected
    <3> QED BY <3>1, <3>2, <3>3, <3>4, <3>5
  <2>2. subscribers \in [Channels -> SUBSET {p \in Clients : online[p]}]
    BY DEF Typed, TypeInv, Connected
  <2> QED BY <2>1, <2>2 DEF Typed, TypeInv, TypeOK
<1> QED BY <1>1, Invariance, PTL

\* What a client notes was reported, under that user and on that channel; it is
\* noted once, in the order of the reports, and its fields are those of the file.
THEOREM Attributed == Spec => []NotedAsReported
<1>1. ASSUME Typed, FlowInv PROVE NotedAsReported
  <2>1. ASSUME NEW p \in Clients, NEW ch \in Channels, NEW u \in Users,
               NEW i \in DOMAIN userChannelEvents[p][<<ch, u>>]
        PROVE  LET q   == userChannelEvents[p][<<ch, u>>]
                   got == q[i].event
                   was == reported[q[i].no].event
               IN
               /\ q[i].no \in Reports(ch, u)
               /\ \A k \in 1..(i - 1) : q[k].no < q[i].no
               /\ got.name = was.name /\ got.date_time = was.date_time
               /\ Arrived(got.city, was.city)
               /\ \A key \in DOMAIN was.general_information :
                     /\ key \in DOMAIN got.general_information
                     /\ Arrived(got.general_information[key],
                                was.general_information[key])
    <3>1. PICK N \in Seq(Note) : N = userChannelEvents[p][<<ch, u>>]
      BY <1>1 DEF Typed, TypeInv
    <3>2. Noting(N, reported, ch, u)
      BY <1>1, <3>1 DEF FlowInv, Flowing
    <3>3. i \in 1..Len(N) /\ \A k \in 1..(i - 1) : k \in 1..Len(N) /\ k < i
      BY <2>1, <3>1
    <3>4. \A k \in 1..(i - 1) : N[k].no < N[i].no
      BY <3>2, <3>3 DEF Noting
    <3>5. NoteOf(N[i], reported, ch, u)
      BY <3>2, <3>3 DEF Noting
    <3>6. N[i].no \in Reports(ch, u)
      BY <3>5 DEF NoteOf, Reports
    <3>7. Agrees(N[i].event, reported[N[i].no].event)
      BY <3>5 DEF NoteOf
    <3> QED BY <3>1, <3>4, <3>6, <3>7, Zenon DEF Agrees
  <2> QED BY <2>1, Zenon DEF NotedAsReported
<1> QED BY <1>1, Invariance, PTL

\* What the server passes on to a client that stays is noted there, or it is on
\* its way.
THEOREM NothingLost == Spec => []NothingMissed
<1>1. Typed /\ FlowInv /\ Reaching => NothingMissed
  <2> SUFFICES ASSUME Typed, FlowInv, Reaching,
                      NEW n \in 1..Len(reported), NEW p \in audience[n]
               PROVE  \/ Noted(p, n)
                      \/ \E i \in DOMAIN toClient[p] :
                            toClient[p][i].type = "MESSAGE" /\ toClient[p][i].no = n
    BY DEF NothingMissed
  <2>1. p \in Clients
    <3>1. /\ reported \in Seq(ReportRecord) /\ Len(reported) <= MaxEvents
          /\ audience \in [1..MaxEvents -> SUBSET Clients]
      BY DEF Typed, TypeInv
    <3>2. Len(reported) \in Nat
      BY <3>1
    <3>3. n \in 1..MaxEvents
      BY <3>1, <3>2, BoundsTyped
    <3> QED BY <3>1, <3>3
  <2>2. CASE Has(p, n)
    <3>1. reported[n].channel \in Channels /\ reported[n].user \in Users
      BY Reporters DEF ReportRecord
    <3>2. PICK N \in Seq(Note) :
             N = userChannelEvents[p][<<reported[n].channel, reported[n].user>>]
      BY <2>1, <3>1 DEF Typed, TypeInv
    <3>3. \E i \in DOMAIN N : N[i].no = n
      BY <2>2, <3>2 DEF Has, NoteNos
    <3> QED BY <3>2, <3>3 DEF Noted
  <2>3. CASE n \in MessageNos(toClient[p])
    <3>1. PICK s \in Seq(ServerFrame) : s = toClient[p]
      BY <2>1 DEF Typed, TypeInv
    <3>2. \E i \in DOMAIN s : s[i].type = "MESSAGE" /\ s[i].no = n
      BY <2>3, <3>1 DEF MessageNos, IsMessage
    <3> QED BY <3>1, <3>2
  <2> QED BY <2>2, <2>3 DEF Reaching, PassedOn
<1> QED BY <1>1, Invariance, PTL
=============================================================================
