--------------------------- MODULE FullPing_proofs --------------------------
(***************************************************************************)
(* Theorems about FullPing: whatever rung fails, on every host, what is    *)
(* open is closed, once, and nothing before what was opened from it.       *)
(***************************************************************************)
EXTENDS FullPing, TLAPS

\* What is open when a rung is tried.
HeldAt ==
  [info   |-> {"hints"},
   fabric |-> {"hints", "info"},
   domain |-> {"hints", "info", "fabric"},
   ep     |-> {"hints", "info", "fabric", "domain"},
   pep    |-> {"hints", "info", "fabric", "domain"},
   send   |-> {"hints", "info", "fabric", "domain", "ep"},
   recv   |-> {"hints", "info", "fabric", "domain", "ep"},
   listen |-> {"hints", "info", "fabric", "domain", "pep"}]

\* A list that closes what is on it once, children before parents.
Ordered(list) ==
  \A a, b \in 1 .. Len(list) :
    a < b => /\ list[a] # list[b]
             /\ \A o \in DOMAIN OpenedFrom :
                  OpenedFrom[o] = list[a] => o # list[b]

Elements(list) == {list[k] : k \in 1 .. Len(list)}

\* What is open besides the objects of the list: PingAll keeps the hints.
Kept == IF resume = "loop" THEN {"hints"} ELSE {}

\* The objects that are open at each step of the two ladders.
RungInv ==
  step \in DOMAIN HeldAt =>
    /\ held = HeldAt[step]
    /\ mode \in {"client", "server"}
    /\ mode = "client" => i <= hosts /\ step \notin {"pep", "listen"}
    /\ mode = "server" => step \notin {"ep", "send", "recv"}

\* The rest of the list is what is open, in the order of closing.
ReleaseInv ==
  step = "release" =>
    /\ Ordered(todo)
    /\ held = Kept \cup Elements(todo)
    /\ Kept \cap Elements(todo) = {}
    /\ resume = "returned" \/ (resume = "loop" /\ mode = "client")

StartInv ==
  /\ step = "main" => held = {} /\ i = 1 /\ hosts = 0
  /\ step = "hints" => /\ held = {} /\ i <= hosts
                       /\ mode \in {"client", "server"}
  /\ step = "loop" => mode = "client"

LadderInv == TypeOK /\ StartInv /\ RungInv /\ ReleaseInv /\ NothingLeaks
-----------------------------------------------------------------------------
\* The steps at which a rung is tried.
LEMMA RungFacts ==
  /\ DOMAIN HeldAt = {"info", "fabric", "domain", "ep", "pep", "send", "recv",
                      "listen"}
  /\ HeldAt["info"] = {"hints"}
  /\ HeldAt["fabric"] = {"hints", "info"}
  /\ HeldAt["domain"] = {"hints", "info", "fabric"}
  /\ HeldAt["ep"] = {"hints", "info", "fabric", "domain"}
  /\ HeldAt["pep"] = HeldAt["ep"]
  /\ HeldAt["send"] = {"hints", "info", "fabric", "domain", "ep"}
  /\ HeldAt["recv"] = HeldAt["send"]
  /\ HeldAt["listen"] = {"hints", "info", "fabric", "domain", "pep"}
  BY DEF HeldAt

\* The lists of a client and of a server close what is open at a failed rung,
\* in order.
LEMMA FailLists ==
  ASSUME NEW m \in {"client", "server"},
         NEW r \in {"info", "fabric", "domain", "ep", "pep", "listen"},
         m = "client" => r \notin {"pep", "listen"},
         m = "server" => r # "ep"
  PROVE  /\ OnFail(m, r) \in Seq(Objects)
         /\ Ordered(OnFail(m, r))
         /\ Elements(OnFail(m, r)) =
              IF m = "client" THEN HeldAt[r] \ {"hints"} ELSE HeldAt[r]
<1> USE DEF OnFail, Objects, Ordered, Elements, HeldAt, OpenedFrom
<1>1. CASE m = "client" /\ r = "info"
  BY <1>1
<1>2. CASE m = "client" /\ r = "fabric"
  BY <1>2
<1>3. CASE m = "client" /\ r = "domain"
  BY <1>3
<1>4. CASE m = "client" /\ r = "ep"
  BY <1>4
<1>5. CASE m = "server" /\ r = "info"
  BY <1>5
<1>6. CASE m = "server" /\ r = "fabric"
  BY <1>6
<1>7. CASE m = "server" /\ r = "domain"
  BY <1>7
<1>8. CASE m = "server" /\ r = "pep"
  BY <1>8
<1>9. CASE m = "server" /\ r = "listen"
  BY <1>9
<1> QED BY <1>1, <1>2, <1>3, <1>4, <1>5, <1>6, <1>7, <1>8, <1>9

\* The cleanup at the end of PingAll's iteration closes what is open then.
LEMMA CleanupList ==
  LET list == <<"ep", "domain", "fabric", "info">>
  IN  /\ list \in Seq(Objects)
      /\ Ordered(list)
      /\ Elements(list) = HeldAt["recv"] \ {"hints"}
  BY DEF Objects, Ordered, Elements, HeldAt, OpenedFrom

\* The hints are closed last.
LEMMA HintsList ==
  LET list == <<"hints">>
  IN  list \in Seq(Objects) /\ Ordered(list) /\ Elements(list) = {"hints"}
  BY DEF Objects, Ordered, Elements

\* A statement of a list closes its first object and leaves a list.
LEMMA TailList ==
  ASSUME NEW list \in Seq(Objects), list # <<>>, Ordered(list)
  PROVE  /\ Tail(list) \in Seq(Objects)
         /\ Ordered(Tail(list))
         /\ Elements(Tail(list)) = Elements(list) \ {Head(list)}
         /\ Head(list) \in Elements(list)
         /\ Head(list) \in Objects
         /\ \A o \in DOMAIN OpenedFrom :
              OpenedFrom[o] = Head(list) => o \notin Elements(Tail(list))
<1>1. /\ Tail(list) \in Seq(Objects) /\ Len(list) \in Nat \ {0}
      /\ Len(Tail(list)) = Len(list) - 1 /\ Head(list) = list[1]
      /\ \A k \in 1 .. Len(list) - 1 : Tail(list)[k] = list[k + 1]
      /\ 1 \in 1 .. Len(list) /\ list[1] \in Objects
  OBVIOUS
<1>2. Ordered(Tail(list))
  BY <1>1 DEF Ordered
<1>3. \A k \in 1 .. Len(list) : k # 1 => /\ k - 1 \in 1 .. Len(list) - 1
                                         /\ list[k] = Tail(list)[k - 1]
                                         /\ list[k] # list[1]
  BY <1>1 DEF Ordered
<1>4. Elements(Tail(list)) = Elements(list) \ {Head(list)}
  <2>1. ASSUME NEW x \in Elements(Tail(list))
        PROVE  x \in Elements(list) /\ x # Head(list)
    <3>1. PICK k \in 1 .. Len(list) - 1 : x = list[k + 1]
      BY <1>1 DEF Elements
    <3>2. k + 1 \in 1 .. Len(list) /\ k + 1 # 1
      BY <1>1
    <3> QED BY <1>1, <1>3, <3>1, <3>2 DEF Elements
  <2>2. ASSUME NEW x \in Elements(list), x # Head(list)
        PROVE  x \in Elements(Tail(list))
    <3>1. PICK k \in 1 .. Len(list) : x = list[k]
      BY DEF Elements
    <3>2. k # 1
      BY <1>1, <2>2, <3>1
    <3> QED BY <1>1, <1>3, <3>1, <3>2 DEF Elements
  <2> QED BY <2>1, <2>2
<1>5. ASSUME NEW o \in DOMAIN OpenedFrom, OpenedFrom[o] = Head(list)
      PROVE  o \notin Elements(Tail(list))
  <2>1. \A k \in 1 .. Len(list) : 1 < k => o # list[k]
    BY <1>1, <1>5 DEF Ordered
  <2>2. \A k \in 1 .. Len(list) - 1 : o # Tail(list)[k]
    BY <1>1, <2>1
  <2> QED BY <1>1, <2>2 DEF Elements
<1> QED BY <1>1, <1>2, <1>4, <1>5 DEF Elements

\* The rungs of the two ladders and what comes after each.
LEMMA ClimbCases ==
  ASSUME NEW m \in {"client", "server"}, Climb(m)
  PROVE  \/ /\ \/ step = "info" /\ step' = "fabric"
               \/ step = "fabric" /\ step' = "domain"
               \/ step = "domain" /\ m = "client" /\ step' = "ep"
               \/ step = "domain" /\ m = "server" /\ step' = "pep"
               \/ step = "ep" /\ m = "client" /\ step' = "send"
               \/ step = "send" /\ m = "client" /\ step' = "recv"
               \/ step = "pep" /\ m = "server" /\ step' = "listen"
            /\ held' = IF step \in Objects THEN held \cup {step} ELSE held
            /\ UNCHANGED <<todo, resume, i, status>>
         \/ /\ step = "recv" /\ m = "client"
            /\ Release(<<"ep", "domain", "fabric", "info">>, "loop")
            /\ held' = held /\ i' = i + 1
            /\ UNCHANGED status
         \/ /\ step = "listen" /\ m = "server"
            /\ step' = "returned" /\ status' = "0"
            /\ held' = held
            /\ UNCHANGED <<todo, resume, i>>
<1>1. PICK k \in 1 .. Len(Rungs[m]) :
        /\ step = Rungs[m][k]
        /\ held' = IF step \in Objects THEN held \cup {step} ELSE held
        /\ \/ /\ k < Len(Rungs[m])
              /\ step' = Rungs[m][k + 1]
              /\ UNCHANGED <<todo, resume, i, status>>
           \/ /\ k = Len(Rungs[m])
              /\ IF m = "client"
                 THEN /\ Release(<<"ep", "domain", "fabric", "info">>, "loop")
                      /\ i' = i + 1
                      /\ UNCHANGED status
                 ELSE /\ step' = "returned"
                      /\ status' = "0"
                      /\ UNCHANGED <<todo, resume, i>>
  BY DEF Climb
<1>2. CASE m = "client"
  <2>1. /\ Len(Rungs[m]) = 6
        /\ Rungs[m][1] = "info" /\ Rungs[m][2] = "fabric"
        /\ Rungs[m][3] = "domain" /\ Rungs[m][4] = "ep"
        /\ Rungs[m][5] = "send" /\ Rungs[m][6] = "recv"
    BY <1>2 DEF Rungs
  <2>2. k \in {1, 2, 3, 4, 5, 6}
    BY <1>1, <2>1
  <2> QED BY <1>1, <1>2, <2>1, <2>2 DEF Objects
<1>3. CASE m = "server"
  <2>1. /\ Len(Rungs[m]) = 5
        /\ Rungs[m][1] = "info" /\ Rungs[m][2] = "fabric"
        /\ Rungs[m][3] = "domain" /\ Rungs[m][4] = "pep"
        /\ Rungs[m][5] = "listen"
    BY <1>3 DEF Rungs
  <2>2. k \in {1, 2, 3, 4, 5}
    BY <1>1, <2>1
  <2> QED BY <1>1, <1>3, <2>1, <2>2 DEF Objects
<1> QED BY <1>2, <1>3

\* Type correctness and the ladder are kept by every step.
LEMMA LadderInvInductive ==
  /\ Init => LadderInv
  /\ LadderInv /\ [Next]_vars => LadderInv'
<1> USE FullPingAssumption
<1>1. Init => LadderInv
  BY DEF Init, LadderInv, TypeOK, StartInv, RungInv, ReleaseInv, NothingLeaks,
     HeldAt
<1>2. ASSUME LadderInv, [Next]_vars
      PROVE  LadderInv'
  <2> USE <1>2 DEF LadderInv
  <2>1. CASE Main
    BY <2>1 DEF Main, TypeOK, StartInv, RungInv, ReleaseInv, NothingLeaks,
       HeldAt
  <2>2. CASE AllocHints
    <3>1. \/ /\ held' = {"hints"} /\ UNCHANGED status
             /\ \/ mode = "client" /\ step' = "loop"
                \/ mode # "client" /\ step' = "info"
          \/ step' = "returned" /\ status' = "1" /\ held' = {}
      BY <2>2 DEF AllocHints, StartInv
    <3>2. mode \in {"client", "server"} /\ i <= hosts
      BY <2>2 DEF AllocHints, StartInv
    <3>3. UNCHANGED <<mode, lines, hosts, i, todo, resume>>
      BY <2>2 DEF AllocHints
    <3>4. TypeOK'
      BY <3>1, <3>3 DEF TypeOK, Objects
    <3>5. StartInv' /\ RungInv' /\ ReleaseInv' /\ NothingLeaks'
      BY <3>1, <3>2, <3>3, RungFacts
         DEF StartInv, RungInv, ReleaseInv, NothingLeaks
    <3> QED BY <3>4, <3>5
  <2>3. CASE Loop
    <3>1. CASE i <= hosts
      <4>1. /\ step = "loop" /\ step' = "info"
            /\ UNCHANGED <<mode, lines, hosts, i, held, todo, resume, status>>
        BY <2>3, <3>1 DEF Loop, TypeOK
      <4>2. held = {"hints"} /\ mode = "client"
        BY <4>1 DEF StartInv, NothingLeaks
      <4>3. TypeOK'
        BY <4>1 DEF TypeOK
      <4> QED BY <3>1, <4>1, <4>2, <4>3, RungFacts
              DEF StartInv, RungInv, ReleaseInv, NothingLeaks
    <3>2. CASE ~(i <= hosts)
      <4>1. /\ step' = "release" /\ todo' = <<"hints">> /\ resume' = "returned"
            /\ status' = "0" /\ held' = {"hints"}
            /\ UNCHANGED <<mode, lines, hosts, i>>
        BY <2>3, <3>2 DEF Loop, Release, NothingLeaks, TypeOK
      <4>2. ReleaseInv'
        BY <4>1, HintsList DEF ReleaseInv, Ordered, Elements, Kept
      <4> QED BY <4>1, <4>2, HintsList
              DEF TypeOK, StartInv, RungInv, NothingLeaks, HeldAt
    <3> QED BY <3>1, <3>2
  <2>4. CASE Ladder
    <3>1. mode \in {"client", "server"} /\ UNCHANGED <<mode, lines, hosts>>
      BY <2>4 DEF Ladder
    <3>2. CASE Climb(mode)
      <4>1. CASE /\ \/ step = "info" /\ step' = "fabric"
                    \/ step = "fabric" /\ step' = "domain"
                    \/ step = "domain" /\ mode = "client" /\ step' = "ep"
                    \/ step = "domain" /\ mode = "server" /\ step' = "pep"
                    \/ step = "ep" /\ mode = "client" /\ step' = "send"
                    \/ step = "send" /\ mode = "client" /\ step' = "recv"
                    \/ step = "pep" /\ mode = "server" /\ step' = "listen"
                 /\ held' = IF step \in Objects THEN held \cup {step} ELSE held
                 /\ UNCHANGED <<todo, resume, i, status>>
        <5>1. step \in DOMAIN HeldAt /\ held = HeldAt[step]
          BY <4>1, RungFacts DEF RungInv
        <5>2. step' \in DOMAIN HeldAt /\ held' = HeldAt[step']
          BY <4>1, <5>1, RungFacts DEF Objects
        <5>3. TypeOK'
          BY <3>1, <4>1 DEF TypeOK, Objects
        <5>4. RungInv'
          BY <3>1, <4>1, <5>1, <5>2 DEF RungInv
        <5> QED BY <4>1, <5>3, <5>4 DEF StartInv, ReleaseInv, NothingLeaks
      <4>2. CASE /\ step = "recv" /\ mode = "client"
                 /\ Release(<<"ep", "domain", "fabric", "info">>, "loop")
                 /\ held' = held /\ i' = i + 1
                 /\ UNCHANGED status
        <5>1. held = HeldAt["recv"] /\ i <= hosts
          BY <4>2, RungFacts DEF RungInv
        <5>2. /\ step' = "release" /\ resume' = "loop"
              /\ todo' = <<"ep", "domain", "fabric", "info">>
          BY <4>2 DEF Release
        <5>3. /\ todo' \in Seq(Objects) /\ Ordered(todo')
              /\ Elements(todo') = held \ {"hints"} /\ "hints" \in held
          BY <5>1, <5>2, CleanupList, RungFacts
        <5>4. TypeOK'
          BY <3>1, <4>2, <5>1, <5>2, <5>3 DEF TypeOK
        <5>5. ReleaseInv'
          BY <3>1, <4>2, <5>2, <5>3 DEF ReleaseInv, Kept, Ordered, Elements
        <5> QED BY <5>2, <5>4, <5>5, RungFacts
                DEF StartInv, RungInv, NothingLeaks
      <4>3. CASE /\ step = "listen" /\ mode = "server"
                 /\ step' = "returned" /\ status' = "0"
                 /\ held' = held
                 /\ UNCHANGED <<todo, resume, i>>
        <5>1. TypeOK'
          BY <3>1, <4>3 DEF TypeOK
        <5> QED BY <3>1, <4>3, <5>1, RungFacts
                DEF StartInv, RungInv, ReleaseInv, NothingLeaks
      <4> QED BY <3>1, <3>2, <4>1, <4>2, <4>3, ClimbCases
    <3>3. CASE Fail(mode)
      <4> DEFINE list == OnFail(mode, step)
                 label == IF mode = "client" THEN "loop" ELSE "returned"
      <4>1. /\ step \in {"info", "fabric", "domain", "ep", "pep", "listen"}
            /\ todo' = list /\ resume' = label /\ step' = "release"
            /\ i' = IF mode = "client" THEN i + 1 ELSE i
            /\ status' = IF mode = "client" THEN status ELSE "1"
            /\ UNCHANGED held
        <5>1. step \in {"info", "fabric", "domain", "ep", "pep", "listen"}
          <6>1. PICK k \in 1 .. Len(Rungs[mode]) : step = Rungs[mode][k]
            BY <3>3 DEF Fail
          <6>2. step \notin {"send", "recv"}
            BY <3>3 DEF Fail
          <6>3. CASE mode = "client"
            <7>1. /\ Len(Rungs[mode]) = 6
                  /\ Rungs[mode][1] = "info" /\ Rungs[mode][2] = "fabric"
                  /\ Rungs[mode][3] = "domain" /\ Rungs[mode][4] = "ep"
                  /\ Rungs[mode][5] = "send" /\ Rungs[mode][6] = "recv"
              BY <6>3 DEF Rungs
            <7>2. k \in {1, 2, 3, 4, 5, 6}
              BY <6>1, <7>1
            <7> QED BY <6>1, <6>2, <7>1, <7>2
          <6>4. CASE mode = "server"
            <7>1. /\ Len(Rungs[mode]) = 5
                  /\ Rungs[mode][1] = "info" /\ Rungs[mode][2] = "fabric"
                  /\ Rungs[mode][3] = "domain" /\ Rungs[mode][4] = "pep"
                  /\ Rungs[mode][5] = "listen"
              BY <6>4 DEF Rungs
            <7>2. k \in {1, 2, 3, 4, 5}
              BY <6>1, <7>1
            <7> QED BY <6>1, <6>2, <7>1, <7>2
          <6> QED BY <3>1, <6>3, <6>4
        <5> QED BY <3>3, <5>1 DEF Fail, Release
      <4>2. /\ held = HeldAt[step]
            /\ mode = "client" => i <= hosts /\ step \notin {"pep", "listen"}
            /\ mode = "server" => step # "ep"
        BY <4>1, RungFacts DEF RungInv
      <4>3. /\ list \in Seq(Objects) /\ Ordered(list)
            /\ Elements(list) = IF mode = "client" THEN held \ {"hints"}
                                ELSE held
        BY <3>1, <4>1, <4>2, FailLists
      <4>4. "hints" \in held
        BY <4>1, <4>2, RungFacts
      <4> HIDE DEF list
      <4>5. TypeOK'
        BY <3>1, <4>1, <4>2, <4>3 DEF TypeOK
      <4>6. ReleaseInv'
        <5>1. Ordered(todo)' /\ Elements(todo)' = Elements(list)
          BY <4>1, <4>3 DEF Ordered, Elements
        <5>2. Kept' = IF mode = "client" THEN {"hints"} ELSE {}
          BY <3>1, <4>1 DEF Kept
        <5>3. held' = Kept' \cup Elements(todo)'
              /\ Kept' \cap Elements(todo)' = {}
          BY <3>1, <4>1, <4>3, <4>4, <5>1, <5>2
        <5> QED BY <3>1, <4>1, <5>1, <5>3 DEF ReleaseInv
      <4> QED BY <4>1, <4>5, <4>6, RungFacts DEF StartInv, RungInv, NothingLeaks
    <3> QED BY <2>4, <3>2, <3>3 DEF Ladder
  <2>5. CASE Close
    <3>1. /\ step = "release" /\ Ordered(todo) /\ todo \in Seq(Objects)
          /\ held = Kept \cup Elements(todo) /\ Kept \cap Elements(todo) = {}
          /\ resume = "returned" \/ (resume = "loop" /\ mode = "client")
          /\ UNCHANGED <<mode, lines, hosts, i, resume, status>>
      BY <2>5 DEF Close, ReleaseInv, TypeOK
    <3>2. CASE todo # <<>>
      <4>1. /\ todo' = Tail(todo) /\ held' = held \ {Head(todo)}
            /\ step' = "release"
        BY <2>5, <3>1, <3>2 DEF Close
      <4>2. /\ todo' \in Seq(Objects) /\ Ordered(todo')
            /\ Elements(todo') = Elements(todo) \ {Head(todo)}
            /\ Head(todo) \in Elements(todo)
        BY <3>1, <3>2, <4>1, TailList
      <4>3. held' = Kept \cup Elements(todo')
        BY <3>1, <4>1, <4>2
      <4>4. TypeOK'
        BY <3>1, <4>1, <4>2 DEF TypeOK
      <4>5. ReleaseInv'
        <5>1. Kept' = Kept
          BY <3>1 DEF Kept
        <5>2. Ordered(todo)' /\ Elements(todo)' = Elements(todo')
          BY <4>2 DEF Ordered, Elements
        <5> QED BY <3>1, <4>1, <4>2, <4>3, <5>1, <5>2 DEF ReleaseInv
      <4> QED BY <4>1, <4>4, <4>5, RungFacts DEF StartInv, RungInv, NothingLeaks
    <3>3. CASE todo = <<>>
      <4>1. step' = resume /\ UNCHANGED <<held, todo>>
        BY <2>5, <3>3 DEF Close
      <4>2. held = Kept
        <5>1. Elements(todo) = {}
          <6>1. 1 .. Len(todo) = {}
            BY <3>3
          <6> QED BY <6>1 DEF Elements
        <5> QED BY <3>1, <5>1
      <4>3. TypeOK'
        BY <3>1, <4>1 DEF TypeOK
      <4> QED BY <3>1, <4>1, <4>2, <4>3, RungFacts
              DEF StartInv, RungInv, ReleaseInv, NothingLeaks, Kept
    <3> QED BY <3>2, <3>3
  <2>6. CASE UNCHANGED vars
    BY <2>6 DEF vars, TypeOK, StartInv, RungInv, ReleaseInv, NothingLeaks,
       Kept
  <2> QED BY <2>1, <2>2, <2>3, <2>4, <2>5, <2>6 DEF Next
<1> QED BY <1>1, <1>2

\* Every variable of fullping keeps its type, and PingAll's loop stays within
\* its list.
THEOREM TypeCorrect == Spec => []TypeOK
<1>1. Spec => []LadderInv
  BY LadderInvInductive, PTL DEF Spec
<1>2. LadderInv => TypeOK
  BY DEF LadderInv
<1> QED BY <1>1, <1>2, PTL

\* Whatever rung fails, PingAll goes to each host with nothing open but the
\* hints, and it, or a server that failed, returns with nothing open.
THEOREM EverythingIsReleased == Spec => []NothingLeaks
<1>1. Spec => []LadderInv
  BY LadderInvInductive, PTL DEF Spec
<1>2. LadderInv => NothingLeaks
  BY DEF LadderInv
<1> QED BY <1>1, <1>2, PTL

\* No list closes an object twice, or one that was never opened.
THEOREM ReleasesAreRight == Spec => []ReleasesWhatIsOpen
<1>1. Spec => []LadderInv
  BY LadderInvInductive, PTL DEF Spec
<1>2. LadderInv => ReleasesWhatIsOpen
  BY TailList DEF LadderInv, TypeOK, ReleaseInv, ReleasesWhatIsOpen
<1> QED BY <1>1, <1>2, PTL

\* No step closes an object while one that was opened from it is open.
THEOREM ChildrenCloseFirst == Spec => ChildrenFirst
<1> DEFINE Before == \A o \in DOMAIN OpenedFrom :
                       (OpenedFrom[o] \in held /\ OpenedFrom[o] \notin held')
                         => o \notin held'
<1>1. LadderInv /\ [Next]_vars => [Before]_vars
  <2> SUFFICES ASSUME LadderInv, Next
               PROVE  Before
    OBVIOUS
  <2>1. CASE Main \/ Loop
    BY <2>1 DEF Main, Loop
  <2>2. CASE AllocHints
    BY <2>2 DEF AllocHints, LadderInv, StartInv
  <2>3. CASE Ladder
    <3>1. held \subseteq held'
      BY <2>3, ClimbCases DEF Ladder, Fail
    <3> QED BY <3>1
  <2>4. CASE Close
    <3>1. CASE todo # <<>>
      <4>1. /\ held' = held \ {Head(todo)} /\ step = "release"
            /\ todo \in Seq(Objects) /\ Ordered(todo)
            /\ held = Kept \cup Elements(todo)
        BY <2>4, <3>1 DEF Close, LadderInv, ReleaseInv, TypeOK
      <4>2. /\ Elements(Tail(todo)) = Elements(todo) \ {Head(todo)}
            /\ \A o \in DOMAIN OpenedFrom :
                 OpenedFrom[o] = Head(todo) => o \notin Elements(Tail(todo))
        BY <3>1, <4>1, TailList
      <4>3. \A o \in DOMAIN OpenedFrom : o \notin Kept
        BY DEF OpenedFrom, Kept
      <4> QED BY <4>1, <4>2, <4>3
    <3>2. CASE todo = <<>>
      BY <2>4, <3>2 DEF Close
    <3> QED BY <3>1, <3>2
  <2> QED BY <2>1, <2>2, <2>3, <2>4 DEF Next
<1>2. Spec => []LadderInv
  BY LadderInvInductive, PTL DEF Spec
<1> QED BY <1>1, <1>2, PTL DEF Spec, ChildrenFirst
=============================================================================
