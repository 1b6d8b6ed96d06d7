--------------------------- MODULE AccountsProofs ---------------------------
(***************************************************************************)
(* Theorems about Accounts, for every set of worker threads, phones, names *)
(* and e-mails and every number of attempts.                               *)
(***************************************************************************)
EXTENDS Accounts, FiniteSetTheorems, TLAPS

-----------------------------------------------------------------------------
(* Type correctness *)

\* A worker that has a job is an insert away from an account.
LEMMA JobTyped ==
  ASSUME AccountsTypeOK, NEW w \in Workers, job[w] # NoJob
  PROVE  job[w] \in Job
BY DEF AccountsTypeOK

\* What InsertUser appends.
LEMMA InsertedRow ==
  ASSUME AccountsTypeOK, NEW w \in Workers, job[w] # NoJob,
         NEW rows, rows = Append(accounts, [name |-> job[w].name, email |-> job[w].email])
  PROVE  /\ rows \in Seq(Account)
         /\ Len(rows) = Len(accounts) + 1
         /\ rows[Len(accounts) + 1] = [name |-> job[w].name, email |-> job[w].email]
         /\ \A i \in 1..Len(accounts) : rows[i] = accounts[i]
<1>1. [name |-> job[w].name, email |-> job[w].email] \in Account
  BY JobTyped DEF Job, Account
<1>2. accounts \in Seq(Account)
  BY DEF AccountsTypeOK
<1> QED
  BY <1>1, <1>2

\* Two workers never serve the same phone.
OneServer ==
  \A v, w \in Workers :
    job[v] # NoJob /\ job[w] # NoJob /\ job[v].asker # NoDevice
      /\ job[v].asker = job[w].asker => v = w

At == {"form", "login", "signup", "creating", "in"}

\* What Moves and LogsIn do to the phones.
LEMMA MovesTyped ==
  ASSUME AccountsTypeOK, NEW d \in Devices, NEW at \in At, Moves(d, at)
  PROVE  /\ device' \in [Devices -> Screen]
         /\ device'[d].at = at /\ device'[d].id = device[d].id
         /\ device'[d].name = device[d].name /\ device'[d].email = device[d].email
         /\ \A c \in Devices : c # d => device'[c] = device[c]
<1> DEFINE r == [device[d] EXCEPT !.at = at]
<1>1. device[d] \in Screen /\ device \in [Devices -> Screen]
  BY DEF AccountsTypeOK
<1>2. /\ r \in Screen /\ r.at = at /\ r.id = device[d].id
      /\ r.name = device[d].name /\ r.email = device[d].email
  BY <1>1 DEF Screen, At
<1>3. device' = [device EXCEPT ![d] = r]
  BY DEF Moves
<1> HIDE DEF r
<1> QED
  BY <1>1, <1>2, <1>3

LEMMA LogsInTyped ==
  ASSUME AccountsTypeOK, NEW d \in Devices, NEW id \in Nat, LogsIn(d, id)
  PROVE  /\ device' \in [Devices -> Screen]
         /\ device'[d].at = "in" /\ device'[d].id = id
         /\ device'[d].name = device[d].name /\ device'[d].email = device[d].email
         /\ \A c \in Devices : c # d => device'[c] = device[c]
<1> DEFINE r == [device[d] EXCEPT !.at = "in", !.id = id]
<1>1. device[d] \in Screen /\ device \in [Devices -> Screen]
  BY DEF AccountsTypeOK
<1>2. /\ r \in Screen /\ r.at = "in" /\ r.id = id
      /\ r.name = device[d].name /\ r.email = device[d].email
  BY <1>1 DEF Screen
<1>3. device' = [device EXCEPT ![d] = r]
  BY <1>1 DEF LogsIn
<1> HIDE DEF r
<1> QED
  BY <1>1, <1>2, <1>3

\* What Sends does: the screen of one phone becomes that of the new request.
LEMMA SendsTyped ==
  ASSUME AccountsTypeOK, NEW d \in Devices, NEW at \in At,
         NEW n \in Names, NEW e \in Emails, Sends(d, at, n, e)
  PROVE  /\ device' \in [Devices -> Screen]
         /\ device'[d].at = at
         /\ \A c \in Devices : c # d => device'[c] = device[c]
<1> DEFINE r == [at |-> at, name |-> n, email |-> e, id |-> 0]
<1>1. r \in Screen /\ r.at = at /\ device \in [Devices -> Screen]
  BY DEF AccountsTypeOK, Screen, At
<1>2. device' = [device EXCEPT ![d] = r]
  BY DEF Sends
<1> HIDE DEF r
<1> QED
  BY <1>1, <1>2

\* A phone that waits for no insert, or goes on waiting, disturbs no job.
LEMMA PhoneStep ==
  ASSUME AccountsTypeOK, OneServer, NEW d \in Devices, device[d].at # "creating",
         device' \in [Devices -> Screen],
         \A c \in Devices : c # d => device'[c] = device[c],
         UNCHANGED <<accounts, job>>, taps' \in 0..MaxTaps
  PROVE  AccountsTypeOK' /\ OneServer'
<1>1. OneServer'
  BY DEF OneServer
<1>2. ASSUME NEW w \in Workers, job[w] # NoJob, job[w].asker # NoDevice
      PROVE  /\ device'[job[w].asker].at = "creating"
             /\ job[w].name = device'[job[w].asker].name
             /\ job[w].email = device'[job[w].asker].email
  <2>1. Awaits(job[w].asker, w) /\ job[w].asker \in Devices
    BY <1>2, JobTyped DEF AccountsTypeOK, Job
  <2> QED
    BY <2>1 DEF Awaits
<1> QED
  BY <1>1, <1>2 DEF AccountsTypeOK, Awaits

LEMMA JobDiffers ==
  ASSUME NEW j \in Job PROVE j # NoJob
BY DEF Job, NoJob

LEMMA TypeStep ==
  ASSUME AccountsTypeOK, OneServer, [AccountsNext]_accountVars
  PROVE  AccountsTypeOK' /\ OneServer'
<1> USE NoDeviceAssumption, AccountsAssumption
<1>1. ASSUME NEW d \in Devices, NEW n \in Names, NEW e \in Emails, TapLogin(d, n, e)
      PROVE  AccountsTypeOK' /\ OneServer'
  <2>1. Sends(d, "login", n, e) /\ taps' \in 0..MaxTaps
    BY <1>1 DEF TapLogin, AccountsTypeOK
  <2> QED
    BY <1>1, <2>1, SendsTyped, PhoneStep DEF TapLogin, At
<1>2. ASSUME NEW d \in Devices, Leave(d) PROVE AccountsTypeOK' /\ OneServer'
  <2>1. Moves(d, "form") /\ taps' \in 0..MaxTaps
    BY <1>2 DEF Leave, AccountsTypeOK
  <2> QED
    BY <1>2, <2>1, MovesTyped, PhoneStep DEF Leave, At
<1>3. ASSUME NEW d \in Devices, GiveUp(d) PROVE AccountsTypeOK' /\ OneServer'
  <2>1. ASSUME NEW w \in Workers, job[w] # NoJob
        PROVE  /\ [job[w] EXCEPT !.asker = NoDevice] \in Job
               /\ [job[w] EXCEPT !.asker = NoDevice].asker = NoDevice
               /\ [job[w] EXCEPT !.asker = NoDevice] # NoJob
    BY <2>1, JobTyped, JobDiffers DEF Job
  <2>2. \A w \in Workers :
          /\ job'[w] \in {NoJob} \cup Job
          /\ job'[w] # NoJob /\ job'[w].asker # NoDevice =>
               job'[w] = job[w] /\ job[w].asker # d
    BY <1>3, <2>1, JobTyped DEF GiveUp, AccountsTypeOK
  <2>3. job' \in [Workers -> {NoJob} \cup Job]
    BY <1>3, <2>2 DEF GiveUp
  <2> QED
    BY <1>3, <2>2, <2>3 DEF GiveUp, Moves, AccountsTypeOK, OneServer, Awaits, Screen
<1>4. ASSUME NEW w \in Workers, NEW d \in Devices, VerifyUser(w, d)
      PROVE  AccountsTypeOK' /\ OneServer'
  <2>1. \A i \in Matching(device[d].name, device[d].email) : i \in Nat
    BY DEF Matching, AccountsTypeOK
  <2>2. /\ device' \in [Devices -> Screen]
        /\ \A c \in Devices : c # d => device'[c] = device[c]
    BY <1>4, <2>1, SendsTyped, LogsInTyped DEF VerifyUser, At
  <2> QED
    BY <1>4, <2>2, PhoneStep DEF VerifyUser, AccountsTypeOK
<1>5. ASSUME NEW w \in Workers, NEW d \in Devices, QueryUser(w, d)
      PROVE  AccountsTypeOK' /\ OneServer'
  <2> DEFINE j == [name |-> device[d].name, email |-> device[d].email, asker |-> d]
  <2>1. CASE Taken(device[d].name, device[d].email)
    <3>1. Moves(d, "form")
      BY <1>5, <2>1 DEF QueryUser
    <3> QED
      BY <1>5, <2>1, <3>1, MovesTyped, PhoneStep DEF QueryUser, At, AccountsTypeOK
  <2>2. CASE /\ Moves(d, "creating") /\ job' = [job EXCEPT ![w] = j]
             /\ UNCHANGED <<accounts, taps>>
    <3>1. j \in Job /\ j # NoJob
      <4>1. j \in Job
        BY DEF AccountsTypeOK, Screen, Job
      <4> QED
        BY <4>1, JobDiffers
    <3>2. device[d].at = "signup"
      BY <1>5 DEF QueryUser
    <3>3. \A v \in Workers : job[v] # NoJob => job[v].asker # d
      BY <3>2 DEF AccountsTypeOK, Awaits
    <3>4. /\ job' \in [Workers -> {NoJob} \cup Job]
          /\ job'[w] = j /\ \A v \in Workers \ {w} : job'[v] = job[v]
      BY <2>2, <3>1 DEF AccountsTypeOK
    <3>5. /\ device' \in [Devices -> Screen]
          /\ device'[d].at = "creating" /\ device'[d].name = device[d].name
          /\ device'[d].email = device[d].email
          /\ \A c \in Devices \ {d} : device'[c] = device[c]
      BY <2>2, MovesTyped DEF At
    <3>6. j.asker = d /\ j.name = device[d].name /\ j.email = device[d].email
      OBVIOUS
    <3> HIDE DEF j
    <3>7. OneServer'
      BY <3>3, <3>4, <3>6 DEF OneServer
    <3>8. ASSUME NEW v \in Workers, job'[v] # NoJob, job'[v].asker # NoDevice
          PROVE  Awaits(job[v].asker, v)'
      <4>1. CASE v = w
        BY <3>4, <3>5, <3>6, <4>1 DEF Awaits
      <4>2. CASE v # w
        <5>1. job'[v] = job[v] /\ job[v].asker # d /\ job[v].asker \in Devices
          BY <3>3, <3>4, <3>8, <4>2, JobTyped DEF Job
        <5>2. Awaits(job[v].asker, v)
          BY <3>4, <3>8, <4>2 DEF AccountsTypeOK
        <5> QED
          BY <3>5, <5>1, <5>2 DEF Awaits
      <4> QED
        BY <4>1, <4>2
    <3> QED
      BY <2>2, <3>4, <3>5, <3>7, <3>8 DEF AccountsTypeOK
  <2> QED
    BY <1>5, <2>1, <2>2 DEF QueryUser
<1>6. ASSUME NEW w \in Workers, InsertUser(w) \/ InsertFails(w)
      PROVE  AccountsTypeOK' /\ OneServer'
  <2>1. /\ job[w] # NoJob /\ job' = [job EXCEPT ![w] = NoJob] /\ taps' = taps
    BY <1>6 DEF InsertUser, InsertFails
  <2>2. accounts' \in Seq(Account) /\ Len(accounts') \in Nat
    BY <1>6, InsertedRow DEF InsertUser, InsertFails, AccountsTypeOK
  <2>3. /\ device' \in [Devices -> Screen]
        /\ \A c \in Devices : c # job[w].asker => device'[c] = device[c]
    <3>1. job[w].asker \in Devices \cup {NoDevice}
      BY <2>1, JobTyped DEF Job
    <3>2. CASE job[w].asker = NoDevice
      BY <1>6, <3>2 DEF InsertUser, InsertFails, AccountsTypeOK
    <3>3. CASE job[w].asker # NoDevice
      <4>1. \/ LogsIn(job[w].asker, Len(accounts'))
            \/ Moves(job[w].asker, "form")
        BY <1>6, <3>3 DEF InsertUser, InsertFails
      <4> QED
        BY <2>2, <3>1, <3>3, <4>1, LogsInTyped, MovesTyped DEF At
    <3> QED
      BY <3>2, <3>3
  <2>4. \A v \in Workers : job'[v] # NoJob => v # w /\ job'[v] = job[v]
    BY <2>1 DEF AccountsTypeOK
  <2>5. ASSUME NEW v \in Workers, job'[v] # NoJob, job'[v].asker # NoDevice
        PROVE  Awaits(job[v].asker, v)'
    <3>1. v # w /\ job'[v] = job[v] /\ job[v].asker \in Devices
      BY <2>4, <2>5, JobTyped DEF Job
    <3>2. job[v].asker # job[w].asker
      BY <2>1, <2>4, <2>5, <3>1 DEF OneServer
    <3>3. Awaits(job[v].asker, v)
      BY <2>5, <3>1 DEF AccountsTypeOK
    <3> QED
      BY <2>3, <3>1, <3>2, <3>3 DEF Awaits
  <2>6. OneServer'
    BY <2>4 DEF OneServer
  <2>7. job' \in [Workers -> {NoJob} \cup Job]
    BY <2>1 DEF AccountsTypeOK
  <2> QED
    BY <2>1, <2>2, <2>3, <2>5, <2>6, <2>7 DEF AccountsTypeOK
<1>7. CASE UNCHANGED accountVars
  BY <1>7 DEF accountVars, AccountsTypeOK, OneServer, Awaits
<1> QED
  BY <1>1, <1>2, <1>3, <1>4, <1>5, <1>6, <1>7 DEF AccountsNext

LEMMA TypeInit == AccountsInit => AccountsTypeOK /\ OneServer
BY AccountsAssumption DEF AccountsInit, AccountsTypeOK, OneServer, Screen

\* Every reachable state is well typed, and the phone a worker answers is still
\* waiting for that very sign-up.
THEOREM AccountsTypeCorrect == AccountsSpec => []AccountsTypeOK
BY TypeInit, TypeStep, PTL DEF AccountsSpec

-----------------------------------------------------------------------------
(* How many accounts share a name or an e-mail *)

\* The sets the margin counts are finite.
LEMMA SharersFinite ==
  ASSUME AccountsTypeOK, NEW n, NEW e
  PROVE  /\ IsFiniteSet(Named(n)) /\ IsFiniteSet(Mailed(e))
         /\ IsFiniteSet(InsertingName(n)) /\ IsFiniteSet(InsertingEmail(e))
<1>1. Len(accounts) \in Nat
  BY DEF AccountsTypeOK
<1>2. IsFiniteSet(1..Len(accounts))
  BY <1>1, FS_Interval
<1>3. Named(n) \subseteq 1..Len(accounts) /\ Mailed(e) \subseteq 1..Len(accounts)
  BY DEF Named, Mailed
<1>4. InsertingName(n) \subseteq Workers /\ InsertingEmail(e) \subseteq Workers
  BY DEF InsertingName, InsertingEmail
<1> QED
  BY <1>2, <1>3, <1>4, FS_Subset, AccountsAssumption

\* The whole argument, for any two finite sets of rows and of workers: a step
\* that adds no row and no worker, that adds a worker where there is no row, or
\* that turns a worker into a row keeps the margin.
LEMMA MarginKept ==
  ASSUME NEW R, NEW I, NEW R2, NEW I2, NEW w, NEW r,
         IsFiniteSet(R), IsFiniteSet(I), IsFiniteSet(Workers),
         R2 \subseteq R \cup {r}, I2 \subseteq Workers,
         Cardinality(R) + Cardinality(I) <= Cardinality(Workers),
         \/ R2 \subseteq R /\ I2 \subseteq I
         \/ R2 = {}
         \/ I2 \subseteq I \ {w} /\ w \in I
  PROVE  Cardinality(R2) + Cardinality(I2) <= Cardinality(Workers)
<1>1. /\ IsFiniteSet(R \cup {r}) /\ Cardinality(R \cup {r}) <= Cardinality(R) + 1
      /\ Cardinality(R) \in Nat /\ Cardinality(I) \in Nat /\ Cardinality(Workers) \in Nat
      /\ Cardinality(R \cup {r}) \in Nat
  <2>1. IsFiniteSet(R \cup {r}) /\ Cardinality(R) \in Nat
        /\ Cardinality(I) \in Nat /\ Cardinality(Workers) \in Nat
        /\ Cardinality(R \cup {r}) = IF r \in R THEN Cardinality(R) ELSE Cardinality(R) + 1
    BY FS_AddElement, FS_CardinalityType
  <2>2. Cardinality(R \cup {r}) \in Nat
    BY <2>1
  <2> QED
    BY <2>1, <2>2
<1>2. /\ IsFiniteSet(R2) /\ Cardinality(R2) \in Nat
      /\ IsFiniteSet(I2) /\ Cardinality(I2) \in Nat
  BY <1>1, FS_Subset, FS_CardinalityType
<1>3. CASE R2 \subseteq R /\ I2 \subseteq I
  <2>1. Cardinality(R2) <= Cardinality(R) /\ Cardinality(I2) <= Cardinality(I)
    BY <1>3, FS_Subset
  <2> QED
    BY <1>1, <1>2, <2>1
<1>4. CASE R2 = {}
  <2>1. Cardinality(R2) = 0 /\ Cardinality(I2) <= Cardinality(Workers)
    BY <1>4, FS_EmptySet, FS_Subset
  <2> QED
    BY <1>1, <1>2, <2>1
<1>5. CASE I2 \subseteq I \ {w} /\ w \in I
  <2>1. Cardinality(R2) <= Cardinality(R) + 1
    BY <1>1, <1>2, FS_Subset
  <2>2. IsFiniteSet(I \ {w}) /\ Cardinality(I \ {w}) = Cardinality(I) - 1
    BY <1>5, FS_RemoveElement
  <2>3. Cardinality(I2) <= Cardinality(I) - 1
    BY <1>5, <2>2, FS_Subset
  <2> QED
    BY <1>1, <1>2, <2>1, <2>3
<1> QED
  BY <1>3, <1>4, <1>5

\* What a step does to the rows and the workers of one name and one e-mail.
LEMMA SharersStep ==
  ASSUME AccountsTypeOK, [AccountsNext]_accountVars, NEW n, NEW e
  PROVE  \E w, r :
    /\ Named(n)' \subseteq Named(n) \cup {r}
    /\ Mailed(e)' \subseteq Mailed(e) \cup {r}
    /\ \/ Named(n)' \subseteq Named(n) /\ InsertingName(n)' \subseteq InsertingName(n)
       \/ Named(n)' = {}
       \/ InsertingName(n)' \subseteq InsertingName(n) \ {w} /\ w \in InsertingName(n)
    /\ \/ Mailed(e)' \subseteq Mailed(e) /\ InsertingEmail(e)' \subseteq InsertingEmail(e)
       \/ Mailed(e)' = {}
       \/ InsertingEmail(e)' \subseteq InsertingEmail(e) \ {w} /\ w \in InsertingEmail(e)
<1> USE DEF Named, Mailed, InsertingName, InsertingEmail
<1>1. ASSUME NEW w \in Workers, NEW d \in Devices, QueryUser(w, d)
      PROVE  /\ Named(n)' = Named(n) /\ Mailed(e)' = Mailed(e)
             /\ InsertingName(n)' \subseteq InsertingName(n) \/ Named(n) = {}
             /\ InsertingEmail(e)' \subseteq InsertingEmail(e) \/ Mailed(e) = {}
  BY <1>1 DEF QueryUser, Taken, AccountsTypeOK
<1>2. ASSUME NEW w \in Workers, InsertUser(w)
      PROVE  /\ Named(n)' \subseteq Named(n) \cup {Len(accounts) + 1}
             /\ Mailed(e)' \subseteq Mailed(e) \cup {Len(accounts) + 1}
             /\ \/ Named(n)' \subseteq Named(n) /\ InsertingName(n)' \subseteq InsertingName(n)
                \/ /\ InsertingName(n)' \subseteq InsertingName(n) \ {w}
                   /\ w \in InsertingName(n)
             /\ \/ Mailed(e)' \subseteq Mailed(e) /\ InsertingEmail(e)' \subseteq InsertingEmail(e)
                \/ /\ InsertingEmail(e)' \subseteq InsertingEmail(e) \ {w}
                   /\ w \in InsertingEmail(e)
  <2>1. /\ job[w] # NoJob /\ job' = [job EXCEPT ![w] = NoJob]
        /\ Len(accounts') = Len(accounts) + 1 /\ Len(accounts) \in Nat
        /\ accounts'[Len(accounts) + 1] = [name |-> job[w].name, email |-> job[w].email]
        /\ \A i \in 1..Len(accounts) : accounts'[i] = accounts[i]
    BY <1>2, InsertedRow DEF InsertUser, AccountsTypeOK
  <2>2. /\ InsertingName(n)' \subseteq InsertingName(n) \ {w}
        /\ InsertingEmail(e)' \subseteq InsertingEmail(e) \ {w}
    BY <2>1 DEF AccountsTypeOK
  <2>3. Named(n)' \subseteq Named(n) \cup (IF job[w].name = n THEN {Len(accounts) + 1} ELSE {})
    BY <2>1
  <2>4. Mailed(e)' \subseteq Mailed(e) \cup (IF job[w].email = e THEN {Len(accounts) + 1} ELSE {})
    BY <2>1
  <2> QED
    BY <2>1, <2>2, <2>3, <2>4
<1>3. CASE /\ UNCHANGED accounts
           /\ \A w \in Workers : job'[w] # NoJob =>
                job[w] # NoJob /\ job'[w].name = job[w].name /\ job'[w].email = job[w].email
  BY <1>3
<1>4. ASSUME NEW d \in Devices, GiveUp(d)
      PROVE  \A w \in Workers : job'[w] # NoJob =>
               job[w] # NoJob /\ job'[w].name = job[w].name /\ job'[w].email = job[w].email
  <2> SUFFICES ASSUME NEW w \in Workers, job'[w] # NoJob
               PROVE  /\ job[w] # NoJob
                      /\ job'[w].name = job[w].name /\ job'[w].email = job[w].email
    OBVIOUS
  <2>1. job'[w] = IF job[w] # NoJob /\ job[w].asker = d
                    THEN [job[w] EXCEPT !.asker = NoDevice] ELSE job[w]
    BY <1>4 DEF GiveUp
  <2>2. CASE job[w] # NoJob /\ job[w].asker = d
    <3>1. job[w] \in Job
      BY <2>2, JobTyped
    <3> QED
      BY <2>1, <2>2, <3>1 DEF Job
  <2>3. CASE ~(job[w] # NoJob /\ job[w].asker = d)
    BY <2>1, <2>3
  <2> QED
    BY <2>2, <2>3
<1>5. ASSUME NEW w \in Workers, InsertFails(w)
      PROVE  \A v \in Workers : job'[v] # NoJob => job'[v] = job[v]
  BY <1>5 DEF InsertFails, AccountsTypeOK
<1> QED
  <2>1. CASE \E w \in Workers, d \in Devices : QueryUser(w, d)
    BY <1>1, <2>1
  <2>2. CASE \E w \in Workers : InsertUser(w)
    BY <1>2, <2>2
  <2>3. CASE \/ \E d \in Devices :
                \/ \E m \in Names, f \in Emails : TapLogin(d, m, f)
                \/ Leave(d)
                \/ GiveUp(d)
                \/ \E w \in Workers : VerifyUser(w, d)
             \/ \E w \in Workers : InsertFails(w)
             \/ UNCHANGED accountVars
    <3>1. UNCHANGED accounts
      BY <2>3 DEF TapLogin, Leave, GiveUp, VerifyUser, InsertFails, accountVars
    <3>2. \A w \in Workers : job'[w] # NoJob =>
            job[w] # NoJob /\ job'[w].name = job[w].name /\ job'[w].email = job[w].email
      BY <2>3, <1>4, <1>5 DEF TapLogin, Leave, VerifyUser, InsertFails, accountVars
    <3> QED
      BY <1>3, <3>1, <3>2
  <2> QED
    BY <2>1, <2>2, <2>3 DEF AccountsNext

\* The rows of a name or e-mail and the workers about to add one never exceed
\* the pool of threads.
THEOREM SharersHaveMargin == AccountsSpec => [](AccountsTypeOK /\ SharersMargin)
<1>1. AccountsInit /\ AccountsTypeOK => SharersMargin
  <2> SUFFICES ASSUME AccountsInit, NEW n, NEW e
               PROVE  /\ Cardinality(Named(n)) + Cardinality(InsertingName(n))
                            <= Cardinality(Workers)
                      /\ Cardinality(Mailed(e)) + Cardinality(InsertingEmail(e))
                            <= Cardinality(Workers)
    BY DEF SharersMargin
  <2>1. /\ Named(n) = {} /\ Mailed(e) = {}
        /\ InsertingName(n) = {} /\ InsertingEmail(e) = {}
    BY DEF AccountsInit, Named, Mailed, InsertingName, InsertingEmail
  <2> QED
    BY <2>1, FS_EmptySet, FS_CardinalityType, AccountsAssumption
<1>2. ASSUME AccountsTypeOK, SharersMargin, [AccountsNext]_accountVars
      PROVE  SharersMargin'
  <2>1. ASSUME NEW n \in Names
        PROVE  Cardinality(Named(n)') + Cardinality(InsertingName(n)') <= Cardinality(Workers)
    <3>1. PICK w, r :
            /\ Named(n)' \subseteq Named(n) \cup {r}
            /\ \/ Named(n)' \subseteq Named(n) /\ InsertingName(n)' \subseteq InsertingName(n)
               \/ Named(n)' = {}
               \/ InsertingName(n)' \subseteq InsertingName(n) \ {w} /\ w \in InsertingName(n)
      BY <1>2, SharersStep
    <3>2. InsertingName(n)' \subseteq Workers
      BY DEF InsertingName
    <3>3. Cardinality(Named(n)) + Cardinality(InsertingName(n)) <= Cardinality(Workers)
      BY <1>2 DEF SharersMargin
    <3> QED
      BY <1>2, <3>1, <3>2, <3>3, SharersFinite, AccountsAssumption, MarginKept
  <2>2. ASSUME NEW e \in Emails
        PROVE  Cardinality(Mailed(e)') + Cardinality(InsertingEmail(e)') <= Cardinality(Workers)
    <3>1. PICK w, r :
            /\ Mailed(e)' \subseteq Mailed(e) \cup {r}
            /\ \/ Mailed(e)' \subseteq Mailed(e) /\ InsertingEmail(e)' \subseteq InsertingEmail(e)
               \/ Mailed(e)' = {}
               \/ InsertingEmail(e)' \subseteq InsertingEmail(e) \ {w} /\ w \in InsertingEmail(e)
      BY <1>2, SharersStep
    <3>2. InsertingEmail(e)' \subseteq Workers
      BY DEF InsertingEmail
    <3>3. Cardinality(Mailed(e)) + Cardinality(InsertingEmail(e)) <= Cardinality(Workers)
      BY <1>2 DEF SharersMargin
    <3> QED
      BY <1>2, <3>1, <3>2, <3>3, SharersFinite, AccountsAssumption, MarginKept
  <2> QED
    BY <2>1, <2>2 DEF SharersMargin
<1> QED
  BY <1>1, <1>2, AccountsTypeCorrect, PTL DEF AccountsSpec

\* No name and no e-mail has more accounts than the server has threads.
THEOREM SharersAreBounded == AccountsSpec => []SharersBounded
<1>1. AccountsTypeOK /\ SharersMargin => SharersBounded
  <2> SUFFICES ASSUME AccountsTypeOK, SharersMargin, NEW n, NEW e
               PROVE  /\ n \in Names => Cardinality(Named(n)) <= Cardinality(Workers)
                      /\ e \in Emails => Cardinality(Mailed(e)) <= Cardinality(Workers)
    BY DEF SharersBounded
  <2>1. /\ Cardinality(Named(n)) \in Nat /\ Cardinality(InsertingName(n)) \in Nat
        /\ Cardinality(Mailed(e)) \in Nat /\ Cardinality(InsertingEmail(e)) \in Nat
        /\ Cardinality(Workers) \in Nat
    BY SharersFinite, FS_CardinalityType, AccountsAssumption
  <2> QED
    BY <2>1 DEF SharersMargin
<1> QED
  BY <1>1, SharersHaveMargin, PTL

-----------------------------------------------------------------------------
(* Identities *)

LEMMA IdentityStep ==
  ASSUME AccountsTypeOK, AccountsTypeOK', IdentityMatches, [AccountsNext]_accountVars
  PROVE  IdentityMatches'
<1> SUFFICES ASSUME NEW c \in Devices, (device[c].at = "in")'
             PROVE  /\ device'[c].id \in 1..Len(accounts')
                    /\ accounts'[device'[c].id]
                         = [name |-> device'[c].name, email |-> device'[c].email]
  BY DEF IdentityMatches
<1>1. /\ Len(accounts) \in Nat /\ Len(accounts') \in Nat
      /\ Len(accounts') >= Len(accounts)
      /\ \A i \in 1..Len(accounts) : accounts'[i] = accounts[i]
  <2>1. CASE UNCHANGED accounts
    BY <2>1 DEF AccountsTypeOK
  <2>2. CASE \E w \in Workers : InsertUser(w)
    BY <2>2, InsertedRow DEF InsertUser, AccountsTypeOK
  <2> QED
    BY <2>1, <2>2 DEF AccountsNext, TapLogin, Leave, GiveUp, VerifyUser, QueryUser,
                      InsertFails, accountVars
<1>2. CASE device'[c] = device[c]
  BY <1>1, <1>2 DEF IdentityMatches
<1>3. ASSUME NEW d \in Devices, NEW w \in Workers, VerifyUser(w, d), device'[c] # device[c]
      PROVE  /\ device'[c].id \in 1..Len(accounts')
             /\ accounts'[device'[c].id]
                  = [name |-> device'[c].name, email |-> device'[c].email]
  <2>1. CASE \E n \in Names, e \in Emails : Sends(d, "signup", n, e)
    BY <1>3, <2>1, SendsTyped DEF At
  <2>2. ASSUME NEW i \in Matching(device[d].name, device[d].email), LogsIn(d, i)
        PROVE  /\ device'[c].id \in 1..Len(accounts')
               /\ accounts'[device'[c].id]
                    = [name |-> device'[c].name, email |-> device'[c].email]
    <3>1. i \in 1..Len(accounts) /\ i \in Nat
          /\ accounts[i].name = device[d].name /\ accounts[i].email = device[d].email
      BY <1>1 DEF Matching
    <3>2. c = d /\ device'[c].id = i /\ device'[c].name = device[d].name
          /\ device'[c].email = device[d].email
      BY <1>3, <2>2, <3>1, LogsInTyped
    <3>3. accounts[i] \in Account /\ accounts' = accounts
      BY <1>3, <3>1 DEF AccountsTypeOK, VerifyUser
    <3>4. accounts[i] = [name |-> accounts[i].name, email |-> accounts[i].email]
      BY <3>3 DEF Account
    <3> QED
      BY <3>1, <3>2, <3>3, <3>4
  <2> QED
    BY <1>3, <2>1, <2>2 DEF VerifyUser
<1>4. ASSUME NEW w \in Workers, InsertUser(w), device'[c] # device[c]
      PROVE  /\ device'[c].id \in 1..Len(accounts')
             /\ accounts'[device'[c].id]
                  = [name |-> device'[c].name, email |-> device'[c].email]
  <2>1. /\ job[w] # NoJob /\ job[w].asker # NoDevice
        /\ LogsIn(job[w].asker, Len(accounts'))
    BY <1>4 DEF InsertUser
  <2>2. /\ job[w].asker \in Devices /\ Awaits(job[w].asker, w)
    BY <2>1, JobTyped DEF Job, AccountsTypeOK
  <2>3. /\ Len(accounts') = Len(accounts) + 1
        /\ accounts'[Len(accounts) + 1] = [name |-> job[w].name, email |-> job[w].email]
    BY <1>4, <2>1, InsertedRow DEF InsertUser
  <2>4. /\ c = job[w].asker /\ device'[c].id = Len(accounts')
        /\ device'[c].name = device[c].name /\ device'[c].email = device[c].email
    BY <1>1, <1>4, <2>1, <2>2, LogsInTyped
  <2> QED
    BY <1>1, <2>2, <2>3, <2>4 DEF Awaits
<1>5. ASSUME \E d \in Devices :
               \/ Moves(d, "form") \/ Moves(d, "creating")
               \/ \E n \in Names, e \in Emails : Sends(d, "login", n, e)
      PROVE  device'[c] = device[c]
  <2>1. CASE \E d \in Devices : Moves(d, "form") \/ Moves(d, "creating")
    BY <2>1, MovesTyped DEF At
  <2>2. CASE \E d \in Devices, n \in Names, e \in Emails : Sends(d, "login", n, e)
    BY <2>2, SendsTyped DEF At
  <2> QED
    BY <1>5, <2>1, <2>2
<1>6. ASSUME NEW w \in Workers, InsertFails(w) PROVE device'[c] = device[c]
  <2>1. job[w].asker \in Devices \cup {NoDevice}
    BY <1>6, JobTyped DEF Job, InsertFails
  <2> QED
    BY <1>5, <1>6, <2>1 DEF InsertFails
<1>7. ASSUME NEW w \in Workers, NEW d \in Devices, QueryUser(w, d)
      PROVE  device'[c] = device[c]
  BY <1>5, <1>7 DEF QueryUser
<1> QED
  BY <1>2, <1>3, <1>4, <1>5, <1>6, <1>7
     DEF AccountsNext, TapLogin, Leave, GiveUp, accountVars

\* A phone that is logged in acts for an account with the name and the e-mail of
\* the request it sent last, whatever was edited, given up or sent again.
THEOREM IdentitiesMatch == AccountsSpec => []IdentityMatches
<1>1. AccountsInit => IdentityMatches
  BY DEF AccountsInit, IdentityMatches
<1> QED
  BY <1>1, IdentityStep, AccountsTypeCorrect, PTL DEF AccountsSpec

\* The accounts of the phones that are logged in with name n.
ActsFor(n) == {device[d].id : d \in {c \in Devices : /\ device[c].at = "in"
                                                      /\ device[c].name = n}}

\* Phones that are logged in with one name act for no more different accounts
\* than the server has threads: one would be OneIdentity.
THEOREM IdentitiesBounded ==
  AccountsSpec => [](\A n \in Names : Cardinality(ActsFor(n)) <= Cardinality(Workers))
<1>1. AccountsTypeOK /\ SharersBounded /\ IdentityMatches =>
        \A n \in Names : Cardinality(ActsFor(n)) <= Cardinality(Workers)
  <2> SUFFICES ASSUME AccountsTypeOK, SharersBounded, IdentityMatches, NEW n \in Names
               PROVE  Cardinality(ActsFor(n)) <= Cardinality(Workers)
    OBVIOUS
  <2>1. ActsFor(n) \subseteq Named(n)
    <3> SUFFICES ASSUME NEW d \in Devices, device[d].at = "in", device[d].name = n
                 PROVE  device[d].id \in Named(n)
      BY DEF ActsFor
    <3>1. /\ device[d].id \in 1..Len(accounts)
          /\ accounts[device[d].id] = [name |-> device[d].name, email |-> device[d].email]
      BY DEF IdentityMatches
    <3>2. accounts[device[d].id].name = n
      BY <3>1
    <3> QED
      BY <3>1, <3>2 DEF Named
  <2>2. IsFiniteSet(Named(n)) /\ Cardinality(Named(n)) <= Cardinality(Workers)
    BY SharersFinite DEF SharersBounded
  <2>3. IsFiniteSet(ActsFor(n)) /\ Cardinality(ActsFor(n)) <= Cardinality(Named(n))
    BY <2>1, <2>2, FS_Subset
  <2>4. /\ Cardinality(ActsFor(n)) \in Nat /\ Cardinality(Named(n)) \in Nat
        /\ Cardinality(Workers) \in Nat
    BY <2>2, <2>3, FS_CardinalityType, AccountsAssumption
  <2> QED
    BY <2>2, <2>3, <2>4
<1> QED
  BY <1>1, AccountsTypeCorrect, SharersAreBounded, IdentitiesMatch, PTL
=============================================================================
