---------------------------- MODULE RadioProofs ----------------------------
(***************************************************************************)
(* A set-up of the radio that succeeds is one the module has accepted, and *)
(* plain replies in time make it succeed, for any commands and any length  *)
(* of response[].                                                          *)
(***************************************************************************)
EXTENDS RadioInv, SequenceTheorems, TLAPS

LEMMA Constants ==
  /\ Commands \in Seq(STRING) /\ Len(Commands) \in Nat
  /\ BeginCommands \in 1 .. Len(Commands) - 1
  /\ BufSize \in Nat \ {0, 1} /\ MaxSent \in Nat
  BY RadioAssumption

Chars == {"OK", "ERROR", "CR", "LF"}

-----------------------------------------------------------------------------
(* The characters of replies                                               *)

LEMMA Replies ==
  /\ Accepting \cup Unplain \cup Refusing \subseteq Seq(Chars)
  /\ \A r \in Accepting \cup Unplain : OneOk(r)
  /\ \A r \in Refusing : NoOk(r)
<1> USE DEF Chars, OneOk, NoOk
<1>1. <<"OK", "CR">> \in Seq(Chars) /\ OneOk(<<"OK", "CR">>)
  OBVIOUS
<1>2. <<"OK", "CR", "LF">> \in Seq(Chars) /\ OneOk(<<"OK", "CR", "LF">>)
  OBVIOUS
<1>3. /\ <<"CR", "LF", "OK", "CR", "LF">> \in Seq(Chars)
      /\ OneOk(<<"CR", "LF", "OK", "CR", "LF">>)
  OBVIOUS
<1>4. << >> \in Seq(Chars) /\ OneOk(<< >>) /\ NoOk(<< >>)
  OBVIOUS
<1>5. <<"ERROR", "CR", "LF">> \in Seq(Chars) /\ NoOk(<<"ERROR", "CR", "LF">>)
  OBVIOUS
<1> HIDE DEF Chars, OneOk, NoOk
<1> QED
  BY <1>1, <1>2, <1>3, <1>4, <1>5 DEF Accepting, Unplain, Refusing

LEMMA NoOkConcat ==
  ASSUME NEW s \in Seq(Chars), NEW t \in Seq(Chars)
  PROVE  NoOk(s \o t) <=> NoOk(s) /\ NoOk(t)
<1>1. /\ DOMAIN s = 1 .. Len(s) /\ DOMAIN t = 1 .. Len(t) /\ Len(s) \in Nat /\ Len(t) \in Nat
      /\ DOMAIN (s \o t) = 1 .. Len(s) + Len(t)
      /\ \A k \in 1 .. Len(s) + Len(t) :
           (s \o t)[k] = IF k <= Len(s) THEN s[k] ELSE t[k - Len(s)]
  OBVIOUS
<1>2. ASSUME NoOk(s \o t) PROVE NoOk(s) /\ NoOk(t)
  <2>1. ASSUME NEW k \in 1 .. Len(s) PROVE s[k] # "OK"
    <3>1. k \in 1 .. Len(s) + Len(t) /\ k <= Len(s)
      BY <1>1
    <3> QED
      BY <1>1, <1>2, <3>1 DEF NoOk
  <2>2. ASSUME NEW k \in 1 .. Len(t) PROVE t[k] # "OK"
    <3>1. PICK j \in 1 .. Len(s) + Len(t) : j = k + Len(s) /\ ~(j <= Len(s)) /\ j - Len(s) = k
      BY <1>1
    <3> QED
      BY <1>1, <1>2, <3>1 DEF NoOk
  <2> QED
    BY <1>1, <2>1, <2>2 DEF NoOk
<1>3. ASSUME NoOk(s), NoOk(t), NEW k \in 1 .. Len(s) + Len(t)
      PROVE  (s \o t)[k] # "OK"
  <2>1. CASE k <= Len(s)
    <3>1. k \in 1 .. Len(s)
      BY <1>1, <2>1
    <3> QED
      BY <1>1, <1>3, <2>1, <3>1 DEF NoOk
  <2>2. CASE ~(k <= Len(s))
    <3>1. PICK j \in 1 .. Len(t) : j = k - Len(s)
      BY <1>1, <2>2
    <3> QED
      BY <1>1, <1>3, <2>2, <3>1 DEF NoOk
  <2> QED
    BY <2>1, <2>2
<1> QED
  BY <1>1, <1>2, <1>3 DEF NoOk

LEMMA OneOkConcat ==
  ASSUME NEW s \in Seq(Chars), NEW t \in Seq(Chars), NoOk(s), OneOk(t)
  PROVE  OneOk(s \o t)
<1>1. /\ DOMAIN s = 1 .. Len(s) /\ DOMAIN t = 1 .. Len(t) /\ Len(s) \in Nat /\ Len(t) \in Nat
      /\ DOMAIN (s \o t) = 1 .. Len(s) + Len(t)
      /\ \A k \in 1 .. Len(s) + Len(t) :
           (s \o t)[k] = IF k <= Len(s) THEN s[k] ELSE t[k - Len(s)]
  OBVIOUS
<1>2. ASSUME NEW k \in 1 .. Len(s) + Len(t), (s \o t)[k] = "OK"
      PROVE  k - Len(s) \in 1 .. Len(t) /\ t[k - Len(s)] = "OK"
  <2>1. ~(k <= Len(s))
    <3>1. k <= Len(s) => k \in 1 .. Len(s)
      BY <1>1
    <3> QED
      BY <1>1, <1>2, <3>1 DEF NoOk
  <2>2. k - Len(s) \in 1 .. Len(t)
    BY <1>1, <2>1
  <2> QED
    BY <1>1, <1>2, <2>1, <2>2
<1>3. ASSUME NEW j \in 1 .. Len(s) + Len(t), NEW k \in 1 .. Len(s) + Len(t),
             (s \o t)[j] = "OK", (s \o t)[k] = "OK"
      PROVE  j = k
  <2>1. j - Len(s) = k - Len(s)
    BY <1>1, <1>2, <1>3 DEF OneOk
  <2> QED
    BY <1>1, <2>1
<1> QED
  BY <1>1, <1>3 DEF OneOk

(* Reading an OK takes away the only one.                                  *)
LEMMA OkTail ==
  ASSUME NEW s \in Seq(Chars), s # <<>>
  PROVE  /\ NoOk(s) => NoOk(Tail(s)) /\ Head(s) # "OK"
         /\ OneOk(s) => OneOk(Tail(s))
         /\ OneOk(s) /\ Head(s) = "OK" => NoOk(Tail(s))
<1>1. /\ Len(s) \in Nat \ {0} /\ DOMAIN s = 1 .. Len(s) /\ 1 \in 1 .. Len(s)
      /\ Head(s) = s[1] /\ Tail(s) \in Seq(Chars)
      /\ DOMAIN Tail(s) = 1 .. Len(s) - 1
      /\ \A k \in 1 .. Len(s) - 1 : k + 1 \in 1 .. Len(s) /\ Tail(s)[k] = s[k + 1]
  OBVIOUS
<1>2. NoOk(s) => NoOk(Tail(s)) /\ Head(s) # "OK"
  BY <1>1 DEF NoOk
<1>3. ASSUME OneOk(s) PROVE OneOk(Tail(s))
  <2>1. ASSUME NEW j \in 1 .. Len(s) - 1, NEW k \in 1 .. Len(s) - 1,
               Tail(s)[j] = "OK", Tail(s)[k] = "OK"
        PROVE  j = k
    <3>1. j + 1 = k + 1
      BY <1>1, <1>3, <2>1 DEF OneOk
    <3> QED
      BY <3>1
  <2> QED
    BY <1>1, <2>1 DEF OneOk
<1>4. ASSUME OneOk(s), Head(s) = "OK" PROVE NoOk(Tail(s))
  <2>1. ASSUME NEW k \in 1 .. Len(s) - 1, Tail(s)[k] = "OK" PROVE FALSE
    <3>1. k + 1 = 1
      BY <1>1, <1>4, <2>1 DEF OneOk
    <3> QED
      BY <3>1
  <2> QED
    BY <1>1, <2>1 DEF NoOk
<1> QED
  BY <1>2, <1>3, <1>4

(* What is still to come is the same, wherever in between a character is,  *)
(* and the characters are read in turn.                                    *)
LEMMA InTurn ==
  ASSUME NEW s \in Seq(Chars), NEW t \in Seq(Chars)
  PROVE  /\ s # <<>> => Tail(s) \o t = Tail(s \o t) /\ Head(s) = Head(s \o t) /\ s \o t # <<>>
         /\ t # <<>> => Append(s, Head(t)) \o Tail(t) = s \o t
         /\ s # <<>> => Head(s) \in Chars /\ Tail(s) \in Seq(Chars)
         /\ s \o <<>> = s /\ <<>> \o s = s
         /\ s \o t \in Seq(Chars)
<1>1. /\ s \o t \in Seq(Chars) /\ Len(s \o t) = Len(s) + Len(t)
      /\ Len(s) \in Nat /\ Len(t) \in Nat
      /\ \A k \in 1 .. Len(s) + Len(t) :
           (s \o t)[k] = IF k <= Len(s) THEN s[k] ELSE t[k - Len(s)]
  OBVIOUS
<1>2. s \o <<>> = s /\ <<>> \o s = s
  BY ConcatEmptySeq
<1>3. s # <<>> => Head(s) \in Chars /\ Tail(s) \in Seq(Chars)
  OBVIOUS
<1>4. ASSUME s # <<>>
      PROVE  Tail(s) \o t = Tail(s \o t) /\ Head(s) = Head(s \o t) /\ s \o t # <<>>
  <2>1. Len(s) \in Nat \ {0} /\ Len(s \o t) > 0 /\ s \o t # <<>>
    BY <1>1, <1>4, EmptySeq
  <2>2. Head(s) = s[1] /\ Head(s \o t) = (s \o t)[1] /\ 1 <= Len(s)
    BY <1>1, <2>1
  <2>3. (s \o t)[1] = s[1]
    <3>1. 1 \in 1 .. Len(s) + Len(t)
      BY <1>1, <2>1
    <3> QED
      BY <1>1, <2>2, <3>1
  <2> DEFINE a == Tail(s) \o t
             b == Tail(s \o t)
  <2>4. /\ a \in Seq(Chars) /\ Len(a) = Len(s) - 1 + Len(t)
        /\ \A k \in 1 .. Len(s) - 1 + Len(t) :
             a[k] = IF k <= Len(s) - 1 THEN Tail(s)[k] ELSE t[k - (Len(s) - 1)]
    <3>1. Tail(s) \in Seq(Chars) /\ Len(Tail(s)) = Len(s) - 1
      BY <1>4
    <3> QED
      BY <1>1, <3>1
  <2>5. \A k \in 1 .. Len(s) - 1 : Tail(s)[k] = s[k + 1]
    BY <1>4
  <2>6. /\ b \in Seq(Chars) /\ Len(b) = Len(s) + Len(t) - 1
        /\ \A k \in 1 .. Len(s) + Len(t) - 1 : b[k] = (s \o t)[k + 1]
    <3> DEFINE u == s \o t
    <3>1. u \in Seq(Chars) /\ u # <<>> /\ Len(u) = Len(s) + Len(t)
      BY <1>1, <2>1
    <3> HIDE DEF u
    <3>2. /\ Tail(u) \in Seq(Chars) /\ Len(Tail(u)) = Len(u) - 1
          /\ \A k \in 1 .. Len(u) - 1 : Tail(u)[k] = u[k + 1]
      BY <3>1
    <3> QED
      BY <3>1, <3>2 DEF u
  <2> HIDE DEF a, b
  <2>7. ASSUME NEW k \in 1 .. Len(s) - 1 + Len(t) PROVE a[k] = b[k]
    <3>1. PICK j \in 1 .. Len(s) + Len(t) : j = k + 1
      BY <1>1
    <3>2. b[k] = IF j <= Len(s) THEN s[j] ELSE t[j - Len(s)]
      BY <1>1, <2>6, <3>1
    <3>3. CASE k <= Len(s) - 1
      <4>1. k \in 1 .. Len(s) - 1 /\ j <= Len(s)
        BY <1>1, <3>1, <3>3
      <4> QED
        BY <2>4, <2>5, <3>1, <3>2, <3>3, <4>1
    <3>4. CASE ~(k <= Len(s) - 1)
      <4>1. ~(j <= Len(s)) /\ j - Len(s) = k - (Len(s) - 1)
        BY <1>1, <3>1, <3>4
      <4> QED
        BY <2>4, <3>2, <3>4, <4>1
    <3> QED
      BY <3>3, <3>4
  <2>8. a = b
    BY <1>1, <2>4, <2>6, <2>7, SeqEqual
  <2> QED
    BY <2>1, <2>2, <2>3, <2>8 DEF a, b
<1>5. ASSUME t # <<>>
      PROVE  Append(s, Head(t)) \o Tail(t) = s \o t
  <2> DEFINE a == Append(s, Head(t)) \o Tail(t)
             b == s \o t
  <2>1. /\ Len(t) \in Nat \ {0} /\ Head(t) = t[1] /\ Head(t) \in Chars
        /\ Tail(t) \in Seq(Chars) /\ Len(Tail(t)) = Len(t) - 1
        /\ \A k \in 1 .. Len(t) - 1 : Tail(t)[k] = t[k + 1]
    BY <1>5
  <2>2. /\ Append(s, Head(t)) \in Seq(Chars) /\ Len(Append(s, Head(t))) = Len(s) + 1
        /\ \A k \in 1 .. Len(s) + 1 : Append(s, Head(t))[k] = IF k <= Len(s) THEN s[k] ELSE t[1]
    BY <2>1
  <2>3. /\ a \in Seq(Chars) /\ Len(a) = Len(s) + Len(t)
        /\ \A k \in 1 .. Len(s) + Len(t) :
             a[k] = IF k <= Len(s) + 1 THEN Append(s, Head(t))[k] ELSE Tail(t)[k - (Len(s) + 1)]
    <3> DEFINE u == Append(s, Head(t))
               v == Tail(t)
    <3>1. /\ u \in Seq(Chars) /\ v \in Seq(Chars)
          /\ Len(u) = Len(s) + 1 /\ Len(v) = Len(t) - 1
      BY <2>1, <2>2
    <3> HIDE DEF u, v
    <3>2. /\ u \o v \in Seq(Chars) /\ Len(u \o v) = Len(u) + Len(v)
          /\ \A k \in 1 .. Len(u) + Len(v) :
               (u \o v)[k] = IF k <= Len(u) THEN u[k] ELSE v[k - Len(u)]
      BY <3>1
    <3>3. Len(u) + Len(v) = Len(s) + Len(t)
      BY <1>1, <2>1, <3>1
    <3> QED
      BY <3>1, <3>2, <3>3 DEF u, v
  <2> HIDE DEF a
  <2>4. ASSUME NEW k \in 1 .. Len(s) + Len(t) PROVE a[k] = b[k]
    <3>1. b[k] = IF k <= Len(s) THEN s[k] ELSE t[k - Len(s)]
      BY <1>1
    <3>2. CASE k <= Len(s)
      <4>1. k \in 1 .. Len(s) + 1 /\ k <= Len(s) + 1
        BY <1>1, <3>2
      <4> QED
        BY <2>2, <2>3, <3>1, <3>2, <4>1
    <3>3. CASE k = Len(s) + 1
      <4>1. k \in 1 .. Len(s) + 1 /\ k <= Len(s) + 1 /\ ~(k <= Len(s)) /\ k - Len(s) = 1
        BY <1>1, <3>3
      <4> QED
        BY <2>2, <2>3, <3>1, <4>1
    <3>4. CASE k > Len(s) + 1
      <4> DEFINE j == k - (Len(s) + 1)
      <4>1. j \in 1 .. Len(t) - 1 /\ j + 1 = k - Len(s)
        <5>1. Len(s) \in Nat /\ Len(t) \in Nat /\ k \in Nat /\ k <= Len(s) + Len(t)
          BY <1>1
        <5> QED
          BY <3>4, <5>1
      <4>2. ~(k <= Len(s) + 1) /\ ~(k <= Len(s))
        BY <1>1, <3>4
      <4> QED
        BY <2>1, <2>3, <3>1, <4>1, <4>2 DEF j
    <3>5. k <= Len(s) \/ k = Len(s) + 1 \/ k > Len(s) + 1
      BY <1>1
    <3> QED
      BY <3>2, <3>3, <3>4, <3>5
  <2> HIDE DEF b
  <2>5. b \in Seq(Chars) /\ Len(b) = Len(s) + Len(t)
    BY <1>1 DEF b
  <2>6. a = b
    BY <2>3, <2>4, <2>5, SeqEqual
  <2> QED
    BY <2>6 DEF a, b
<1> QED
  BY <1>1, <1>2, <1>3, <1>4, <1>5

-----------------------------------------------------------------------------
LEMMA InitInv == Init => IInv
<1> SUFFICES ASSUME Init PROVE IInv
  OBVIOUS
<1> USE Constants DEF Init
<1>1. TypeOK
  <2>1. n \in 1 .. Len(Commands) /\ index \in 0 .. BufSize /\ onAir \in 0 .. MaxSent
    OBVIOUS
  <2>2. accepted \subseteq {Commands[k] : k \in DOMAIN Commands}
    OBVIOUS
  <2>3. /\ input \in Seq({"OK", "ERROR", "CR", "LF"})
        /\ wire \in Seq({"OK", "ERROR", "CR", "LF"})
    OBVIOUS
  <2>4. config_pin_ \in {LOW, HIGH} /\ seen \subseteq {"OK", "ERROR"}
    OBVIOUS
  <2>5. /\ pc = "flush" /\ stat \in BOOLEAN /\ is_ok_ \in BOOLEAN /\ allow \in BOOLEAN
        /\ late \in BOOLEAN /\ refused \in BOOLEAN
    OBVIOUS
  <2> QED
    BY <2>1, <2>2, <2>3, <2>4, <2>5 DEF TypeOK
<1>2. EachAccepted
  BY DEF EachAccepted, AcceptedTo
<1>3. OkIsOfThis
  BY DEF OkIsOfThis, NoOk, Coming
<1>4. Listens /\ InTime
  BY DEF Listens, InTime, SettingUp
<1> QED
  BY <1>1, <1>2, <1>3, <1>4 DEF IInv

LEMMA ComingType ==
  ASSUME IInv
  PROVE  input \in Seq(Chars) /\ wire \in Seq(Chars) /\ Coming \in Seq(Chars)
<1>1. input \in Seq(Chars) /\ wire \in Seq(Chars)
  BY DEF IInv, TypeOK, Chars
<1> QED
  BY <1>1, InTurn DEF Coming

(* What an old reply has left is dropped with the input.                   *)
LEMMA FlushStep ==
  ASSUME IInv, Flush
  PROVE  IInv'
<1>1. /\ pc = "flush" /\ pc' = "send" /\ input' = <<>> /\ wire' = wire
      /\ n' = n /\ index' = index /\ seen' = seen /\ stat' = stat
      /\ is_ok_' = is_ok_ /\ config_pin_' = config_pin_ /\ allow' = allow
      /\ accepted' = accepted /\ onAir' = onAir /\ late' = late /\ refused' = refused
  BY DEF Flush, Emptied, moduleVars
<1>2. TypeOK'
  BY <1>1 DEF IInv, TypeOK
<1>3. EachAccepted' /\ Listens' /\ InTime'
  BY <1>1 DEF IInv, EachAccepted, Listens, InTime, AcceptedTo, SettingUp
<1>4. OkIsOfThis'
  <2>1. Coming' = wire
    BY <1>1, ComingType, InTurn DEF Coming
  <2>2. stat => NoOk(wire)
    BY <1>1, ComingType, NoOkConcat DEF IInv, OkIsOfThis, Coming
  <2> QED
    BY <1>1, <2>1, <2>2 DEF OkIsOfThis
<1> QED
  BY <1>1, <1>2, <1>3, <1>4 DEF IInv

(* A command goes to the module, and its reply is under way.               *)
LEMMA TakeStep ==
  ASSUME IInv, Send, NEW r \in Accepting \cup Unplain \cup Refusing, NEW accepts \in BOOLEAN,
         accepts => r \in Accepting \cup Unplain, ~accepts => r \in Refusing,
         Take(Commands[n], accepts, r)
  PROVE  IInv'
<1>1. /\ pc = "send" /\ pc' = "delay" /\ index' = 0 /\ seen' = {}
      /\ n' = n /\ stat' = stat /\ is_ok_' = is_ok_ /\ config_pin_' = config_pin_
      /\ allow' = allow /\ input' = input /\ late' = late /\ onAir' = onAir
      /\ wire' = wire \o r
      /\ accepted' = IF accepts THEN accepted \cup {Commands[n]} ELSE accepted
      /\ refused' = (refused \/ r \notin Accepting)
  BY DEF Send, Take
<1>2. /\ r \in Seq(Chars) /\ (accepts => OneOk(r)) /\ (~accepts => NoOk(r))
      /\ input \in Seq(Chars) /\ wire \in Seq(Chars) /\ Coming \in Seq(Chars)
  BY Replies, ComingType
<1>3. Coming' = Coming \o r
  BY <1>1, <1>2, ConcatAssociative DEF Coming
<1>4. TypeOK'
  <2>1. wire' \in Seq(Chars)
    BY <1>1, <1>2, InTurn
  <2>2. Commands[n] \in {Commands[k] : k \in DOMAIN Commands}
    BY Constants DEF IInv, TypeOK
  <2>3. accepted' \subseteq {Commands[k] : k \in DOMAIN Commands}
    BY <1>1, <2>2 DEF IInv, TypeOK
  <2>4. index' \in 0 .. BufSize /\ refused' \in BOOLEAN
    BY <1>1, Constants DEF IInv, TypeOK
  <2> QED
    BY <1>1, <2>1, <2>3, <2>4 DEF IInv, TypeOK, Chars
<1>5. EachAccepted'
  <2>1. accepted \subseteq accepted'
    BY <1>1
  <2> QED
    BY <1>1, <2>1 DEF IInv, EachAccepted, AcceptedTo, SettingUp
<1>6. OkIsOfThis'
  <2> SUFFICES ASSUME stat
               PROVE  \/ NoOk(Coming \o r)
                      \/ OneOk(Coming \o r) /\ Commands[n] \in accepted'
    BY <1>1, <1>3 DEF OkIsOfThis
  <2>1. NoOk(Coming)
    BY <1>1 DEF IInv, OkIsOfThis
  <2>2. CASE accepts
    BY <1>1, <1>2, <2>1, <2>2, OneOkConcat
  <2>3. CASE ~accepts
    BY <1>2, <2>1, <2>3, NoOkConcat
  <2> QED
    BY <2>2, <2>3
<1>7. Listens'
  BY <1>1 DEF IInv, Listens, SettingUp
<1>8. InTime'
  <2> SUFFICES ASSUME ~late, ~refused, r \in Accepting
               PROVE  stat /\ Coming \o r \in Accepting
    BY <1>1, <1>3 DEF InTime
  <2>1. stat /\ input = <<>> /\ wire = <<>>
    BY <1>1 DEF IInv, InTime
  <2>2. Coming = <<>>
    BY <1>2, <2>1, InTurn DEF Coming
  <2> QED
    BY <1>2, <2>1, <2>2, InTurn
<1> QED
  BY <1>1, <1>4, <1>5, <1>6, <1>7, <1>8 DEF IInv

LEMMA SendStep ==
  ASSUME IInv, Send
  PROVE  IInv'
<1>1. CASE \E r \in Accepting \cup Unplain : Take(Commands[n], TRUE, r)
  <2>1. PICK r \in Accepting \cup Unplain : Take(Commands[n], TRUE, r)
    BY <1>1
  <2> QED
    BY <2>1, TakeStep
<1>2. CASE \E r \in Refusing : Take(Commands[n], FALSE, r)
  <2>1. PICK r \in Refusing : Take(Commands[n], FALSE, r)
    BY <1>2
  <2> QED
    BY <2>1, TakeStep
<1>3. config_pin_ # HIGH
  BY DEF Send, IInv, Listens, SettingUp, LOW, HIGH
<1> QED
  BY <1>1, <1>2, <1>3 DEF Send

LEMMA DelayStep ==
  ASSUME IInv, Delay
  PROVE  IInv'
<1>1. /\ pc = "delay" /\ pc' = "read" /\ late' = (late \/ wire # <<>>)
      /\ n' = n /\ index' = index /\ seen' = seen /\ stat' = stat
      /\ is_ok_' = is_ok_ /\ config_pin_' = config_pin_ /\ allow' = allow
      /\ input' = input /\ wire' = wire
      /\ accepted' = accepted /\ onAir' = onAir /\ refused' = refused
  BY DEF Delay, moduleVars
<1>2. index = 0 /\ seen = {}
  BY <1>1 DEF IInv
<1>3. TypeOK'
  BY <1>1 DEF IInv, TypeOK
<1>4. EachAccepted' /\ OkIsOfThis'
  BY <1>1 DEF IInv, EachAccepted, OkIsOfThis, Coming, AcceptedTo, SettingUp
<1>5. Listens'
  BY <1>1, <1>2, Constants DEF IInv, Listens, SettingUp
<1>6. InTime'
  <2> SUFFICES ASSUME ~late, wire = <<>>, ~refused
               PROVE  stat /\ input \in Accepting
    BY <1>1, <1>2 DEF InTime
  <2>1. stat /\ Coming \in Accepting
    BY <1>1 DEF IInv, InTime
  <2> QED
    BY <2>1, ComingType, InTurn DEF Coming
<1> QED
  BY <1>1, <1>3, <1>4, <1>5, <1>6 DEF IInv

(* An entry of response[] is the last, or not.                             *)
LEMMA StoreStep ==
  ASSUME IInv, pc = "read", Store
  PROVE  /\ index' = index + 1 /\ index' \in 0 .. BufSize
         /\ pc' \in {"read", "undefined"}
         /\ pc' = "read" => index' < BufSize
         /\ index + 1 < BufSize => pc' = "read"
<1>1. index \in Nat /\ index < BufSize /\ BufSize \in Nat
  BY Constants DEF IInv, TypeOK, Listens
<1> QED
  BY <1>1 DEF Store, NextIndex, Overrun

LEMMA ReadCharStep ==
  ASSUME IInv, ReadChar
  PROVE  IInv'
<1>1. /\ pc = "read" /\ input # <<>> /\ Head(input) \notin LineEnds
      /\ seen' = seen \cup {Head(input)} /\ input' = Tail(input) /\ wire' = wire
      /\ n' = n /\ stat' = stat /\ is_ok_' = is_ok_ /\ config_pin_' = config_pin_
      /\ allow' = allow /\ late' = late
      /\ accepted' = accepted /\ onAir' = onAir /\ refused' = refused
  BY DEF ReadChar, moduleVars
<1>2. /\ index' = index + 1 /\ index' \in 0 .. BufSize
      /\ pc' \in {"read", "undefined"}
      /\ pc' = "read" => index' < BufSize
      /\ index + 1 < BufSize => pc' = "read"
  BY <1>1, StoreStep DEF ReadChar
<1>3. input \in Seq(Chars) /\ wire \in Seq(Chars) /\ Coming \in Seq(Chars)
  BY ComingType
<1>4. Coming # <<>> /\ Coming' = Tail(Coming) /\ Head(input) = Head(Coming)
  BY <1>1, <1>3, InTurn DEF Coming
<1>5. Head(input) \in {"OK", "ERROR"} /\ Tail(input) \in Seq(Chars)
  BY <1>1, <1>3, InTurn DEF Chars, LineEnds
<1>6. TypeOK'
  <2>1. seen' \subseteq {"OK", "ERROR"}
    BY <1>1, <1>5 DEF IInv, TypeOK
  <2> QED
    BY <1>1, <1>2, <1>5, <2>1 DEF IInv, TypeOK, Chars
<1>7. EachAccepted' /\ Listens'
  BY <1>1, <1>2 DEF IInv, EachAccepted, Listens, AcceptedTo, SettingUp
<1>8. OkIsOfThis'
  <2> SUFFICES ASSUME stat
               PROVE  \/ NoOk(Tail(Coming)) /\ ("OK" \in seen' => Commands[n] \in accepted)
                      \/ OneOk(Tail(Coming)) /\ "OK" \notin seen' /\ Commands[n] \in accepted
    BY <1>1, <1>2, <1>4 DEF OkIsOfThis
  <2>1. CASE NoOk(Coming) /\ ("OK" \in seen => Commands[n] \in accepted)
    <3>1. NoOk(Tail(Coming)) /\ Head(input) # "OK"
      BY <1>3, <1>4, <2>1, OkTail
    <3> QED
      BY <1>1, <2>1, <3>1
  <2>2. CASE OneOk(Coming) /\ "OK" \notin seen /\ Commands[n] \in accepted
    <3>1. CASE Head(input) = "OK"
      <4>1. NoOk(Tail(Coming))
        BY <1>3, <1>4, <2>2, <3>1, OkTail
      <4> QED
        BY <2>2, <4>1
    <3>2. CASE Head(input) # "OK"
      <4>1. OneOk(Tail(Coming))
        BY <1>3, <1>4, <2>2, OkTail
      <4> QED
        BY <1>1, <2>2, <3>2, <4>1
    <3> QED
      BY <3>1, <3>2
  <2> QED
    BY <1>1, <2>1, <2>2 DEF IInv, OkIsOfThis
<1>9. InTime'
  <2> SUFFICES ASSUME ~late, ~refused
               PROVE  /\ stat /\ pc' = "read" /\ wire = <<>>
                      /\ Tail(input) \in {<<"CR">>, <<"CR", "LF">>} /\ index' = 1 /\ seen' = {"OK"}
    BY <1>1 DEF InTime
  <2>1. /\ stat /\ wire = <<>>
        /\ \/ input \in Accepting /\ index = 0 /\ seen = {}
           \/ input \in {<<"CR">>, <<"CR", "LF">>} /\ index = 1 /\ seen = {"OK"}
    BY <1>1 DEF IInv, InTime
  <2>2. input \notin {<<"CR">>, <<"CR", "LF">>}
    BY <1>1 DEF LineEnds
  <2>3. Head(input) = "OK" /\ Tail(input) \in {<<"CR">>, <<"CR", "LF">>}
    <3>1. Head(<<"OK", "CR">>) = "OK" /\ Tail(<<"OK", "CR">>) = <<"CR">>
      OBVIOUS
    <3>2. Head(<<"OK", "CR", "LF">>) = "OK" /\ Tail(<<"OK", "CR", "LF">>) = <<"CR", "LF">>
      OBVIOUS
    <3> QED
      BY <2>1, <2>2, <3>1, <3>2 DEF Accepting
  <2>4. index + 1 < BufSize
    BY <2>1, <2>2, Constants
  <2> QED
    BY <1>1, <1>2, <2>1, <2>2, <2>3, <2>4
<1> QED
  BY <1>1, <1>2, <1>6, <1>7, <1>8, <1>9 DEF IInv

(* Nothing is there: -1 is stored, which is no result.                     *)
LEMMA ReadNothingStep ==
  ASSUME IInv, ReadNothing
  PROVE  IInv'
<1>1. /\ pc = "read" /\ input = <<>>
      /\ seen' = seen /\ input' = input /\ wire' = wire
      /\ n' = n /\ stat' = stat /\ is_ok_' = is_ok_ /\ config_pin_' = config_pin_
      /\ allow' = allow /\ late' = late
      /\ accepted' = accepted /\ onAir' = onAir /\ refused' = refused
  BY DEF ReadNothing, moduleVars
<1>2. /\ index' = index + 1 /\ index' \in 0 .. BufSize
      /\ pc' \in {"read", "undefined"}
      /\ pc' = "read" => index' < BufSize
  BY <1>1, StoreStep DEF ReadNothing
<1>3. TypeOK'
  BY <1>1, <1>2 DEF IInv, TypeOK
<1>4. EachAccepted' /\ OkIsOfThis' /\ Listens'
  BY <1>1, <1>2 DEF IInv, EachAccepted, OkIsOfThis, Coming, Listens, AcceptedTo, SettingUp
<1>5. late \/ refused
  BY <1>1 DEF IInv, InTime, Accepting
<1>6. InTime'
  BY <1>1, <1>5 DEF InTime
<1> QED
  BY <1>1, <1>2, <1>3, <1>4, <1>6 DEF IInv

(* The line ends: an OK before it was the reply to this command.           *)
LEMMA ReadEndStep ==
  ASSUME IInv, ReadEnd
  PROVE  IInv'
<1>1. /\ pc = "read" /\ input # <<>> /\ Head(input) \in LineEnds
      /\ input' = Tail(input) /\ wire' = wire
      /\ stat' = (stat /\ "OK" \in seen)
      /\ is_ok_' = IF n = BeginCommands THEN stat' ELSE is_ok_
      /\ config_pin_' = IF n = Len(Commands) THEN HIGH ELSE LOW
      /\ index' = index /\ seen' = seen /\ allow' = allow /\ late' = late
      /\ accepted' = accepted /\ onAir' = onAir /\ refused' = refused
  BY DEF ReadEnd, Succeeded, PinAfter, moduleVars
<1>2. /\ n < Len(Commands) => n' = n + 1 /\ pc' = "flush"
      /\ ~(n < Len(Commands)) => /\ n' = n
                                /\ pc' = IF stat' \/ allow THEN "up" ELSE "stuck"
  BY DEF ReadEnd
<1>3. /\ n \in 1 .. Len(Commands) /\ Len(Commands) \in Nat /\ stat \in BOOLEAN
      /\ BeginCommands \in 1 .. Len(Commands) - 1
  BY Constants DEF IInv, TypeOK
<1>4. input \in Seq(Chars) /\ wire \in Seq(Chars) /\ Coming \in Seq(Chars)
  BY ComingType
<1>5. Coming # <<>> /\ Coming' = Tail(Coming)
  BY <1>1, <1>4, InTurn DEF Coming
<1>6. stat' => /\ NoOk(Coming) /\ Commands[n] \in accepted /\ AcceptedTo(n - 1)
  BY <1>1 DEF IInv, OkIsOfThis, EachAccepted, SettingUp
<1>7. stat' => \A k \in 1 .. n : Commands[k] \in accepted
  <2>1. ASSUME NEW k \in 1 .. n PROVE k \in 1 .. n - 1 \/ k = n
    BY <1>3
  <2> QED
    BY <1>6, <2>1 DEF AcceptedTo
<1>8. TypeOK'
  <2>1. n' \in 1 .. Len(Commands) /\ pc' \in {"flush", "up", "stuck"}
    BY <1>2, <1>3
  <2>2. input' \in Seq(Chars)
    BY <1>1, <1>4, InTurn
  <2>3. is_ok_' \in BOOLEAN /\ stat' \in BOOLEAN /\ config_pin_' \in {LOW, HIGH}
    BY <1>1, <1>3 DEF IInv, TypeOK
  <2> QED
    BY <1>1, <2>1, <2>2, <2>3 DEF IInv, TypeOK, Chars
<1>9. EachAccepted'
  <2>1. stat' /\ pc' \in SettingUp => AcceptedTo(n - 1)'
    BY <1>1, <1>2, <1>3, <1>7 DEF AcceptedTo, SettingUp
  <2>2. stat' /\ pc' = "up" => AcceptedTo(Len(Commands))'
    BY <1>1, <1>2, <1>3, <1>7 DEF AcceptedTo
  <2>3. is_ok_' => AcceptedTo(BeginCommands)'
    BY <1>1, <1>3, <1>7 DEF IInv, EachAccepted, AcceptedTo
  <2>4. pc' = "up" => stat' \/ allow'
    BY <1>1, <1>2
  <2> QED
    BY <2>1, <2>2, <2>3, <2>4 DEF EachAccepted
<1>10. OkIsOfThis'
  <2>1. stat' => NoOk(Tail(Coming))
    BY <1>4, <1>5, <1>6, OkTail
  <2>2. pc' \in {"flush", "up", "stuck"}
    BY <1>2
  <2> QED
    BY <1>5, <2>1, <2>2 DEF OkIsOfThis
<1>11. Listens'
  <2>1. pc' \in SettingUp => n < Len(Commands)
    BY <1>2, <1>3 DEF SettingUp
  <2>2. pc' # "read"
    BY <1>2
  <2> QED
    BY <1>1, <2>1, <2>2 DEF Listens
<1>12. InTime'
  <2> SUFFICES ASSUME ~late, ~refused
               PROVE  stat' /\ pc' \in {"flush", "up"} /\ wire = <<>>
    BY <1>1 DEF InTime
  <2>1. /\ stat /\ wire = <<>>
        /\ \/ input \in Accepting
           \/ seen = {"OK"}
    BY <1>1 DEF IInv, InTime
  <2>2. input \notin Accepting
    BY <1>1 DEF Accepting, LineEnds
  <2> QED
    BY <1>1, <1>2, <2>1, <2>2
<1>13. pc' # "delay"
  BY <1>2
<1> QED
  BY <1>8, <1>9, <1>10, <1>11, <1>12, <1>13 DEF IInv

LEMMA TransmitStep ==
  ASSUME IInv, transmit
  PROVE  IInv'
<1>1. /\ pc = "up" /\ onAir < MaxSent /\ config_pin_' = HIGH /\ onAir' = onAir + 1
      /\ pc' = pc /\ n' = n /\ index' = index /\ seen' = seen /\ stat' = stat
      /\ is_ok_' = is_ok_ /\ allow' = allow /\ input' = input /\ wire' = wire
      /\ late' = late /\ accepted' = accepted /\ refused' = refused
  BY DEF transmit
<1>2. TypeOK'
  <2>1. onAir' \in 0 .. MaxSent
    BY <1>1, Constants DEF IInv, TypeOK
  <2> QED
    BY <1>1, <2>1 DEF IInv, TypeOK
<1>3. EachAccepted' /\ OkIsOfThis' /\ Listens' /\ InTime'
  BY <1>1 DEF IInv, EachAccepted, OkIsOfThis, Coming, Listens, InTime, AcceptedTo, SettingUp
<1> QED
  BY <1>1, <1>2, <1>3 DEF IInv

(* A character comes in: nothing else is to come than before.              *)
LEMMA ReceiveStep ==
  ASSUME IInv, Receive
  PROVE  IInv'
<1>1. /\ wire # <<>> /\ input' = Append(input, Head(wire)) /\ wire' = Tail(wire)
      /\ pc' = pc /\ n' = n /\ index' = index /\ seen' = seen /\ stat' = stat
      /\ is_ok_' = is_ok_ /\ config_pin_' = config_pin_ /\ allow' = allow
      /\ late' = late /\ accepted' = accepted /\ onAir' = onAir /\ refused' = refused
  BY DEF Receive, driverVars, moduleVars
<1>2. input \in Seq(Chars) /\ wire \in Seq(Chars)
  BY ComingType
<1>3. Coming' = Coming
  BY <1>1, <1>2, InTurn DEF Coming
<1>4. TypeOK'
  <2>1. input' \in Seq(Chars) /\ wire' \in Seq(Chars)
    BY <1>1, <1>2
  <2> QED
    BY <1>1, <2>1 DEF IInv, TypeOK, Chars
<1>5. EachAccepted' /\ OkIsOfThis' /\ Listens'
  BY <1>1, <1>3 DEF IInv, EachAccepted, OkIsOfThis, Listens, AcceptedTo, SettingUp
<1>6. InTime'
  BY <1>1, <1>3 DEF IInv, InTime
<1> QED
  BY <1>1, <1>4, <1>5, <1>6 DEF IInv

-----------------------------------------------------------------------------
(* The invariant: an OK that is read is the reply to the command last      *)
(* sent, for as long as no command has failed.                             *)
THEOREM RadioInvariance == Spec => []IInv
<1>1. IInv /\ [Next]_vars => IInv'
  <2> SUFFICES ASSUME IInv, [Next]_vars PROVE IInv'
    OBVIOUS
  <2>1. CASE UNCHANGED vars
    BY <2>1 DEF vars, driverVars, moduleVars, IInv, TypeOK, EachAccepted, OkIsOfThis, Coming,
       Listens, InTime, AcceptedTo, SettingUp
  <2> QED
    BY <2>1, FlushStep, SendStep, DelayStep, ReadCharStep, ReadNothingStep, ReadEndStep,
       TransmitStep, ReceiveStep DEF Next, SetUp
<1> QED
  BY <1>1, InitInv, PTL DEF Spec

(* When set-up is over the module has accepted every command, or, built to *)
(* allow failures, those of begin() before it transmits: no rest of an     *)
(* earlier reply, and no late one, is taken for that of another command.   *)
THEOREM SetUpIsAccepted == Spec => []ConfiguredIsAccepted
<1>1. IInv => ConfiguredIsAccepted
  <2>1. DOMAIN Commands = 1 .. Len(Commands)
    BY Constants
  <2> QED
    BY <2>1 DEF IInv, EachAccepted, AcceptedTo, ConfiguredIsAccepted
<1> QED
  BY <1>1, RadioInvariance, PTL

(* A module that accepts every command in time with a plain OK is set up.  *)
THEOREM PlainIsEnough == Spec => []PlainRepliesSuffice
<1>1. IInv => PlainRepliesSuffice
  BY DEF IInv, InTime, PlainRepliesSuffice
<1> QED
  BY <1>1, RadioInvariance, PTL
=============================================================================
