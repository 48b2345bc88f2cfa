--------------------------- MODULE ShownPagesProofs ---------------------------
(***************************************************************************)
(* What the pages /profile/security, /users/[id], /admin and /groups/[id]   *)
(* show is what is in the database as soon as nothing is under way.         *)
(*                                                                         *)
(* Each page has an invariant of its own, that of /groups/[id] in           *)
(* PagesProofs, and the last section is about a browser with any of them.   *)
(***************************************************************************)
EXTENDS PagesProofs

-----------------------------------------------------------------------------
(* The page /profile/security.  Its variables are x1 for account, x5 for    *)
(* page, x7 for answers and x8 for torn.                                   *)

OffOn == {"load", "confirm", "disable"}           \* tell whether the second factor is on
QrCode == {"setup", "start", "confirm", "disable"}    \* tell which QR code is shown

\* The last answer under way that tells of something is what the page will show of
\* it; the page shows what it should if there is none.
Tells(P, k) == x7[k].ok /\ x7[k].kind \in P
TellsLast(P, k) == Tells(P, k) /\ \A j \in 1 .. Len(x7) : j > k => ~Tells(P, j)
SaysOffOn(a) ==
    /\ a.kind = "load" => a.profile \in {"error", PF!MfaOf(x1)}
    /\ a.kind = "confirm" => PF!MfaOf(x1) = "on"
    /\ a.kind = "disable" => PF!MfaOf(x1) = "off"
SaysQrCode(a) == a.kind \in {"setup", "start"} => a.secret = x1.pending
OffOnCurrent ==
    /\ \A k \in 1 .. Len(x7) : TellsLast(OffOn, k) => SaysOffOn(x7[k])
    /\ (\A k \in 1 .. Len(x7) : ~Tells(OffOn, k)) => x5.profile \in {"none", "error", PF!MfaOf(x1)}
QrCodeCurrent ==
    /\ \A k \in 1 .. Len(x7) : TellsLast(QrCode, k) => SaysQrCode(x7[k])
    /\ (\A k \in 1 .. Len(x7) : ~Tells(QrCode, k)) => x5.setup \in {PF!None, x1.pending}
ProfileOK ==
    /\ SequenceOK(x7)
    /\ x5 = [profile |-> x5.profile, setup |-> x5.setup, flow |-> x5.flow, loading |-> x5.loading]
    /\ x1 = [secret |-> x1.secret, pending |-> x1.pending]
ProfileInv == ProfileOK /\ (~x8 => OffOnCurrent /\ QrCodeCurrent)

\* The page is as it is when it has been loaded.
LEMMA ProfileLoaded ==
    ASSUME x5 = PF!NewPage, x7 = <<>>, x1 = [secret |-> x1.secret, pending |-> x1.pending]
    PROVE  ProfileInv
<1>1. Len(x7) = 0 /\ x7 = [k \in 1 .. 0 |-> x7[k]] /\ 1 .. 0 = {}
    OBVIOUS
<1>2. x5 = [profile |-> "none", setup |-> PF!None, flow |-> "none", loading |-> TRUE]
    BY DEF PF!NewPage
<1> QED BY <1>1, <1>2 DEF ProfileInv, ProfileOK, SequenceOK, OffOnCurrent, QrCodeCurrent

LEMMA ProfileReloaded ==
    ASSUME x5' = PF!NewPage, x7' = <<>>, x1' = [secret |-> x1'.secret, pending |-> x1'.pending]
    PROVE  ProfileInv'
<1>1. Len(x7') = 0 /\ x7' = [k \in 1 .. 0 |-> x7'[k]] /\ 1 .. 0 = {}
    OBVIOUS
<1>2. x5' = [profile |-> "none", setup |-> PF!None, flow |-> "none", loading |-> TRUE]
    BY DEF PF!NewPage
<1> QED BY <1>1, <1>2 DEF ProfileInv, ProfileOK, SequenceOK, OffOnCurrent, QrCodeCurrent

\* An answer is sent.  If the account changes it tells so, unless it is an error.
LEMMA ProfileResponds ==
    ASSUME ProfileInv, UNCHANGED x5, NEW a, x7' = Append(x7, a),
           x1' = [secret |-> x1'.secret, pending |-> x1'.pending],
           ~x8' => /\ ~x8
                   /\ \/ a.ok /\ a.kind \in OffOn /\ SaysOffOn(a)'
                      \/ ~(a.ok /\ a.kind \in OffOn) /\ PF!MfaOf(x1)' = PF!MfaOf(x1)
                   /\ \/ a.ok /\ a.kind \in QrCode /\ SaysQrCode(a)'
                      \/ ~(a.ok /\ a.kind \in QrCode) /\ x1'.pending = x1.pending
    PROVE  ProfileInv'
<1>1. PICK n \in Nat : n = Len(x7)
    BY DEF ProfileInv, ProfileOK, SequenceOK
<1>2. SequenceOK(x7') /\ Len(x7') = n + 1 /\ x7'[n + 1] = a /\ \A k \in 1 .. n : x7'[k] = x7[k]
    BY <1>1, Appended DEF ProfileInv, ProfileOK
<1>3. ProfileOK'
    BY <1>2 DEF ProfileInv, ProfileOK
<1>4. /\ n + 1 \in 1 .. n + 1 /\ \A k \in 1 .. n : k \in 1 .. n + 1 /\ n + 1 > k
      /\ \A k \in 1 .. n + 1 : k \in 1 .. n \/ k = n + 1
    BY <1>1
<1>5. ASSUME ~x8' PROVE OffOnCurrent'
  <2>1. CASE a.ok /\ a.kind \in OffOn /\ SaysOffOn(a)'
    <3>1. Tells(OffOn, n + 1)'
      BY <1>2, <2>1 DEF Tells
    <3>2. ASSUME NEW k \in 1 .. n + 1, TellsLast(OffOn, k)' PROVE k = n + 1
      BY <1>2, <1>4, <3>1, <3>2 DEF TellsLast
    <3>3. SaysOffOn(x7[n + 1])'
      BY <1>2, <2>1 DEF SaysOffOn
    <3>4. \A k \in 1 .. n + 1 : TellsLast(OffOn, k)' => SaysOffOn(x7[k])'
      BY <3>2, <3>3
    <3> QED BY <1>2, <1>4, <3>1, <3>4 DEF OffOnCurrent
  <2>2. CASE ~(a.ok /\ a.kind \in OffOn) /\ PF!MfaOf(x1)' = PF!MfaOf(x1)
    <3>1. ~Tells(OffOn, n + 1)' /\ \A k \in 1 .. n : Tells(OffOn, k)' = Tells(OffOn, k)
      BY <1>2, <2>2 DEF Tells
    <3>2. ASSUME NEW k \in 1 .. n + 1, TellsLast(OffOn, k)' PROVE k \in 1 .. n /\ TellsLast(OffOn, k)
      BY <1>1, <1>2, <1>4, <3>1, <3>2 DEF TellsLast
    <3>3. ASSUME NEW k \in 1 .. n, SaysOffOn(x7[k]) PROVE SaysOffOn(x7[k])'
      BY <1>2, <2>2, <3>3 DEF SaysOffOn
    <3>4. \A k \in 1 .. n + 1 : TellsLast(OffOn, k)' => SaysOffOn(x7[k])'
      BY <1>1, <1>5, <3>2, <3>3 DEF ProfileInv, OffOnCurrent
    <3>5. (\A k \in 1 .. n + 1 : ~Tells(OffOn, k)') => x5'.profile \in {"none", "error", PF!MfaOf(x1)'}
      BY <1>1, <1>4, <1>5, <2>2, <3>1 DEF ProfileInv, OffOnCurrent
    <3> QED BY <1>2, <3>4, <3>5 DEF OffOnCurrent
  <2> QED BY <1>5, <2>1, <2>2
<1>6. ASSUME ~x8' PROVE QrCodeCurrent'
  <2>1. CASE a.ok /\ a.kind \in QrCode /\ SaysQrCode(a)'
    <3>1. Tells(QrCode, n + 1)'
      BY <1>2, <2>1 DEF Tells
    <3>2. ASSUME NEW k \in 1 .. n + 1, TellsLast(QrCode, k)' PROVE k = n + 1
      BY <1>2, <1>4, <3>1, <3>2 DEF TellsLast
    <3>3. SaysQrCode(x7[n + 1])'
      BY <1>2, <2>1 DEF SaysQrCode
    <3>4. \A k \in 1 .. n + 1 : TellsLast(QrCode, k)' => SaysQrCode(x7[k])'
      BY <3>2, <3>3
    <3> QED BY <1>2, <1>4, <3>1, <3>4 DEF QrCodeCurrent
  <2>2. CASE ~(a.ok /\ a.kind \in QrCode) /\ x1'.pending = x1.pending
    <3>1. ~Tells(QrCode, n + 1)' /\ \A k \in 1 .. n : Tells(QrCode, k)' = Tells(QrCode, k)
      BY <1>2, <2>2 DEF Tells
    <3>2. ASSUME NEW k \in 1 .. n + 1, TellsLast(QrCode, k)' PROVE k \in 1 .. n /\ TellsLast(QrCode, k)
      BY <1>1, <1>2, <1>4, <3>1, <3>2 DEF TellsLast
    <3>3. ASSUME NEW k \in 1 .. n, SaysQrCode(x7[k]) PROVE SaysQrCode(x7[k])'
      BY <1>2, <2>2, <3>3 DEF SaysQrCode
    <3>4. \A k \in 1 .. n + 1 : TellsLast(QrCode, k)' => SaysQrCode(x7[k])'
      BY <1>1, <1>6, <3>2, <3>3 DEF ProfileInv, QrCodeCurrent
    <3>5. (\A k \in 1 .. n + 1 : ~Tells(QrCode, k)') => x5'.setup \in {PF!None, x1'.pending}
      BY <1>1, <1>4, <1>6, <2>2, <3>1 DEF ProfileInv, QrCodeCurrent
    <3> QED BY <1>2, <3>4, <3>5 DEF QrCodeCurrent
  <2> QED BY <1>6, <2>1, <2>2
<1> QED BY <1>3, <1>5, <1>6 DEF ProfileInv

LEMMA ProfileRoutes ==
    ASSUME ProfileInv,
           \/ PF!ServeLoad \/ PF!SetUp \/ PF!StartReconfigure \/ PF!Confirm \/ PF!Disable \/ PF!ChangePassword
           \/ \E what \in PF!Kind : PF!Refuse(what)
    PROVE  ProfileInv'
<1>1. PICK p : p = x1 /\ p = [secret |-> p.secret, pending |-> p.pending]
    BY DEF ProfileInv, ProfileOK
<1>2. ASSUME NEW what, NEW ok, what \notin OffOn \cup QrCode \/ ~ok, UNCHANGED <<x1, x5>>, ~x8' => ~x8,
             \/ x7' = Append(x7, [kind |-> what, ok |-> ok])
             \/ \E b : x7' = Append(x7, [kind |-> what, ok |-> ok, secret |-> b])
      PROVE  ProfileInv'
  <2>1. PICK a : a.kind = what /\ a.ok = ok /\ x7' = Append(x7, a)
    <3>1. CASE x7' = Append(x7, [kind |-> what, ok |-> ok])
      <4>1. PICK a : a = [kind |-> what, ok |-> ok]
        OBVIOUS
      <4> QED BY <3>1, <4>1
    <3>2. ASSUME NEW b, x7' = Append(x7, [kind |-> what, ok |-> ok, secret |-> b])
          PROVE  \E a : a.kind = what /\ a.ok = ok /\ x7' = Append(x7, a)
      <4>1. PICK a : a = [kind |-> what, ok |-> ok, secret |-> b]
        OBVIOUS
      <4> QED BY <3>2, <4>1
    <3> QED BY <1>2, <3>1, <3>2
  <2>2. PF!MfaOf(x1)' = PF!MfaOf(x1)
    BY <1>2 DEF PF!MfaOf
  <2> QED BY <1>1, <1>2, <2>1, <2>2, ProfileResponds
<1>3. CASE PF!ServeLoad
  <2>1. PICK a : a = [kind |-> "load", ok |-> TRUE, profile |-> IF x4 THEN PF!MfaOf(x1) ELSE "error"]
    OBVIOUS
  <2>2. x7' = Append(x7, a) /\ UNCHANGED <<x1, x5, x8>>
    BY <1>3, <2>1 DEF PF!ServeLoad, PF!Respond
  <2>3. PF!MfaOf(x1)' = PF!MfaOf(x1)
    BY <2>2 DEF PF!MfaOf
  <2>4. a.ok /\ a.kind \in OffOn /\ a.kind \notin QrCode /\ SaysOffOn(a)'
    BY <2>1, <2>3 DEF SaysOffOn, OffOn, QrCode
  <2> QED BY <1>1, <2>2, <2>4, ProfileResponds
\* The account has a new pending secret, or shows the one it has.
<1>4. ASSUME NEW what \in {"setup", "start"}, NEW ok, NEW b, UNCHANGED x5, x1' = [x1 EXCEPT !.pending = b],
             x7' = Append(x7, [kind |-> what, ok |-> ok, secret |-> b]), ~x8' => ~x8 /\ ok
      PROVE  ProfileInv'
  <2>1. PICK a : a = [kind |-> what, ok |-> ok, secret |-> b]
    OBVIOUS
  <2>2. x1' = [secret |-> p.secret, pending |-> b]
    BY <1>1, <1>4
  <2>3. PF!MfaOf(x1)' = PF!MfaOf(x1)
    BY <1>1, <2>2 DEF PF!MfaOf
  <2>4. a.kind \notin OffOn /\ a.kind \in QrCode /\ SaysQrCode(a)' /\ a.ok = ok
    BY <2>1, <2>2 DEF SaysQrCode, OffOn, QrCode
  <2> QED BY <1>4, <2>1, <2>2, <2>3, <2>4, ProfileResponds
<1>5. CASE PF!SetUp
  <2>1. CASE x1.pending # PF!None
    <3>1. /\ UNCHANGED <<x1, x5, x8>>
          /\ x7' = Append(x7, [kind |-> "setup", ok |-> TRUE, secret |-> x1.pending])
      BY <1>5, <2>1 DEF PF!SetUp, PF!Respond
    <3>2. x1 = [x1 EXCEPT !.pending = p.pending]
      BY <1>1
    <3> QED BY <1>1, <1>4, <3>1, <3>2
  <2>2. CASE ~(x1.pending # PF!None)
    <3>1. PICK ok \in BOOLEAN : /\ x1' = [x1 EXCEPT !.pending = x2 + 1] /\ UNCHANGED x5 /\ x8' = (x8 \/ ~ok)
                                /\ x7' = Append(x7, [kind |-> "setup", ok |-> ok, secret |-> x2 + 1])
      BY <1>5, <2>2 DEF PF!SetUp, PF!Done, PF!Respond
    <3> QED BY <1>4, <3>1
  <2> QED BY <2>1, <2>2
<1>6. CASE PF!StartReconfigure
  <2>1. PICK ok \in BOOLEAN : /\ x1' = [x1 EXCEPT !.pending = x2 + 1] /\ UNCHANGED x5 /\ x8' = (x8 \/ ~ok)
                              /\ x7' = Append(x7, [kind |-> "start", ok |-> ok, secret |-> x2 + 1])
    BY <1>6 DEF PF!StartReconfigure, PF!Done, PF!Respond
  <2> QED BY <1>4, <2>1
<1>7. CASE PF!Confirm \/ PF!Disable
  <2>1. PICK ok \in BOOLEAN, what \in {"confirm", "disable"} :
           /\ x1' = [secret |-> IF what = "confirm" THEN x1.pending ELSE PF!None, pending |-> PF!None]
           /\ UNCHANGED x5 /\ x8' = (x8 \/ ~ok) /\ (what = "confirm" => x1.pending # PF!None)
           /\ x7' = Append(x7, [kind |-> what, ok |-> ok, secret |-> PF!None])
    BY <1>7 DEF PF!Confirm, PF!Disable, PF!Done, PF!Respond
  <2>2. PICK a : a = [kind |-> what, ok |-> ok, secret |-> PF!None]
    OBVIOUS
  <2>3. PF!MfaOf(x1)' = IF what = "confirm" THEN "on" ELSE "off"
    BY <2>1 DEF PF!MfaOf
  <2>4. a.ok = ok /\ a.kind \in OffOn /\ SaysOffOn(a)' /\ a.kind \in QrCode /\ SaysQrCode(a)'
    BY <2>1, <2>2, <2>3 DEF SaysOffOn, SaysQrCode, OffOn, QrCode
  <2> QED BY <2>1, <2>2, <2>4, ProfileResponds
<1>8. CASE PF!ChangePassword
  <2>1. "password" \notin OffOn \cup QrCode
    BY DEF OffOn, QrCode
  <2> QED BY <1>2, <1>8, <2>1 DEF PF!ChangePassword, PF!Done, PF!Respond
<1>9. ASSUME NEW what \in PF!Kind, PF!Refuse(what) PROVE ProfileInv'
    BY <1>2, <1>9 DEF PF!Refuse, PF!Respond
<1> QED BY <1>3, <1>5, <1>6, <1>7, <1>8, <1>9

\* The oldest answer arrives; any other is excused, and so is a lost one.
LEMMA ProfileArrive ==
    ASSUME ProfileInv, NEW i \in DOMAIN x7, PF!Arrive(i) \/ PF!Lost(i)
    PROVE  ProfileInv'
<1>1. PICK n \in Nat : n = Len(x7) /\ i \in 1 .. n
    BY QueueLength DEF ProfileInv, ProfileOK, SequenceOK
<1>2. UNCHANGED x1 /\ x7' = SubSeq(x7, 1, i - 1) \o SubSeq(x7, i + 1, Len(x7))
    BY DEF PF!Arrive, PF!Lost, PF!RemoveAt
<1>3. /\ SequenceOK(x7') /\ Len(x7') = n - 1
      /\ \A k \in 1 .. n - 1 : x7'[k] = IF k < i THEN x7[k] ELSE x7[k + 1]
    BY <1>1, <1>2, Removed DEF ProfileInv, ProfileOK
<1>4. PICK p : p = x5 /\ p = [profile |-> p.profile, setup |-> p.setup, flow |-> p.flow, loading |-> p.loading]
    BY DEF ProfileInv, ProfileOK
<1>5. PF!MfaOf(x1)' = PF!MfaOf(x1)
    BY <1>2 DEF PF!MfaOf
<1>6. CASE PF!Lost(i)
  <2>1. x8' /\ (x5' = p \/ x5' = [p EXCEPT !.loading = FALSE])
    BY <1>4, <1>6 DEF PF!Lost
  <2>2. x5' = [profile |-> p.profile, setup |-> p.setup, flow |-> p.flow, loading |-> x5'.loading]
    <3>1. CASE x5' = p
      BY <1>4, <3>1
    <3>2. CASE x5' = [p EXCEPT !.loading = FALSE]
      <4>1. x5' = [profile |-> p.profile, setup |-> p.setup, flow |-> p.flow, loading |-> FALSE]
        BY <1>4, <3>2
      <4> QED BY <4>1
    <3> QED BY <2>1, <3>1, <3>2
  <2> QED BY <1>2, <1>3, <2>1, <2>2 DEF ProfileInv, ProfileOK
<1>7. CASE PF!Arrive(i)
  <2>1. PICK a : a = x7[i]
    OBVIOUS
  <2>2. x5' = PF!Updated(a) /\ x8' = (x8 \/ i # 1)
    BY <1>7, <2>1 DEF PF!Arrive
  <2>3. \/ x5' = p /\ (~a.ok \/ a.kind \notin OffOn \cup QrCode)
        \/ x5' = [p EXCEPT !.profile = a.profile, !.loading = FALSE] /\ a.kind = "load"
        \/ x5' = [p EXCEPT !.setup = a.secret, !.flow = "setup"] /\ a.kind = "setup"
        \/ x5' = [p EXCEPT !.setup = a.secret, !.flow = "reconfigure"] /\ a.kind = "start"
        \/ x5' = [p EXCEPT !.profile = "on", !.setup = PF!None, !.flow = "none"] /\ a.kind = "confirm"
        \/ x5' = [p EXCEPT !.profile = "off", !.setup = PF!None, !.flow = "none"] /\ a.kind = "disable"
    BY <1>4, <2>2 DEF PF!Updated, PF!Confirmed, OffOn, QrCode
  <2>4. PICK r : r = [profile |-> IF a.ok /\ a.kind = "load" THEN a.profile
                                  ELSE IF a.ok /\ a.kind = "confirm" THEN "on"
                                  ELSE IF a.ok /\ a.kind = "disable" THEN "off" ELSE p.profile,
                      setup |-> IF a.ok /\ a.kind \in {"setup", "start"} THEN a.secret
                                ELSE IF a.ok /\ a.kind \in {"confirm", "disable"} THEN PF!None ELSE p.setup,
                      flow |-> x5'.flow, loading |-> x5'.loading]
    OBVIOUS
  <2>5. x5' = r
    <3>1. CASE ~a.ok
      BY <1>4, <2>2, <2>4, <3>1 DEF PF!Updated
    <3>2. CASE a.ok /\ a.kind \notin OffOn \cup QrCode
      BY <1>4, <2>3, <2>4, <3>2 DEF OffOn, QrCode
    <3>3. CASE a.ok /\ a.kind = "load"
      <4>1. x5' = [profile |-> a.profile, setup |-> p.setup, flow |-> p.flow, loading |-> FALSE]
        BY <1>4, <2>3, <3>3 DEF OffOn, QrCode
      <4> QED BY <2>4, <3>3, <4>1
    <3>4. CASE a.ok /\ a.kind = "setup"
      <4>1. x5' = [profile |-> p.profile, setup |-> a.secret, flow |-> "setup", loading |-> p.loading]
        BY <1>4, <2>3, <3>4 DEF OffOn, QrCode
      <4> QED BY <2>4, <3>4, <4>1
    <3>5. CASE a.ok /\ a.kind = "start"
      <4>1. x5' = [profile |-> p.profile, setup |-> a.secret, flow |-> "reconfigure", loading |-> p.loading]
        BY <1>4, <2>3, <3>5 DEF OffOn, QrCode
      <4> QED BY <2>4, <3>5, <4>1
    <3>6. CASE a.ok /\ a.kind = "confirm"
      <4>1. x5' = [profile |-> "on", setup |-> PF!None, flow |-> "none", loading |-> p.loading]
        BY <1>4, <2>3, <3>6 DEF OffOn, QrCode
      <4> QED BY <2>4, <3>6, <4>1
    <3>7. CASE a.ok /\ a.kind = "disable"
      <4>1. x5' = [profile |-> "off", setup |-> PF!None, flow |-> "none", loading |-> p.loading]
        BY <1>4, <2>3, <3>7 DEF OffOn, QrCode
      <4> QED BY <2>4, <3>7, <4>1
    <3> QED BY <3>1, <3>2, <3>3, <3>4, <3>5, <3>6, <3>7 DEF OffOn, QrCode
  <2>6. ProfileOK'
    BY <1>2, <1>3, <2>4, <2>5 DEF ProfileInv, ProfileOK
  <2>7. ASSUME ~x8' PROVE OffOnCurrent' /\ QrCodeCurrent'
    <3>1. i = 1 /\ OffOnCurrent /\ QrCodeCurrent
      BY <2>2, <2>7 DEF ProfileInv
    <3>2. \A k \in 1 .. n - 1 : k + 1 \in 1 .. n /\ x7'[k] = x7[k + 1]
      BY <1>1, <1>3, <3>1
    <3>3. \A k \in 1 .. n : k = 1 \/ (k - 1 \in 1 .. n - 1 /\ (k - 1) + 1 = k)
      BY <1>1
    <3>4. ASSUME NEW P, NEW k \in 1 .. n - 1
          PROVE  Tells(P, k)' = Tells(P, k + 1) /\ (TellsLast(P, k)' => TellsLast(P, k + 1))
      <4>1. \A j \in 1 .. n - 1 : Tells(P, j)' = Tells(P, j + 1)
        BY <3>2 DEF Tells
      <4>2. ASSUME TellsLast(P, k)' PROVE TellsLast(P, k + 1)
        <5>1. ASSUME NEW j \in 1 .. n, j > k + 1 PROVE ~Tells(P, j)
          <6>1. j - 1 \in 1 .. n - 1 /\ j - 1 > k /\ (j - 1) + 1 = j
            BY <1>1, <5>1
          <6> QED BY <1>3, <4>1, <4>2, <6>1 DEF TellsLast
        <5> QED BY <1>1, <4>1, <4>2, <5>1 DEF TellsLast
      <4> QED BY <4>1, <4>2
    <3>5. ASSUME NEW P, \A k \in 1 .. n - 1 : ~Tells(P, k)'
          PROVE  IF Tells(P, 1) THEN TellsLast(P, 1) ELSE \A k \in 1 .. n : ~Tells(P, k)
      <4>1. ASSUME NEW k \in 1 .. n, k # 1 PROVE ~Tells(P, k)
        <5>1. k - 1 \in 1 .. n - 1 /\ (k - 1) + 1 = k
          BY <3>3, <4>1
        <5> QED BY <3>4, <3>5, <5>1
      <4> QED BY <1>1, <4>1 DEF TellsLast
    <3>6. 1 \in 1 .. n /\ a = x7[1]
      BY <1>1, <2>1, <3>1
    <3>7. OffOnCurrent'
      <4>1. ASSUME NEW k \in 1 .. n - 1, TellsLast(OffOn, k)' PROVE SaysOffOn(x7[k])'
        <5>1. SaysOffOn(x7[k + 1])
          BY <1>1, <3>1, <3>2, <3>4, <4>1 DEF OffOnCurrent
        <5> QED BY <1>5, <3>2, <5>1 DEF SaysOffOn
      <4>2. ASSUME \A k \in 1 .. n - 1 : ~Tells(OffOn, k)'
            PROVE  x5'.profile \in {"none", "error", PF!MfaOf(x1)'}
        <5>1. CASE Tells(OffOn, 1)
          <6>1. SaysOffOn(a)
            BY <1>1, <3>1, <3>5, <3>6, <4>2, <5>1 DEF OffOnCurrent
          <6>2. a.ok /\ a.kind \in {"load", "confirm", "disable"}
            BY <3>6, <5>1 DEF Tells, OffOn
          <6> QED BY <1>5, <2>4, <2>5, <6>1, <6>2 DEF SaysOffOn
        <5>2. CASE ~Tells(OffOn, 1)
          <6>1. x5.profile \in {"none", "error", PF!MfaOf(x1)}
            BY <1>1, <3>1, <3>5, <4>2, <5>2 DEF OffOnCurrent
          <6>2. ~(a.ok /\ a.kind \in {"load", "confirm", "disable"})
            BY <3>6, <5>2 DEF Tells, OffOn
          <6>3. x5'.profile = p.profile
            BY <2>4, <2>5, <6>2
          <6> QED BY <1>4, <1>5, <6>1, <6>3
        <5> QED BY <5>1, <5>2
      <4> QED BY <1>3, <4>1, <4>2 DEF OffOnCurrent
    <3>8. QrCodeCurrent'
      <4>1. ASSUME NEW k \in 1 .. n - 1, TellsLast(QrCode, k)' PROVE SaysQrCode(x7[k])'
        <5>1. SaysQrCode(x7[k + 1])
          BY <1>1, <3>1, <3>2, <3>4, <4>1 DEF QrCodeCurrent
        <5> QED BY <1>2, <3>2, <5>1 DEF SaysQrCode
      <4>2. ASSUME \A k \in 1 .. n - 1 : ~Tells(QrCode, k)'
            PROVE  x5'.setup \in {PF!None, x1'.pending}
        <5>1. CASE Tells(QrCode, 1)
          <6>1. SaysQrCode(a)
            BY <1>1, <3>1, <3>5, <3>6, <4>2, <5>1 DEF QrCodeCurrent
          <6>2. a.ok /\ a.kind \in {"setup", "start", "confirm", "disable"}
            BY <3>6, <5>1 DEF Tells, QrCode
          <6> QED BY <1>2, <2>4, <2>5, <6>1, <6>2 DEF SaysQrCode
        <5>2. CASE ~Tells(QrCode, 1)
          <6>1. x5.setup \in {PF!None, x1.pending}
            BY <1>1, <3>1, <3>5, <4>2, <5>2 DEF QrCodeCurrent
          <6>2. ~(a.ok /\ a.kind \in {"setup", "start", "confirm", "disable"})
            BY <3>6, <5>2 DEF Tells, QrCode
          <6>3. x5'.setup = p.setup
            BY <2>4, <2>5, <6>2
          <6> QED BY <1>2, <1>4, <6>1, <6>3
        <5> QED BY <5>1, <5>2
      <4> QED BY <1>3, <4>1, <4>2 DEF QrCodeCurrent
    <3> QED BY <3>7, <3>8
  <2> QED BY <2>6, <2>7 DEF ProfileInv
<1> QED BY <1>6, <1>7

LEMMA ProfileStep == ProfileInv /\ [PF!Next]_(PF!vars) => ProfileInv'
<1> SUFFICES ASSUME ProfileInv, [PF!Next]_(PF!vars) PROVE ProfileInv'
    OBVIOUS
<1>1. CASE UNCHANGED PF!vars \/ PF!Send \/ PF!SessionEnds
  <2>1. UNCHANGED <<x1, x5, x7, x8>>
    BY <1>1 DEF PF!vars, PF!Send, PF!SessionEnds
  <2>2. PF!MfaOf(x1)' = PF!MfaOf(x1)
    BY <2>1 DEF PF!MfaOf
  <2>3. OffOnCurrent' = OffOnCurrent
    BY <2>1, <2>2 DEF OffOnCurrent, SaysOffOn, TellsLast, Tells
  <2>4. QrCodeCurrent' = QrCodeCurrent
    BY <2>1 DEF QrCodeCurrent, SaysQrCode, TellsLast, Tells
  <2> QED BY <2>1, <2>3, <2>4 DEF ProfileInv, ProfileOK
<1>2. CASE PF!Reload
  <2>1. x5' = PF!NewPage /\ x7' = <<>> /\ x1' = x1
    BY <1>2 DEF PF!Reload
  <2>2. x1' = [secret |-> x1'.secret, pending |-> x1'.pending] /\ x5' = PF!NewPage'
    BY <2>1 DEF ProfileInv, ProfileOK, PF!NewPage, PF!None
  <2> QED BY <2>1, <2>2, ProfileReloaded
<1>3. ASSUME NEW i \in DOMAIN x7, PF!Arrive(i) \/ PF!Lost(i) PROVE ProfileInv'
    BY <1>3, ProfileArrive
<1> QED BY <1>1, <1>2, <1>3, ProfileRoutes DEF PF!Next

LEMMA ProfileInit == PF!Init => ProfileInv
<1> SUFFICES ASSUME PF!Init PROVE ProfileInv
    OBVIOUS
<1>1. x5 = PF!NewPage /\ x7 = <<>> /\ x1 = [secret |-> x1.secret, pending |-> x1.pending]
    BY DEF PF!Init
<1> QED BY <1>1, ProfileLoaded

LEMMA ProfileProperty == ProfileInv => PF!ShownIsCurrent
<1> SUFFICES ASSUME ProfileInv, PF!Quiet, ~x8
             PROVE  x5.profile = PF!MfaOf(x1) /\ (PF!SetupCard => x5.setup = x1.pending)
    BY DEF PF!ShownIsCurrent
<1>1. Len(x7) = 0 /\ 1 .. 0 = {}
    BY DEF PF!Quiet
<1>2. x5.profile \notin {"none", "error"}
    BY DEF PF!Quiet, PF!Shows
<1>3. x5.profile = PF!MfaOf(x1)
    BY <1>1, <1>2 DEF ProfileInv, OffOnCurrent
<1>4. x5.setup \in {PF!None, x1.pending}
    BY <1>1 DEF ProfileInv, QrCodeCurrent
<1> QED BY <1>3, <1>4 DEF PF!SetupCard

-----------------------------------------------------------------------------
(* The page /users/[id].  Its variables are x1 for row, x2 for grants, x4   *)
(* for page, x5 for fetches, x6 for jobs and x7 for torn.                  *)

UserNow == IF x1 = UR!Gone THEN UR!NotFound ELSE x1
GrantsNow == [list |-> IF x1 = UR!Gone THEN <<>> ELSE x2]

RowOK ==
    \/ x1 = UR!Gone
    \/ /\ x1 = [cert |-> x1.cert, ccd |-> x1.ccd, enabled |-> x1.enabled, groups |-> x1.groups, net |-> x1.net]
       /\ x1.enabled \in BOOLEAN
OneUserOK ==
    /\ QueueOK(x5) /\ Kinds(x5, {"user", "grants"}) /\ LateAreFirst(x5, "user") /\ LateAreFirst(x5, "grants")
    /\ RowOK
    /\ SequenceOK(x2)
    /\ x4 = [user |-> x4.user, grants |-> x4.grants, net |-> x4.net, loading |-> x4.loading, managed |-> x4.managed,
             left |-> x4.left]
    /\ x6 = [o \in DOMAIN x6 |-> x6[o]]

\* Changes after which the page will fetch the user, and the grants, or be left.
UserOwed == \E o \in DOMAIN x6 : x6[o] \in {"ok", "half"}
GrantsOwed == \E o \in DOMAIN x6 : x6[o] \in {"ok", "half"} /\ o.kind \in {"grant", "revoke", "delete"}
OneUserInv ==
    /\ OneUserOK
    /\ ~x7 /\ ~x4.left /\ ~UserOwed => Current(x5, "user", UserNow, x4.user)
    /\ ~x7 /\ ~x4.left /\ ~GrantsOwed => Current(x5, "grants", GrantsNow, [list |-> x4.grants])

LEMMA OneUserInit == UR!Init => OneUserInv
<1> SUFFICES ASSUME UR!Init PROVE OneUserInv
    OBVIOUS
<1>1. x5 = <<[what |-> "user", answer |-> NotServed, late |-> FALSE],
             [what |-> "grants", answer |-> NotServed, late |-> FALSE]>>
    BY DEF UR!Init, UR!Fetch, UR!NoAnswer, NotServed
<1>2. /\ QueueOK(x5) /\ LateAreFirst(x5, "user") /\ LateAreFirst(x5, "grants") /\ Kinds(x5, {"user", "grants"})
      /\ Current(x5, "user", UserNow, x4.user) /\ Current(x5, "grants", GrantsNow, [list |-> x4.grants])
    BY <1>1, AskedBoth
<1>3. x1 = [cert |-> "NONE", ccd |-> "PENDING", enabled |-> FALSE, groups |-> {}, net |-> Settings]
    BY DEF UR!Init
<1>4. x4 = [user |-> UR!Nobody, grants |-> <<>>, net |-> Settings, loading |-> TRUE, managed |-> TRUE, left |-> FALSE]
    BY DEF UR!Init
<1>5. SequenceOK(x2)
  <2>1. x2 = <<>> /\ Len(x2) = 0 /\ x2 = [k \in 1 .. 0 |-> x2[k]]
    BY DEF UR!Init
  <2> QED BY <2>1 DEF SequenceOK
<1>6. x6 = [o \in {} |-> "sent"]
    BY DEF UR!Init
<1>7. /\ x1 = [cert |-> x1.cert, ccd |-> x1.ccd, enabled |-> x1.enabled, groups |-> x1.groups, net |-> x1.net]
      /\ x1.enabled \in BOOLEAN
    BY <1>3
<1>8. x4 = [user |-> x4.user, grants |-> x4.grants, net |-> x4.net, loading |-> x4.loading, managed |-> x4.managed,
           left |-> x4.left]
    BY <1>4
<1> QED BY <1>2, <1>5, <1>6, <1>7, <1>8 DEF OneUserInv, OneUserOK, RowOK

\* What is shown, the rows and the fetches stay.
LEMMA OneUserStays ==
    ASSUME OneUserInv, UNCHANGED <<x1, x2, x5, x4.user, x4.grants>>, OneUserOK',
           ~x7' /\ ~x4'.left => ~x7 /\ ~x4.left /\ (UserOwed => UserOwed') /\ (GrantsOwed => GrantsOwed')
    PROVE  OneUserInv'
<1>1. UserNow' = UserNow /\ GrantsNow' = GrantsNow
    BY DEF UserNow, GrantsNow, UR!Gone, UR!NotFound
<1>2. Current(x5, "user", UserNow, x4.user)' = Current(x5, "user", UserNow, x4.user)
    BY <1>1 DEF Current, Youngest
<1>3. Current(x5, "grants", GrantsNow, [list |-> x4.grants])' = Current(x5, "grants", GrantsNow, [list |-> x4.grants])
    BY <1>1 DEF Current, Youngest
<1> QED BY <1>2, <1>3 DEF OneUserInv

LEMMA OneUserEdits ==
    ASSUME OneUserInv, UR!Edit \/ UR!FlagKnown \/ UR!Start
    PROVE  OneUserInv'
<1>1. PICK p : /\ p = x4
               /\ p = [user |-> p.user, grants |-> p.grants, net |-> p.net, loading |-> p.loading, managed |-> p.managed,
                       left |-> p.left]
    BY DEF OneUserInv, OneUserOK, RowOK
<1>2. UNCHANGED <<x1, x2, x5, x7>>
    BY DEF UR!Edit, UR!FlagKnown, UR!Start
<1>3. CASE UR!Edit \/ UR!FlagKnown
  <2>1. x6' = x6 /\ ((\E n : x4' = [p EXCEPT !.net = n]) \/ x4' = [p EXCEPT !.managed = x3])
    BY <1>1, <1>3 DEF UR!Edit, UR!FlagKnown
  <2>2. /\ x4' = [user |-> p.user, grants |-> p.grants, net |-> x4'.net, loading |-> p.loading, managed |-> x4'.managed,
                  left |-> p.left]
    <3>1. ASSUME NEW n, x4' = [p EXCEPT !.net = n] PROVE <2>2!:
      <4>1. x4' = [user |-> p.user, grants |-> p.grants, net |-> n, loading |-> p.loading, managed |-> p.managed,
                   left |-> p.left]
        BY <1>1, <3>1
      <4> QED BY <4>1
    <3>2. CASE x4' = [p EXCEPT !.managed = x3]
      <4>1. x4' = [user |-> p.user, grants |-> p.grants, net |-> p.net, loading |-> p.loading, managed |-> x3,
                   left |-> p.left]
        BY <1>1, <3>2
      <4> QED BY <4>1
    <3> QED BY <2>1, <3>1, <3>2
  <2>3. OneUserOK'
    BY <1>2, <2>1, <2>2 DEF OneUserInv, OneUserOK, RowOK
  <2>4. UserOwed' = UserOwed /\ GrantsOwed' = GrantsOwed
    BY <2>1 DEF UserOwed, GrantsOwed
  <2> QED BY <1>1, <1>2, <2>2, <2>3, <2>4, OneUserStays
<1>4. CASE UR!Start
  <2>1. PICK o : o \notin DOMAIN x6 /\ x6' = [q \in DOMAIN x6 \cup {o} |-> IF q = o THEN "sent" ELSE x6[q]]
    BY <1>4 DEF UR!Start
  <2>2. x4' = x4
    BY <1>4 DEF UR!Start
  <2>3. OneUserOK'
    BY <1>2, <2>1, <2>2 DEF OneUserInv, OneUserOK, RowOK
  <2>4. (UserOwed => UserOwed') /\ (GrantsOwed => GrantsOwed')
    BY <2>1 DEF UserOwed, GrantsOwed
  <2> QED BY <1>2, <2>2, <2>3, <2>4, OneUserStays
<1> QED BY <1>3, <1>4

\* A route ends; what it has changed the page owes from then on.
LEMMA OneUserChanges ==
    ASSUME OneUserInv, NEW o \in DOMAIN x6, x6[o] = "sent", NEW step, x6' = [x6 EXCEPT ![o] = step],
           UNCHANGED <<x4, x5, x7>>,
           x1' = x1 \/ (step \in {"ok", "half"} /\ RowOK'),
           \/ x2' = x2 /\ (x1' = UR!Gone <=> x1 = UR!Gone)
           \/ step \in {"ok", "half"} /\ o.kind \in {"grant", "revoke", "delete"} /\ SequenceOK(x2')
    PROVE  OneUserInv'
<1>1. x6' = [q \in DOMAIN x6 |-> x6'[q]] /\ x6'[o] = step /\ \A q \in DOMAIN x6 \ {o} : x6'[q] = x6[q]
    BY DEF OneUserInv, OneUserOK, RowOK
<1>2. OneUserOK'
    BY <1>1 DEF OneUserInv, OneUserOK, RowOK
<1>3. (UserOwed => UserOwed') /\ (GrantsOwed => GrantsOwed')
    BY <1>1 DEF UserOwed, GrantsOwed
<1>4. UserOwed' \/ (x1' = x1 /\ UserNow' = UserNow)
    BY <1>1 DEF UserOwed, UserNow, UR!Gone, UR!NotFound
<1>5. GrantsOwed' \/ GrantsNow' = GrantsNow
  <2>1. CASE x2' = x2 /\ (x1' = UR!Gone <=> x1 = UR!Gone)
    BY <2>1 DEF GrantsNow, UR!Gone
  <2>2. CASE step \in {"ok", "half"} /\ o.kind \in {"grant", "revoke", "delete"}
    BY <1>1, <2>2 DEF GrantsOwed
  <2> QED BY <2>1, <2>2
<1>6. ~UserOwed' => Current(x5, "user", UserNow, x4.user)' = Current(x5, "user", UserNow, x4.user)
    BY <1>4 DEF Current, Youngest
<1>7. ~GrantsOwed' => Current(x5, "grants", GrantsNow, [list |-> x4.grants])'
                        = Current(x5, "grants", GrantsNow, [list |-> x4.grants])
    BY <1>5 DEF Current, Youngest
<1> QED BY <1>2, <1>3, <1>6, <1>7 DEF OneUserInv

LEMMA RowUpdates ==
    ASSUME RowOK, x1 # UR!Gone, NEW v,
           \/ x1' = [x1 EXCEPT !.cert = v] \/ x1' = [x1 EXCEPT !.ccd = v] \/ x1' = [x1 EXCEPT !.groups = v]
           \/ x1' = [x1 EXCEPT !.net = v] \/ x1' = [x1 EXCEPT !.enabled = TRUE, !.ccd = v]
    PROVE  RowOK' /\ x1' # UR!Gone
<1>1. PICK r : /\ r = x1 /\ r.enabled \in BOOLEAN
               /\ r = [cert |-> r.cert, ccd |-> r.ccd, enabled |-> r.enabled, groups |-> r.groups, net |-> r.net]
    BY DEF RowOK
<1>2. PICK n : /\ n = [cert |-> n.cert, ccd |-> n.ccd, enabled |-> n.enabled, groups |-> n.groups, net |-> n.net]
               /\ n.enabled \in BOOLEAN /\ n = x1'
  <2>1. CASE x1' = [r EXCEPT !.cert = v]
    <3>1. x1' = [cert |-> v, ccd |-> r.ccd, enabled |-> r.enabled, groups |-> r.groups, net |-> r.net]
      BY <1>1, <2>1
    <3> QED BY <1>1, <3>1
  <2>2. CASE x1' = [r EXCEPT !.ccd = v]
    <3>1. x1' = [cert |-> r.cert, ccd |-> v, enabled |-> r.enabled, groups |-> r.groups, net |-> r.net]
      BY <1>1, <2>2
    <3> QED BY <1>1, <3>1
  <2>3. CASE x1' = [r EXCEPT !.groups = v]
    <3>1. x1' = [cert |-> r.cert, ccd |-> r.ccd, enabled |-> r.enabled, groups |-> v, net |-> r.net]
      BY <1>1, <2>3
    <3> QED BY <1>1, <3>1
  <2>4. CASE x1' = [r EXCEPT !.net = v]
    <3>1. x1' = [cert |-> r.cert, ccd |-> r.ccd, enabled |-> r.enabled, groups |-> r.groups, net |-> v]
      BY <1>1, <2>4
    <3> QED BY <1>1, <3>1
  <2>5. CASE x1' = [r EXCEPT !.enabled = TRUE, !.ccd = v]
    <3>1. x1' = [cert |-> r.cert, ccd |-> v, enabled |-> TRUE, groups |-> r.groups, net |-> r.net]
      BY <1>1, <2>5
    <3> QED BY <3>1
  <2> QED BY <1>1, <2>1, <2>2, <2>3, <2>4, <2>5
<1>3. x1' # UR!Gone
  <2>1. "cert" \in DOMAIN n
    BY <1>2
  <2>2. "cert" \notin DOMAIN UR!Gone
    BY DEF UR!Gone
  <2> QED BY <1>2, <2>1, <2>2
<1> QED BY <1>2, <1>3 DEF RowOK

LEMMA OneUserRoutes ==
    ASSUME OneUserInv, NEW o \in DOMAIN x6,
           \/ UR!Refuse(o) \/ UR!Groups(o) \/ UR!Save(o) \/ UR!GrantTemporary(o) \/ UR!RevokeTemporary(o)
           \/ UR!Certificate(o) \/ UR!Delete(o)
    PROVE  OneUserInv'
<1>1. UNCHANGED <<x4, x5, x7>> /\ x6[o] = "sent"
    BY DEF UR!Refuse, UR!Groups, UR!Save, UR!GrantTemporary, UR!RevokeTemporary, UR!Certificate, UR!Delete,
           UR!Commit,
           UR!Fail, UR!Taken
<1>2. PICK n \in Nat : n = Len(x2) /\ x2 = [k \in 1 .. n |-> x2[k]]
    BY DEF OneUserInv, OneUserOK, SequenceOK
<1>3. SequenceOK(x2) /\ RowOK
    BY DEF OneUserInv, OneUserOK
<1>4. CASE UR!Refuse(o)
    BY <1>1, <1>4, OneUserChanges DEF UR!Refuse, UR!End
<1>5. CASE UR!Groups(o) \/ UR!Save(o) \/ UR!Certificate(o)
  <2>1. PICK step \in {"ok", "half"} : x6' = [x6 EXCEPT ![o] = step]
    BY <1>5 DEF UR!Groups, UR!Save, UR!Certificate, UR!Commit, UR!Fail, UR!End
  <2>2. /\ x1 # UR!Gone /\ x2' = x2
        /\ \E v : \/ x1' = [x1 EXCEPT !.cert = v] \/ x1' = [x1 EXCEPT !.ccd = v] \/ x1' = [x1 EXCEPT !.groups = v]
                  \/ x1' = [x1 EXCEPT !.net = v]
    BY <1>5 DEF UR!Groups, UR!Save, UR!Certificate, UR!Taken
  <2>3. RowOK' /\ x1' # UR!Gone
    BY <1>3, <2>2, RowUpdates
  <2>4. x1' = UR!Gone <=> x1 = UR!Gone
    BY <2>2, <2>3
  <2> QED BY <1>1, <2>1, <2>2, <2>3, <2>4, OneUserChanges
<1>6. CASE UR!GrantTemporary(o)
  <2>1. o.kind = "grant" /\ x1 # UR!Gone /\ \E v : x1' = [x1 EXCEPT !.enabled = TRUE, !.ccd = v]
    BY <1>6 DEF UR!GrantTemporary, UR!Taken
  <2>2. RowOK' /\ x1' # UR!Gone
    BY <1>3, <2>1, RowUpdates
  <2>3. x1' = UR!Gone <=> x1 = UR!Gone
    BY <2>1, <2>2
  <2>4. PICK step \in {"ok", "half"} : x6' = [x6 EXCEPT ![o] = step]
    BY <1>6 DEF UR!GrantTemporary, UR!Commit, UR!Fail, UR!End
  <2>5. x2' = x2 \/ \E g : x2' = Append(x2, g)
    BY <1>6 DEF UR!GrantTemporary
  <2>6. SequenceOK(x2')
    BY <1>3, <2>5, Appended
  <2> QED BY <1>1, <2>1, <2>2, <2>3, <2>4, <2>6, OneUserChanges
<1>7. CASE UR!RevokeTemporary(o)
  <2>1. PICK step \in {"ok", "half"} : x6' = [x6 EXCEPT ![o] = step]
    BY <1>7 DEF UR!RevokeTemporary, UR!Commit, UR!Fail, UR!End
  <2>2. o.kind = "revoke" /\ x1 # UR!Gone /\ \E v : x1' = [x1 EXCEPT !.ccd = v]
    BY <1>7 DEF UR!RevokeTemporary, UR!Taken
  <2>3. x2' = x2 \/ x2' = [x2 EXCEPT ![o.arg].active = FALSE]
    BY <1>7 DEF UR!RevokeTemporary
  <2>4. x2' = [k \in 1 .. n |-> x2'[k]]
    <3>1. CASE x2' = x2
      BY <1>2, <3>1
    <3>2. CASE x2' = [x2 EXCEPT ![o.arg].active = FALSE]
      BY <1>2, <3>2
    <3> QED BY <2>3, <3>1, <3>2
  <2>5. SequenceOK(x2')
    BY <2>4, QueueLength DEF SequenceOK
  <2>6. RowOK'
    BY <1>3, <2>2, RowUpdates
  <2> QED BY <1>1, <2>1, <2>2, <2>5, <2>6, OneUserChanges
<1>8. CASE UR!Delete(o)
  <2>1. PICK step \in {"ok", "half"} : x6' = [x6 EXCEPT ![o] = step]
    BY <1>8 DEF UR!Delete, UR!Commit, UR!End
  <2>2. o.kind = "delete" /\ x1' = UR!Gone /\ x2' = <<>>
    BY <1>8 DEF UR!Delete
  <2>3. RowOK'
    BY <2>2 DEF RowOK, UR!Gone
  <2>4. SequenceOK(x2')
    <3>1. x2' = <<>> /\ Len(x2') = 0 /\ x2' = [k \in 1 .. 0 |-> x2'[k]]
      BY <2>2
    <3> QED BY <3>1 DEF SequenceOK
  <2> QED BY <1>1, <2>1, <2>2, <2>3, <2>4, OneUserChanges
<1> QED BY <1>4, <1>5, <1>6, <1>7, <1>8

LEMMA UserRefetched ==
    ASSUME NEW o, NEW step
    PROVE  \/ /\ UR!Refetched(o.kind, step) = <<>>
              /\ step # "ok" \/ o.kind = "delete"
           \/ /\ UR!Refetched(o.kind, step) = <<[what |-> "user", answer |-> NotServed, late |-> FALSE]>>
              /\ o.kind \notin {"grant", "revoke", "delete"}
           \/ UR!Refetched(o.kind, step) = <<[what |-> "grants", answer |-> NotServed, late |-> FALSE],
                                             [what |-> "user", answer |-> NotServed, late |-> FALSE]>>
BY DEF UR!Refetched, UR!Fetch, UR!NoAnswer, NotServed

\* A handler ends, or its answer is lost.
LEMMA OneUserAnswered ==
    ASSUME OneUserInv, NEW o \in DOMAIN x6, UR!Answered(o) \/ UR!Lost(o)
    PROVE  OneUserInv'
<1>1. x6' = [q \in DOMAIN x6 \ {o} |-> x6[q]] /\ UNCHANGED <<x1, x2>>
    BY DEF UR!Answered, UR!Lost, UR!Forget
<1>2. x6' = [q \in DOMAIN x6' |-> x6'[q]] /\ DOMAIN x6' = DOMAIN x6 \ {o} /\ \A q \in DOMAIN x6' : x6'[q] = x6[q]
    BY <1>1
<1>3. RowOK' /\ SequenceOK(x2') /\ UserNow' = UserNow /\ GrantsNow' = GrantsNow
    BY <1>1 DEF OneUserInv, OneUserOK, RowOK, UR!Gone, UserNow, GrantsNow, UR!NotFound
<1>4. CASE UR!Lost(o)
  <2>1. x7' /\ UNCHANGED <<x4, x5>>
    BY <1>4 DEF UR!Lost
  <2>2. OneUserOK'
    BY <1>2, <1>3, <2>1 DEF OneUserInv, OneUserOK
  <2> QED BY <2>1, <2>2 DEF OneUserInv
<1>5. CASE UR!Answered(o)
  <2>1. PICK p : /\ p = x4
                 /\ p = [user |-> p.user, grants |-> p.grants, net |-> p.net, loading |-> p.loading,
                         managed |-> p.managed, left |-> p.left]
    BY DEF OneUserInv, OneUserOK
  <2>2. PICK R : R = UR!Refetched(o.kind, x6[o])
    OBVIOUS
  <2>3. /\ x5' = x5 \o R
        /\ \/ x4' = [p EXCEPT !.left = TRUE] \/ x4' = [p EXCEPT !.loading = TRUE] \/ x4' = p
        /\ o.kind = "delete" /\ x6[o] = "ok" => x4' = [p EXCEPT !.left = TRUE]
        /\ x7' = (x7 \/ UR!Unseen(o))
    BY <1>5, <2>1, <2>2 DEF UR!Answered
  <2>4. /\ x4' = [user |-> p.user, grants |-> p.grants, net |-> p.net, loading |-> x4'.loading, managed |-> p.managed,
                  left |-> x4'.left]
        /\ p.left => x4'.left /\ (o.kind = "delete" /\ x6[o] = "ok" => x4'.left)
    <3>1. CASE x4' = [p EXCEPT !.left = TRUE]
      <4>1. x4' = [user |-> p.user, grants |-> p.grants, net |-> p.net, loading |-> p.loading, managed |-> p.managed,
                   left |-> TRUE]
        BY <2>1, <3>1
      <4> QED BY <4>1
    <3>2. CASE x4' = [p EXCEPT !.loading = TRUE]
      <4>1. x4' = [user |-> p.user, grants |-> p.grants, net |-> p.net, loading |-> TRUE, managed |-> p.managed,
                   left |-> p.left]
        BY <2>1, <3>2
      <4>2. o.kind = "delete" /\ x6[o] = "ok" => x4'.left
        <5>1. ASSUME x4' = [p EXCEPT !.left = TRUE] PROVE x4'.left
          <6>1. x4' = [user |-> p.user, grants |-> p.grants, net |-> p.net, loading |-> p.loading, managed |-> p.managed,
                       left |-> TRUE]
            BY <2>1, <5>1
          <6> QED BY <6>1
        <5> QED BY <2>3, <5>1
      <4> QED BY <4>1, <4>2
    <3>3. CASE x4' = p
      <4>1. o.kind = "delete" /\ x6[o] = "ok" => x4'.left
        <5>1. ASSUME x4' = [p EXCEPT !.left = TRUE] PROVE x4'.left
          <6>1. x4' = [user |-> p.user, grants |-> p.grants, net |-> p.net, loading |-> p.loading, managed |-> p.managed,
                       left |-> TRUE]
            BY <2>1, <5>1
          <6> QED BY <6>1
        <5> QED BY <2>3, <5>1
      <4> QED BY <2>1, <3>3, <4>1
    <3> QED BY <2>3, <3>1, <3>2, <3>3
  <2>5. /\ x4'.user = x4.user /\ x4'.grants = x4.grants
        /\ x4' = [user |-> x4'.user, grants |-> x4'.grants, net |-> x4'.net, loading |-> x4'.loading,
                  managed |-> x4'.managed, left |-> x4'.left]
    BY <2>1, <2>4
  <2>6. /\ QueueOK(x5) /\ Kinds(x5, {"user", "grants"}) /\ LateAreFirst(x5, "user") /\ LateAreFirst(x5, "grants")
        /\ SequenceOK(x5)
    BY DEF OneUserInv, OneUserOK, QueueOK
  <2>7. ASSUME x6[o] \notin {"ok", "half"} PROVE UserOwed' = UserOwed /\ GrantsOwed' = GrantsOwed
    BY <1>2, <2>7 DEF UserOwed, GrantsOwed
  <2>8. CASE R = <<>> /\ (x6[o] # "ok" \/ o.kind = "delete")
    <3>1. x5' = x5
      BY <2>3, <2>6, <2>8, Concatenated
    <3>2. OneUserOK'
      BY <1>2, <1>3, <2>5, <2>6, <3>1 DEF OneUserOK
    <3>3. ~x7' /\ ~x4'.left => ~x7 /\ ~x4.left /\ x6[o] \notin {"ok", "half"}
      BY <2>1, <2>2, <2>3, <2>4, <2>8 DEF UR!Unseen
    <3> QED BY <1>1, <2>5, <2>7, <3>1, <3>2, <3>3, OneUserStays
  <2>9. CASE /\ R = <<[what |-> "user", answer |-> NotServed, late |-> FALSE]>>
             /\ o.kind \notin {"grant", "revoke", "delete"}
    <3>1. x5' = Append(x5, [what |-> "user", answer |-> NotServed, late |-> FALSE])
      BY <2>3, <2>6, <2>9, Concatenated
    <3>2. /\ QueueOK(x5') /\ Kinds(x5', {"user", "grants"})
          /\ LateAreFirst(x5', "user") /\ LateAreFirst(x5', "grants")
          /\ \A v, s : Current(x5', "user", v, s)
          /\ \A v, s : Current(x5, "grants", v, s) => Current(x5', "grants", v, s)
      BY <2>6, <3>1, Asked
    <3>3. OneUserOK'
      BY <1>2, <1>3, <2>5, <3>2 DEF OneUserOK
    <3>4. GrantsOwed' = GrantsOwed
      BY <1>2, <2>9 DEF GrantsOwed
    <3>5. ~x7' /\ ~x4'.left => ~x7 /\ ~x4.left
      BY <2>1, <2>3, <2>4
    <3> QED BY <1>3, <2>5, <3>2, <3>3, <3>4, <3>5 DEF OneUserInv
  <2>10. CASE R = <<[what |-> "grants", answer |-> NotServed, late |-> FALSE],
                    [what |-> "user", answer |-> NotServed, late |-> FALSE]>>
    <3>0. PICK c, d : /\ c = [what |-> "grants", answer |-> NotServed, late |-> FALSE]
                      /\ d = [what |-> "user", answer |-> NotServed, late |-> FALSE]
      OBVIOUS
    <3>1. PICK f : f = Append(x5, c)
      OBVIOUS
    <3>2. x5' = Append(f, d)
      <4>1. x5' = x5 \o <<c, d>>
        BY <2>3, <2>10, <3>0
      <4> QED BY <2>6, <3>1, <4>1, Concatenated
    <3>3. /\ QueueOK(f) /\ Kinds(f, {"user", "grants"}) /\ LateAreFirst(f, "user") /\ LateAreFirst(f, "grants")
          /\ \A v, s : Current(f, "grants", v, s)
      BY <2>6, <3>0, <3>1, Asked
    <3>4. /\ QueueOK(x5') /\ Kinds(x5', {"user", "grants"})
          /\ LateAreFirst(x5', "user") /\ LateAreFirst(x5', "grants")
          /\ \A v, s : Current(x5', "user", v, s) /\ Current(x5', "grants", v, s)
      BY <3>0, <3>2, <3>3, Asked
    <3>5. OneUserOK'
      BY <1>2, <1>3, <2>5, <3>4 DEF OneUserOK
    <3> QED BY <3>4, <3>5 DEF OneUserInv
  <2> QED BY <2>2, <2>8, <2>9, <2>10, UserRefetched
<1> QED BY <1>4, <1>5

\* A fetch is served, and its answer arrives, or does not.
LEMMA OneUserFetches ==
    ASSUME OneUserInv, NEW i \in DOMAIN x5, UR!Serve(i) \/ UR!Arrive(i) \/ UR!ArriveNot(i)
    PROVE  OneUserInv'
<1>1. PICK n \in Nat : n = Len(x5) /\ i \in 1 .. n
    BY QueueLength DEF OneUserInv, OneUserOK, QueueOK, SequenceOK
<1>2. /\ QueueOK(x5) /\ Kinds(x5, {"user", "grants"}) /\ LateAreFirst(x5, "user") /\ LateAreFirst(x5, "grants")
      /\ x5[i].what \in {"user", "grants"}
    BY <1>1 DEF OneUserInv, OneUserOK, Kinds
<1>3. UNCHANGED <<x1, x2, x6>>
    BY DEF UR!Serve, UR!Arrive, UR!ArriveNot
<1>4. /\ UserOwed' = UserOwed /\ GrantsOwed' = GrantsOwed /\ UserNow' = UserNow /\ GrantsNow' = GrantsNow
      /\ RowOK' /\ SequenceOK(x2')
    BY <1>3 DEF UserOwed, GrantsOwed, UserNow, GrantsNow, UR!Gone, UR!NotFound, OneUserInv, OneUserOK, RowOK
<1>5. PICK p : /\ p = x4
               /\ p = [user |-> p.user, grants |-> p.grants, net |-> p.net, loading |-> p.loading,
                       managed |-> p.managed, left |-> p.left]
    BY DEF OneUserInv, OneUserOK
<1>6. CASE UR!Serve(i)
  <2>1. PICK a : a = IF x5[i].what = "user" THEN UserNow ELSE GrantsNow
    OBVIOUS
  <2>2. x5' = [x5 EXCEPT ![i].answer = a] /\ UNCHANGED <<x4, x7>>
    BY <1>6, <2>1 DEF UR!Serve, UserNow, GrantsNow
  <2>3. /\ QueueOK(x5') /\ Kinds(x5', {"user", "grants"})
        /\ LateAreFirst(x5', "user") /\ LateAreFirst(x5', "grants")
        /\ \A s : Current(x5, "user", UserNow, s) => Current(x5', "user", UserNow, s)
        /\ \A s : Current(x5, "grants", GrantsNow, s) => Current(x5', "grants", GrantsNow, s)
    BY <1>1, <1>2, <2>1, <2>2, Served
  <2>4. OneUserOK'
    BY <1>3, <1>4, <2>2, <2>3 DEF OneUserInv, OneUserOK
  <2> QED BY <1>4, <2>2, <2>3, <2>4 DEF OneUserInv
<1>7. CASE UR!Arrive(i)
  <2>1. PICK a : a = x5[i].answer
    OBVIOUS
  <2>2. /\ a # NotServed /\ x7' = (x7 \/ x5[i].late)
        /\ x4' = IF x5[i].what = "grants" THEN [p EXCEPT !.grants = a.list]
                 ELSE [p EXCEPT !.user = a, !.loading = FALSE, !.net = IF a = UR!NotFound THEN @ ELSE a.net]
    BY <1>5, <1>7, <2>1 DEF UR!Arrive, UR!NoAnswer, NotServed
  <2>3. x5' = [k \in 1 .. n - 1 |-> IF k < i THEN [x5[k] EXCEPT !.late = @ \/ x5[k].what = x5[i].what]
                                             ELSE x5[k + 1]]
    BY <1>1, <1>7 DEF UR!Arrive
  <2>4. /\ QueueOK(x5') /\ Kinds(x5', {"user", "grants"})
        /\ LateAreFirst(x5', "user") /\ LateAreFirst(x5', "grants")
        /\ x5[i].what # "user" => \A v, s : Current(x5, "user", v, s) => Current(x5', "user", v, s)
        /\ x5[i].what # "grants" => \A v, s : Current(x5, "grants", v, s) => Current(x5', "grants", v, s)
        /\ ~x5[i].late => \A v, s : Current(x5, x5[i].what, v, s) => Current(x5', x5[i].what, v, a)
    BY <1>1, <1>2, <2>1, <2>2, <2>3, Arrived
  <2>5. CASE x5[i].what = "grants"
    <3>1. x4' = [user |-> p.user, grants |-> a.list, net |-> p.net, loading |-> p.loading, managed |-> p.managed,
                 left |-> p.left]
      BY <1>5, <2>2, <2>5
    <3>2. OneUserOK'
      <4>1. /\ x4' = [user |-> x4'.user, grants |-> x4'.grants, net |-> x4'.net, loading |-> x4'.loading,
                      managed |-> x4'.managed, left |-> x4'.left]
            /\ x6' = [o \in DOMAIN x6' |-> x6'[o]]
        BY <1>3, <3>1 DEF OneUserInv, OneUserOK
      <4> QED BY <1>4, <2>4, <4>1 DEF OneUserOK
    <3>3. x4'.user = x4.user /\ x4'.grants = a.list /\ x4'.left = x4.left
      BY <1>5, <3>1
    <3>4. ASSUME Current(x5', "grants", GrantsNow, a) PROVE Current(x5', "grants", GrantsNow, [list |-> a.list])
      <4>1. a = GrantsNow => [list |-> a.list] = GrantsNow
        BY DEF GrantsNow
      <4> QED BY <3>4, <4>1, ShownAs
    <3> QED BY <1>4, <2>2, <2>4, <2>5, <3>2, <3>3, <3>4 DEF OneUserInv
  <2>6. CASE x5[i].what = "user"
    <3>1. PICK m : m = IF a = UR!NotFound THEN p.net ELSE a.net
      OBVIOUS
    <3>2. x4' = [user |-> a, grants |-> p.grants, net |-> m, loading |-> FALSE, managed |-> p.managed, left |-> p.left]
      <4>1. PICK q : q = [p EXCEPT !.user = a]
        OBVIOUS
      <4>2. q = [user |-> a, grants |-> p.grants, net |-> p.net, loading |-> p.loading, managed |-> p.managed,
                 left |-> p.left]
        BY <1>5, <4>1
      <4>3. PICK r : r = [q EXCEPT !.loading = FALSE]
        OBVIOUS
      <4>4. r = [user |-> a, grants |-> p.grants, net |-> p.net, loading |-> FALSE, managed |-> p.managed,
                 left |-> p.left]
        BY <4>2, <4>3
      <4>5. x4' = [r EXCEPT !.net = m]
        BY <2>2, <2>6, <3>1, <4>1, <4>3, <4>4
      <4> QED BY <4>4, <4>5
    <3>3. OneUserOK'
      <4>1. /\ x4' = [user |-> x4'.user, grants |-> x4'.grants, net |-> x4'.net, loading |-> x4'.loading,
                      managed |-> x4'.managed, left |-> x4'.left]
            /\ x6' = [o \in DOMAIN x6' |-> x6'[o]]
        BY <1>3, <3>2 DEF OneUserInv, OneUserOK
      <4> QED BY <1>4, <2>4, <4>1 DEF OneUserOK
    <3>4. x4'.user = a /\ x4'.grants = x4.grants /\ x4'.left = x4.left
      BY <1>5, <3>2
    <3> QED BY <1>4, <2>2, <2>4, <2>6, <3>3, <3>4 DEF OneUserInv
  <2> QED BY <1>2, <2>5, <2>6
<1>8. CASE UR!ArriveNot(i)
  <2>1. x7' /\ x5' = SubSeq(x5, 1, i - 1) \o SubSeq(x5, i + 1, Len(x5))
    BY <1>8 DEF UR!ArriveNot, UR!RemoveAt
  <2>2. /\ QueueOK(x5') /\ Kinds(x5', {"user", "grants"})
        /\ LateAreFirst(x5', "user") /\ LateAreFirst(x5', "grants")
    BY <1>1, <1>2, <2>1, Failed
  <2>3. x4' = [p EXCEPT !.grants = <<>>] \/ x4' = [p EXCEPT !.user = UR!Nobody, !.loading = FALSE]
    BY <1>5, <1>8 DEF UR!ArriveNot
  <2>4. \/ x4' = [user |-> p.user, grants |-> <<>>, net |-> p.net, loading |-> p.loading, managed |-> p.managed,
                  left |-> p.left]
        \/ x4' = [user |-> UR!Nobody, grants |-> p.grants, net |-> p.net, loading |-> FALSE, managed |-> p.managed,
                  left |-> p.left]
    <3>1. CASE x4' = [p EXCEPT !.grants = <<>>]
      BY <1>5, <3>1
    <3>2. CASE x4' = [p EXCEPT !.user = UR!Nobody, !.loading = FALSE]
      BY <1>5, <3>2
    <3> QED BY <2>3, <3>1, <3>2
  <2>5. x4' = [user |-> x4'.user, grants |-> x4'.grants, net |-> x4'.net, loading |-> x4'.loading,
               managed |-> x4'.managed, left |-> x4'.left]
    BY <2>4
  <2>6. OneUserOK'
    <3>1. x6' = [o \in DOMAIN x6' |-> x6'[o]]
      BY <1>3 DEF OneUserInv, OneUserOK
    <3> QED BY <1>4, <2>2, <2>5, <3>1 DEF OneUserOK
  <2> QED BY <2>1, <2>6 DEF OneUserInv
<1> QED BY <1>6, <1>7, <1>8

LEMMA OneUserStep == OneUserInv /\ [UR!Next]_(UR!vars) => OneUserInv'
<1> SUFFICES ASSUME OneUserInv, [UR!Next]_(UR!vars) PROVE OneUserInv'
    OBVIOUS
<1>1. CASE UNCHANGED UR!vars
  <2>1. UNCHANGED <<x1, x2, x4, x5, x6, x7>>
    BY <1>1 DEF UR!vars
  <2>2. OneUserOK' /\ UserOwed' = UserOwed /\ GrantsOwed' = GrantsOwed
    BY <2>1 DEF OneUserInv, OneUserOK, RowOK, UR!Gone, UserOwed, GrantsOwed
  <2> QED BY <2>1, <2>2, OneUserStays
<1>2. CASE UR!Next
  <2>1. CASE UR!Edit \/ UR!FlagKnown \/ UR!Start
    BY <2>1, OneUserEdits
  <2>2. ASSUME NEW o \in DOMAIN x6,
               \/ UR!Answered(o) \/ UR!Lost(o) \/ UR!Refuse(o) \/ UR!Groups(o) \/ UR!Save(o)
               \/ UR!GrantTemporary(o) \/ UR!RevokeTemporary(o) \/ UR!Certificate(o) \/ UR!Delete(o)
        PROVE  OneUserInv'
    BY <2>2, OneUserRoutes, OneUserAnswered
  <2>3. ASSUME NEW i \in DOMAIN x5, UR!Serve(i) \/ UR!Arrive(i) \/ UR!ArriveNot(i) PROVE OneUserInv'
    BY <2>3, OneUserFetches
  <2> QED BY <1>2, <2>1, <2>2, <2>3 DEF UR!Next
<1> QED BY <1>1, <1>2

LEMMA OneUserProperty == OneUserInv => UR!ShownIsCurrent
<1> SUFFICES ASSUME OneUserInv, x5 = <<>>, DOMAIN x6 = {}, UR!Shows # "users", ~x7
             PROVE  x4.user = UserNow /\ (x1 # UR!Gone => UR!History \o UR!Latest = x2)
    BY DEF UR!ShownIsCurrent, UR!Quiet, UserNow
<1>1. Len(x5) = 0 /\ 1 .. 0 = {} /\ ~UserOwed /\ ~GrantsOwed
    BY DEF UserOwed, GrantsOwed
<1>2. ~x4.left
    BY DEF UR!Shows
<1>3. x4.user = UserNow /\ [list |-> x4.grants] = GrantsNow
    BY <1>1, <1>2 DEF OneUserInv, Current
<1>4. ASSUME x1 # UR!Gone PROVE UR!History \o UR!Latest = x2
  <2>1. x4.grants = x2
    BY <1>3, <1>4 DEF GrantsNow
  <2>2. SequenceOK(x2)
    BY DEF OneUserInv, OneUserOK
  <2>3. CASE x2 = <<>>
    <3>1. UR!History = <<>> /\ UR!Latest = <<>>
      BY <2>1, <2>3 DEF UR!History, UR!Latest
    <3>2. x2 \o <<>> = x2
      BY <2>2, Concatenated
    <3> QED BY <2>3, <3>1, <3>2
  <2>4. CASE x2 # <<>>
    <3>1. UR!History = SubSeq(x2, 1, Len(x2) - 1) /\ UR!Latest = <<x2[Len(x2)]>>
      BY <2>1, <2>4 DEF UR!History, UR!Latest, UR!Front, UR!Last
    <3> QED BY <2>2, <2>4, <3>1, FrontAndLast
  <2> QED BY <2>3, <2>4
<1> QED BY <1>3, <1>4

-----------------------------------------------------------------------------
(* The page /admin.  Its variables are x1 for accounts, x2 for session, x3   *)
(* for page, x4 for fetches, x5 for calls and x6 for torn.                 *)

AccountOK(a) ==
    \/ a \in {AD!Unborn, AD!Gone}
    \/ a = [approved |-> a.approved, role |-> a.role, mfa |-> a.mfa] /\ a.approved \in BOOLEAN
\* An account that has been approved stays so until it is removed.
Admitted(i) == i \in 1 .. MaxAccount /\ (x1[i] = AD!Gone \/ (AD!Exists(i) /\ x1[i].approved))
Told(list) == \A i \in DOMAIN list : list[i].approved => Admitted(i)

CallOK(c) ==
    /\ c = [kind |-> c.kind, ids |-> c.ids, role |-> c.role, left |-> c.left, outcome |-> c.outcome, heard |-> c.heard]
    /\ c.left \subseteq c.ids /\ c.outcome \in {"ok", "refused", "half"} /\ c.heard \in BOOLEAN
    /\ c.left = c.ids => c.outcome = "ok"
    /\ c.kind \notin AD!Bulk => \E i : c.ids = {i}
    /\ c.kind = "remove" => \A i \in c.ids : Admitted(i)
DialogOK(d) ==
    /\ d.kind \in AD!Bulk \/ d = AD!NoDialog \/ \E i : d.ids = {i}
    /\ d.kind = "remove" => \A i \in d.ids : Admitted(i)

AccountsOK == x1 = [i \in 1 .. MaxAccount |-> x1[i]] /\ \A i \in 1 .. MaxAccount : AccountOK(x1[i])
AskedOK(f) ==
    /\ QueueOK(f) /\ Kinds(f, {"list", "count"}) /\ LateAreFirst(f, "list") /\ LateAreFirst(f, "count")
    /\ \A k \in 1 .. Len(f) : f[k].what = "list" /\ f[k].answer # NotServed => Told(f[k].answer.list)
AdminCallsOK == SequenceOK(x5) /\ \A k \in 1 .. Len(x5) : CallOK(x5[k])
AdminPageOK ==
    /\ x3 = [list |-> x3.list, loading |-> x3.loading, picked |-> x3.picked, dialog |-> x3.dialog, count |-> x3.count]
    /\ DialogOK(x3.dialog) /\ Told(x3.list)
AdminOK == AccountsOK /\ x2 \in BOOLEAN /\ AdminPageOK /\ AskedOK(x4) /\ AdminCallsOK

\* Calls after whose answer the list, and the count, will be fetched.
Awaited(c) == c.left # c.ids /\ (c.kind \in AD!Bulk \cup {"role"} \/ c.outcome # "refused")
Recounted == AD!Bulk \cup {"approve", "reject"}
ListOwed == \E k \in 1 .. Len(x5) : Awaited(x5[k])
CountOwed == \E k \in 1 .. Len(x5) : Awaited(x5[k]) /\ x5[k].kind \in Recounted
ListNow == [list |-> AD!Listed]
CountNow == [count |-> AD!Counted]
AdminInv ==
    /\ AdminOK
    /\ ~x6 => /\ \A k \in 1 .. Len(x5) : x5[k].heard
              /\ ~ListOwed => Current(x4, "list", ListNow, [list |-> x3.list])
              /\ x2 /\ ~CountOwed => Current(x4, "count", CountNow, [count |-> x3.count])

LEMMA AdminInit == AD!Init => AdminInv
<1> SUFFICES ASSUME AD!Init PROVE AdminInv
    OBVIOUS
<1>1. x4 = <<[what |-> "list", answer |-> NotServed, late |-> FALSE],
             [what |-> "count", answer |-> NotServed, late |-> FALSE]>>
    BY DEF AD!Init, AD!Fetch, AD!NoAnswer, NotServed
<1>2. /\ QueueOK(x4) /\ LateAreFirst(x4, "list") /\ LateAreFirst(x4, "count") /\ Kinds(x4, {"list", "count"})
      /\ Current(x4, "list", ListNow, [list |-> x3.list]) /\ Current(x4, "count", CountNow, [count |-> x3.count])
    BY <1>1, AskedBoth
<1>3. AskedOK(x4)
  <2>1. Len(x4) = 2 /\ x4[1].answer = NotServed /\ x4[2].answer = NotServed
    BY <1>1
  <2>2. \A k \in 1 .. Len(x4) : x4[k].answer = NotServed
    BY <2>1
  <2> QED BY <1>2, <2>2 DEF AskedOK
<1>4. x3 = [list |-> <<>>, loading |-> TRUE, picked |-> {}, dialog |-> AD!NoDialog, count |-> 0]
    BY DEF AD!Init
<1>5. AdminPageOK
  <2>1. DialogOK(x3.dialog)
    BY <1>4 DEF DialogOK, AD!NoDialog
  <2>2. Told(x3.list)
    BY <1>4 DEF Told
  <2> QED BY <1>4, <2>1, <2>2 DEF AdminPageOK
<1>6. Len(x5) = 0 /\ AdminCallsOK
  <2>1. x5 = <<>> /\ Len(x5) = 0 /\ x5 = [k \in 1 .. 0 |-> x5[k]] /\ 1 .. 0 = {}
    BY DEF AD!Init
  <2> QED BY <2>1 DEF AdminCallsOK, SequenceOK
<1>7. AccountsOK
  <2>1. x1 = [i \in 1 .. MaxAccount |->
                IF i = AD!Me THEN [approved |-> TRUE, role |-> "ADMIN", mfa |-> TRUE]
                ELSE IF i \in Applicant THEN [approved |-> FALSE, role |-> "VIEWER", mfa |-> FALSE]
                ELSE AD!Unborn]
    BY DEF AD!Init
  <2>2. ASSUME NEW i \in 1 .. MaxAccount PROVE AccountOK(x1[i])
    <3>1. \/ x1[i] = [approved |-> TRUE, role |-> "ADMIN", mfa |-> TRUE]
          \/ x1[i] = [approved |-> FALSE, role |-> "VIEWER", mfa |-> FALSE]
          \/ x1[i] = AD!Unborn
      BY <2>1
    <3>2. CASE x1[i] = [approved |-> TRUE, role |-> "ADMIN", mfa |-> TRUE]
      <4>1. PICK a : a = x1[i]
        OBVIOUS
      <4>2. a = [approved |-> TRUE, role |-> "ADMIN", mfa |-> TRUE]
        BY <3>2, <4>1
      <4>3. a = [approved |-> a.approved, role |-> a.role, mfa |-> a.mfa] /\ a.approved \in BOOLEAN
        BY <4>2
      <4> QED BY <4>1, <4>3 DEF AccountOK
    <3>3. CASE x1[i] = [approved |-> FALSE, role |-> "VIEWER", mfa |-> FALSE]
      <4>1. PICK a : a = x1[i]
        OBVIOUS
      <4>2. a = [approved |-> FALSE, role |-> "VIEWER", mfa |-> FALSE]
        BY <3>3, <4>1
      <4>3. a = [approved |-> a.approved, role |-> a.role, mfa |-> a.mfa] /\ a.approved \in BOOLEAN
        BY <4>2
      <4> QED BY <4>1, <4>3 DEF AccountOK
    <3>4. CASE x1[i] = AD!Unborn
      BY <3>4 DEF AccountOK
    <3> QED BY <3>1, <3>2, <3>3, <3>4
  <2> QED BY <2>1, <2>2 DEF AccountsOK
<1>8. x2 \in BOOLEAN
    BY DEF AD!Init
<1> QED BY <1>2, <1>3, <1>5, <1>6, <1>7, <1>8 DEF AdminInv, AdminOK

\* The accounts, the fetches and what is shown stay.
LEMMA AdminStays ==
    ASSUME AdminInv, UNCHANGED <<x1, x2, x4, x3.list, x3.count>>, AdminPageOK', AdminCallsOK',
           ~x6' => /\ ~x6 /\ (ListOwed => ListOwed') /\ (CountOwed => CountOwed')
                   /\ (\A k \in 1 .. Len(x5) : x5[k].heard) => \A k \in 1 .. Len(x5') : x5'[k].heard
    PROVE  AdminInv'
<1>1. ListNow' = ListNow /\ CountNow' = CountNow
    BY DEF ListNow, CountNow, AD!Listed, AD!Counted, AD!Exists, AD!Waiting
<1>2. Current(x4, "list", ListNow, [list |-> x3.list])' = Current(x4, "list", ListNow, [list |-> x3.list])
    BY <1>1 DEF Current, Youngest
<1>3. Current(x4, "count", CountNow, [count |-> x3.count])' = Current(x4, "count", CountNow, [count |-> x3.count])
    BY <1>1 DEF Current, Youngest
<1>4. AccountsOK' /\ AskedOK(x4)'
    BY ZenonT(30) DEF AdminInv, AdminOK, AccountsOK, AccountOK, AD!Unborn, AD!Gone, AskedOK, QueueOK, SequenceOK,
                      Kinds, LateAreFirst, Told, Admitted, AD!Exists
<1> QED BY <1>2, <1>3, <1>4 DEF AdminInv, AdminOK

\* What is pressed in the page itself.
LEMMA AdminPresses ==
    ASSUME AdminInv, AD!OpenDialog \/ AD!Cancel \/ AD!Tick \/ AD!TickAll
    PROVE  AdminInv'
<1>1. PICK p : /\ p = x3
               /\ p = [list |-> p.list, loading |-> p.loading, picked |-> p.picked, dialog |-> p.dialog,
                       count |-> p.count]
               /\ DialogOK(p.dialog) /\ Told(p.list)
    BY DEF AdminInv, AdminOK, AdminPageOK
<1>2. UNCHANGED <<x1, x2, x4, x5, x6>>
    BY DEF AD!OpenDialog, AD!Cancel, AD!Tick, AD!TickAll
<1>3. AdminCallsOK' /\ ListOwed' = ListOwed /\ CountOwed' = CountOwed
    BY <1>2 DEF AdminInv, AdminOK, AdminCallsOK, CallOK, SequenceOK, AD!Bulk, Admitted, AD!Gone, AD!Exists, AD!Unborn,
                ListOwed, CountOwed, Awaited, Recounted
<1>4. ASSUME NEW d, DialogOK(d), x3' = [p EXCEPT !.dialog = d] PROVE AdminInv'
  <2>1. x3' = [list |-> p.list, loading |-> p.loading, picked |-> p.picked, dialog |-> d, count |-> p.count]
    BY <1>1, <1>4
  <2>2. DialogOK(d)' /\ Told(p.list)'
    BY <1>1, <1>2, <1>4 DEF DialogOK, Told, Admitted, AD!Gone, AD!Exists, AD!Unborn, AD!Bulk, AD!NoDialog
  <2>3. AdminPageOK'
    BY <2>1, <2>2 DEF AdminPageOK
  <2> QED BY <1>1, <1>2, <1>3, <2>1, <2>3, AdminStays
<1>5. ASSUME NEW s, x3' = [p EXCEPT !.picked = s] PROVE AdminInv'
  <2>1. x3' = [list |-> p.list, loading |-> p.loading, picked |-> s, dialog |-> p.dialog, count |-> p.count]
    BY <1>1, <1>5
  <2>2. DialogOK(p.dialog)' /\ Told(p.list)'
    BY <1>1, <1>2 DEF DialogOK, Told, Admitted, AD!Gone, AD!Exists, AD!Unborn, AD!Bulk, AD!NoDialog
  <2>3. AdminPageOK'
    BY <2>1, <2>2 DEF AdminPageOK
  <2> QED BY <1>1, <1>2, <1>3, <2>1, <2>3, AdminStays
<1>6. CASE AD!OpenDialog
  <2>1. PICK d \in AD!Asks : x3' = [p EXCEPT !.dialog = d]
    BY <1>1, <1>6 DEF AD!OpenDialog
  <2>2. \/ d.kind = "remove" /\ \E i \in AD!Others : d.ids = {i}
        \/ d.kind = "reject" /\ \E i : d.ids = {i}
        \/ d.kind \in {"approve all", "reject all"}
    BY <2>1 DEF AD!Asks
  <2>3. \A i \in AD!Others : Admitted(i)
    BY <1>1 DEF AD!Others, AD!approvedUsers, Told
  <2>4. DialogOK(d)
    BY <2>2, <2>3 DEF DialogOK, AD!Bulk
  <2> QED BY <1>4, <2>1, <2>4
<1>7. CASE AD!Cancel
  <2>1. DialogOK(AD!NoDialog)
    BY DEF DialogOK, AD!NoDialog
  <2> QED BY <1>1, <1>4, <1>7, <2>1 DEF AD!Cancel
<1>8. CASE AD!Tick
  <2>1. \E s : x3' = [p EXCEPT !.picked = s]
    BY <1>1, <1>8 DEF AD!Tick
  <2> QED BY <1>5, <2>1
<1>9. CASE AD!TickAll
  <2>1. \E s : x3' = [p EXCEPT !.picked = s]
    BY <1>1, <1>9 DEF AD!TickAll
  <2> QED BY <1>5, <2>1
<1> QED BY <1>6, <1>7, <1>8, <1>9

\* What is known of a call does not depend on the browser.
LEMMA CallsKnown ==
    ASSUME UNCHANGED x1
    PROVE  /\ \A c : CallOK(c)' <=> CallOK(c)
           /\ \A d : DialogOK(d)' <=> DialogOK(d)
           /\ \A l : Told(l)' <=> Told(l)
           /\ \A f : AskedOK(f)' <=> AskedOK(f)
           /\ AccountsOK' <=> AccountsOK
BY DEF AccountsOK, AccountOK, AskedOK, CallOK, DialogOK, Told, Admitted, AD!Gone, AD!Exists, AD!Unborn, AD!Bulk, AD!NoDialog

\* A handler begins: nothing is changed yet.
LEMMA AdminSend ==
    ASSUME AdminInv, AD!Send
    PROVE  AdminInv'
<1>1. PICK c \in AD!Confirmed \cup AD!Unasked : x5' = Append(x5, c)
    BY DEF AD!Send
<1>2. UNCHANGED <<x1, x2, x3, x4, x6>>
    BY DEF AD!Send
<1>3. PICK what, ids, role :
        /\ c = [kind |-> what, ids |-> ids, role |-> role, left |-> ids, outcome |-> "ok", heard |-> TRUE]
        /\ what \notin AD!Bulk => \E i : ids = {i}
        /\ what = "remove" => \A i \in ids : Admitted(i)
  <2>1. CASE c \in AD!Confirmed
    <3>1. x3.dialog # AD!NoDialog /\ c = AD!Call(x3.dialog.kind, x3.dialog.ids, "none")
      BY <2>1 DEF AD!Confirmed
    <3>2. DialogOK(x3.dialog)
      BY DEF AdminInv, AdminOK, AdminPageOK
    <3> QED BY <3>1, <3>2 DEF AD!Call, DialogOK
  <2>2. CASE c \in AD!Unasked
    <3>1. \/ \E i, r : c = AD!Call("role", {i}, r)
          \/ \E i : c = AD!Call("mfa", {i}, "none")
          \/ \E i : c = AD!Call("password", {i}, "none")
          \/ \E i : c = AD!Call("approve", {i}, "none")
          \/ \E r : c = AD!Call("create", {0}, r)
      BY <2>2 DEF AD!Unasked
    <3>2. PICK what, i, role : /\ c = AD!Call(what, {i}, role)
                                /\ what \in {"role", "mfa", "password", "approve", "create"}
      BY <3>1
    <3>3. c = [kind |-> what, ids |-> {i}, role |-> role, left |-> {i}, outcome |-> "ok", heard |-> TRUE]
      BY <3>2 DEF AD!Call
    <3> QED BY <3>2, <3>3
  <2> QED BY <2>1, <2>2
<1>4. CallOK(c) /\ c.heard
    BY <1>3 DEF CallOK
<1>5. PICK n \in Nat : n = Len(x5) /\ SequenceOK(x5) /\ \A k \in 1 .. n : CallOK(x5[k])
    BY DEF AdminInv, AdminOK, AdminCallsOK, SequenceOK
<1>6. SequenceOK(x5') /\ Len(x5') = n + 1 /\ x5'[n + 1] = c /\ \A k \in 1 .. n : x5'[k] = x5[k]
    BY <1>1, <1>5, Appended
<1>7. ASSUME NEW k \in 1 .. n + 1 PROVE (k \in 1 .. n /\ x5'[k] = x5[k]) \/ x5'[k] = c
    BY <1>6
<1>8. \A k \in 1 .. n : k \in 1 .. n + 1
    OBVIOUS
<1>9. \A k \in 1 .. n + 1 : CallOK(x5'[k])
    BY <1>4, <1>5, <1>7
<1>10. AdminCallsOK'
    BY <1>2, <1>6, <1>9, CallsKnown DEF AdminCallsOK
<1>11. AdminPageOK'
    BY <1>2 DEF AdminInv, AdminOK, AdminPageOK, DialogOK, Told, Admitted, AD!Gone, AD!Exists, AD!Unborn, AD!Bulk,
                AD!NoDialog
<1>12. (ListOwed => ListOwed') /\ (CountOwed => CountOwed')
    BY <1>5, <1>6, <1>8 DEF ListOwed, CountOwed, Awaited, Recounted, AD!Bulk
<1>13. (\A k \in 1 .. Len(x5) : x5[k].heard) => \A k \in 1 .. Len(x5') : x5'[k].heard
    BY <1>4, <1>5, <1>6, <1>7
<1> QED BY <1>2, <1>10, <1>11, <1>12, <1>13, AdminStays

\* A connection is lost, and what nobody waits for ends.
LEMMA AdminLost ==
    ASSUME AdminInv, NEW i \in DOMAIN x5, AD!Lost(i) \/ AD!Forgotten(i)
    PROVE  AdminInv'
<1>1. UNCHANGED <<x1, x2, x3, x4>>
    BY DEF AD!Lost, AD!Forgotten
<1>2. PICK n \in Nat : /\ n = Len(x5) /\ SequenceOK(x5) /\ x5 = [k \in 1 .. n |-> x5[k]] /\ i \in 1 .. n
                       /\ \A k \in 1 .. n : CallOK(x5[k])
    BY QueueLength DEF AdminInv, AdminOK, AdminCallsOK, SequenceOK
<1>3. AdminPageOK'
    BY <1>1, CallsKnown DEF AdminInv, AdminOK, AdminPageOK
<1>4. x6'
    BY <1>2 DEF AD!Lost, AD!Forgotten, AdminInv
<1>5. AdminCallsOK'
  <2>1. CASE AD!Lost(i)
    <3>1. PICK c : /\ c = x5[i] /\ CallOK(c)
                   /\ c = [kind |-> c.kind, ids |-> c.ids, role |-> c.role, left |-> c.left, outcome |-> c.outcome,
                           heard |-> c.heard]
      BY <1>2 DEF CallOK
    <3>2. PICK d : d = [c EXCEPT !.heard = FALSE]
      OBVIOUS
    <3>3. d = [kind |-> c.kind, ids |-> c.ids, role |-> c.role, left |-> c.left, outcome |-> c.outcome,
               heard |-> FALSE]
      BY <3>1, <3>2
    <3>4. CallOK(d)
      BY <3>1, <3>3 DEF CallOK
    <3>5. x5' = [x5 EXCEPT ![i] = d]
      BY <2>1, <3>1, <3>2 DEF AD!Lost
    <3>6. x5' = [k \in 1 .. n |-> x5'[k]] /\ \A k \in 1 .. n : x5'[k] = IF k = i THEN d ELSE x5[k]
      BY <1>2, <3>5
    <3>7. SequenceOK(x5') /\ Len(x5') = n
      BY <3>6, QueueLength DEF SequenceOK
    <3> QED BY <1>1, <1>2, <3>4, <3>6, <3>7, CallsKnown DEF AdminCallsOK
  <2>2. CASE AD!Forgotten(i)
    <3>1. x5' = SubSeq(x5, 1, i - 1) \o SubSeq(x5, i + 1, Len(x5))
      BY <2>2 DEF AD!Forgotten, AD!RemoveAt
    <3>2. /\ SequenceOK(x5') /\ Len(x5') = n - 1
          /\ \A k \in 1 .. n - 1 : x5'[k] = IF k < i THEN x5[k] ELSE x5[k + 1]
      BY <1>2, <3>1, Removed
    <3>3. ASSUME NEW k \in 1 .. n - 1 PROVE CallOK(x5'[k])
      <4>1. k \in 1 .. n /\ k + 1 \in 1 .. n
        BY <1>2
      <4> QED BY <1>2, <3>2, <4>1
    <3> QED BY <1>1, <3>2, <3>3, CallsKnown DEF AdminCallsOK
  <2> QED BY <2>1, <2>2
<1> QED BY <1>1, <1>3, <1>4, <1>5, AdminStays

LEMMA AdminAsks ==
    ASSUME NEW f, AskedOK(f), NEW w \in {"list", "count"}
    PROVE  AskedOK(Append(f, [what |-> w, answer |-> NotServed, late |-> FALSE]))
<1>1. PICK c : c = [what |-> w, answer |-> NotServed, late |-> FALSE]
    OBVIOUS
<1>2. PICK g : g = Append(f, c)
    OBVIOUS
<1>3. PICK n \in Nat : n = Len(f)
    BY DEF AskedOK, QueueOK, SequenceOK
<1>4. /\ QueueOK(g) /\ Kinds(g, {"list", "count"}) /\ LateAreFirst(g, "list") /\ LateAreFirst(g, "count")
    BY <1>1, <1>2, Asked DEF AskedOK
<1>5. Len(g) = n + 1 /\ g[n + 1] = c /\ \A k \in 1 .. n : g[k] = f[k]
    BY <1>2, <1>3, Appended DEF AskedOK, QueueOK
<1>6. ASSUME NEW k \in 1 .. n + 1, g[k].what = "list", g[k].answer # NotServed PROVE Told(g[k].answer.list)
  <2>1. CASE k \in 1 .. n
    BY <1>3, <1>5, <1>6, <2>1 DEF AskedOK
  <2>2. CASE k = n + 1
    BY <1>1, <1>5, <1>6, <2>2
  <2> QED BY <2>1, <2>2
<1> QED BY <1>1, <1>2, <1>4, <1>5, <1>6 DEF AskedOK

LEMMA AdminRefetched ==
    ASSUME NEW what, NEW outcome
    PROVE  LET R == AD!Refetched(what, outcome) IN
           \/ R = <<>> /\ what \notin AD!Bulk \cup {"role"} /\ outcome # "ok"
           \/ R = <<[what |-> "list", answer |-> NotServed, late |-> FALSE]>> /\ what \notin Recounted
           \/ R = <<[what |-> "list", answer |-> NotServed, late |-> FALSE],
                    [what |-> "count", answer |-> NotServed, late |-> FALSE]>>
BY DEF AD!Refetched, AD!Fetch, AD!NoAnswer, NotServed, AD!Bulk, Recounted

\* A call that is over owes nothing but its own fetches.
LEMMA CallOver ==
    ASSUME AdminCallsOK, NEW i \in DOMAIN x5, x5' = AD!RemoveAt(x5, i), UNCHANGED x1
    PROVE  /\ AdminCallsOK' /\ i \in 1 .. Len(x5)
           /\ (\A k \in 1 .. Len(x5) : x5[k].heard) => \A k \in 1 .. Len(x5') : x5'[k].heard
           /\ ListOwed => ListOwed' \/ Awaited(x5[i])
           /\ CountOwed => CountOwed' \/ (Awaited(x5[i]) /\ x5[i].kind \in Recounted)
<1>1. PICK n \in Nat : /\ n = Len(x5) /\ SequenceOK(x5) /\ i \in 1 .. n
                       /\ \A k \in 1 .. n : CallOK(x5[k])
    BY QueueLength DEF AdminCallsOK, SequenceOK
<1>2. x5' = SubSeq(x5, 1, i - 1) \o SubSeq(x5, i + 1, Len(x5))
    BY DEF AD!RemoveAt
<1>3. /\ SequenceOK(x5') /\ Len(x5') = n - 1
      /\ \A k \in 1 .. n - 1 : x5'[k] = IF k < i THEN x5[k] ELSE x5[k + 1]
    BY <1>1, <1>2, Removed
<1>4. ASSUME NEW k \in 1 .. n - 1 PROVE \E j \in 1 .. n : x5'[k] = x5[j]
  <2>1. k \in 1 .. n /\ k + 1 \in 1 .. n
    BY <1>1
  <2> QED BY <1>3, <2>1
<1>5. ASSUME NEW k \in 1 .. n, k # i PROVE \E j \in 1 .. n - 1 : x5'[j] = x5[k]
  <2>1. CASE k < i
    <3>1. k \in 1 .. n - 1
      BY <1>1, <2>1
    <3> QED BY <1>3, <2>1, <3>1
  <2>2. CASE k > i
    <3>1. k - 1 \in 1 .. n - 1 /\ ~(k - 1 < i) /\ (k - 1) + 1 = k
      BY <1>1, <2>2
    <3> QED BY <1>3, <3>1
  <2> QED BY <1>1, <1>5, <2>1, <2>2
<1>6. AdminCallsOK'
    BY <1>1, <1>3, <1>4, CallsKnown DEF AdminCallsOK
<1>7. (\A k \in 1 .. n : x5[k].heard) => \A k \in 1 .. n - 1 : x5'[k].heard
    BY <1>4
<1>8. ASSUME ListOwed, ~Awaited(x5[i]) PROVE ListOwed'
  <2>1. PICK k \in 1 .. n : Awaited(x5[k])
    BY <1>1, <1>8 DEF ListOwed
  <2>2. k # i
    BY <1>8, <2>1
  <2>3. PICK j \in 1 .. n - 1 : x5'[j] = x5[k]
    BY <1>5, <2>2
  <2>4. Awaited(x5'[j])
    BY <2>1, <2>3
  <2> QED BY <1>3, <2>4 DEF ListOwed, Awaited, AD!Bulk
<1>9. ASSUME CountOwed, ~(Awaited(x5[i]) /\ x5[i].kind \in Recounted) PROVE CountOwed'
  <2>1. PICK k \in 1 .. n : Awaited(x5[k]) /\ x5[k].kind \in Recounted
    BY <1>1, <1>9 DEF CountOwed
  <2>2. k # i
    BY <1>9, <2>1
  <2>3. PICK j \in 1 .. n - 1 : x5'[j] = x5[k]
    BY <1>5, <2>2
  <2>4. Awaited(x5'[j]) /\ x5'[j].kind \in Recounted
    BY <2>1, <2>3
  <2> QED BY <1>3, <2>4 DEF CountOwed, Awaited, Recounted, AD!Bulk
<1> QED BY <1>1, <1>3, <1>6, <1>7, <1>8, <1>9

\* More is fetched, and what is shown stays.
LEMMA AdminFetchesMore ==
    ASSUME AdminInv, UNCHANGED <<x1, x2, x3.list, x3.count>>, AdminPageOK', AdminCallsOK',
           ~x6' => ~x6 /\ ((\A k \in 1 .. Len(x5) : x5[k].heard) => \A k \in 1 .. Len(x5') : x5'[k].heard),
           NEW P, P \in {{"list"}, {"count"}, {"list", "count"}},
           P = {"list"} => x4' = Append(x4, [what |-> "list", answer |-> NotServed, late |-> FALSE]),
           P = {"count"} => x4' = Append(x4, [what |-> "count", answer |-> NotServed, late |-> FALSE]),
           P = {"list", "count"} =>
              x4' = Append(Append(x4, [what |-> "list", answer |-> NotServed, late |-> FALSE]),
                           [what |-> "count", answer |-> NotServed, late |-> FALSE]),
           ~x6' /\ "list" \notin P => (ListOwed => ListOwed'),
           ~x6' /\ "count" \notin P => (CountOwed => CountOwed')
    PROVE  AdminInv'
<1>1. ListNow' = ListNow /\ CountNow' = CountNow
    BY DEF ListNow, CountNow, AD!Listed, AD!Counted, AD!Exists, AD!Waiting
<1>2. AskedOK(x4) /\ QueueOK(x4) /\ AccountsOK /\ x2 \in BOOLEAN
    BY DEF AdminInv, AdminOK, AskedOK
<1>3. AccountsOK'
    BY <1>2, CallsKnown
<1>4. CASE P = {"list"}
  <2>1. AskedOK(x4')
    BY <1>2, <1>4, AdminAsks
  <2>2. /\ \A v, t : Current(x4', "list", v, t)
        /\ \A v, t : Current(x4, "count", v, t) => Current(x4', "count", v, t)
    <3>1. x4' = Append(x4, [what |-> "list", answer |-> NotServed, late |-> FALSE])
      BY <1>4
    <3> QED BY <1>2, <3>1, Asked
  <2>3. AskedOK(x4)'
    BY <2>1, CallsKnown
  <2> QED BY <1>1, <1>2, <1>3, <1>4, <2>2, <2>3 DEF AdminInv, AdminOK
<1>5. CASE P = {"count"}
  <2>1. AskedOK(x4')
    BY <1>2, <1>5, AdminAsks
  <2>2. /\ \A v, t : Current(x4', "count", v, t)
        /\ \A v, t : Current(x4, "list", v, t) => Current(x4', "list", v, t)
    <3>1. x4' = Append(x4, [what |-> "count", answer |-> NotServed, late |-> FALSE])
      BY <1>5
    <3> QED BY <1>2, <3>1, Asked
  <2>3. AskedOK(x4)'
    BY <2>1, CallsKnown
  <2> QED BY <1>1, <1>2, <1>3, <1>5, <2>2, <2>3 DEF AdminInv, AdminOK
<1>6. CASE P = {"list", "count"}
  <2>1. PICK f : f = Append(x4, [what |-> "list", answer |-> NotServed, late |-> FALSE])
    OBVIOUS
  <2>2. AskedOK(f) /\ QueueOK(f) /\ \A v, t : Current(f, "list", v, t)
    BY <1>2, <2>1, AdminAsks, Asked DEF AskedOK
  <2>3. x4' = Append(f, [what |-> "count", answer |-> NotServed, late |-> FALSE])
    BY <1>6, <2>1
  <2>4. AskedOK(x4') /\ \A v, t : Current(x4', "count", v, t) /\ Current(x4', "list", v, t)
    BY <2>2, <2>3, AdminAsks, Asked
  <2>5. AskedOK(x4)'
    BY <2>4, CallsKnown
  <2> QED BY <1>1, <1>2, <1>3, <1>6, <2>4, <2>5 DEF AdminInv, AdminOK
<1> QED BY <1>4, <1>5, <1>6

LEMMA AdminInterval ==
    ASSUME AdminInv, AD!Interval
    PROVE  AdminInv'
<1>1. UNCHANGED <<x1, x2, x3, x5, x6>>
    BY DEF AD!Interval
<1>2. x4' = Append(x4, [what |-> "count", answer |-> NotServed, late |-> FALSE])
    BY DEF AD!Interval, AD!Fetch, AD!NoAnswer, NotServed
<1>3. AdminPageOK' /\ AdminCallsOK'
    BY <1>1, CallsKnown DEF AdminInv, AdminOK, AdminPageOK, AdminCallsOK, SequenceOK
<1>4. ListOwed' = ListOwed
    BY <1>1 DEF ListOwed, Awaited, AD!Bulk
<1>5. "list" \notin {"count"} /\ {"count"} # {"list"} /\ {"count"} # {"list", "count"} /\ "count" \in {"count"}
    OBVIOUS
<1> QED BY <1>1, <1>2, <1>3, <1>4, <1>5, AdminFetchesMore

\* A handler hears the answer to its call.
LEMMA AdminAnswered ==
    ASSUME AdminInv, NEW i \in DOMAIN x5, AD!Answered(i)
    PROVE  AdminInv'
<1>1. UNCHANGED <<x1, x2>> /\ x5' = AD!RemoveAt(x5, i)
    BY DEF AD!Answered
<1>2. /\ AdminCallsOK' /\ i \in 1 .. Len(x5)
      /\ (\A k \in 1 .. Len(x5) : x5[k].heard) => \A k \in 1 .. Len(x5') : x5'[k].heard
      /\ ListOwed => ListOwed' \/ Awaited(x5[i])
      /\ CountOwed => CountOwed' \/ (Awaited(x5[i]) /\ x5[i].kind \in Recounted)
    BY <1>1, CallOver DEF AdminInv, AdminOK
<1>3. PICK c : c = x5[i] /\ CallOK(c)
    BY <1>2 DEF AdminInv, AdminOK, AdminCallsOK
<1>4. PICK R : R = AD!Refetched(c.kind, c.outcome)
    OBVIOUS
<1>5. x4' = x4 \o R /\ x6' = (x6 \/ (c.outcome = "half" /\ R = <<>>))
  <2>1. x4' = x4 \o R
    BY <1>3, <1>4 DEF AD!Answered
  <2>2. x6' = (x6 \/ (c.outcome = "half" /\ AD!Refetched(c.kind, "half") = <<>>))
    BY <1>3 DEF AD!Answered
  <2>3. CASE c.outcome = "half"
    BY <1>4, <2>1, <2>2, <2>3
  <2>4. CASE c.outcome # "half"
    BY <2>1, <2>2, <2>4
  <2> QED BY <2>3, <2>4
<1>6. PICK p : /\ p = x3
               /\ p = [list |-> p.list, loading |-> p.loading, picked |-> p.picked, dialog |-> p.dialog,
                       count |-> p.count]
               /\ DialogOK(p.dialog) /\ Told(p.list)
    BY DEF AdminInv, AdminOK, AdminPageOK
<1>7. PICK s, d : /\ x3' = [p EXCEPT !.picked = s, !.dialog = d]
                  /\ d \in {AD!NoDialog, p.dialog}
    BY <1>3, <1>6 DEF AD!Answered
<1>8. x3' = [list |-> p.list, loading |-> p.loading, picked |-> s, dialog |-> d, count |-> p.count]
  <2>1. PICK q : q = [p EXCEPT !.picked = s]
    OBVIOUS
  <2>2. q = [list |-> p.list, loading |-> p.loading, picked |-> s, dialog |-> p.dialog, count |-> p.count]
    BY <1>6, <2>1
  <2>3. x3' = [q EXCEPT !.dialog = d]
    BY <1>7, <2>1
  <2> QED BY <2>2, <2>3
<1>9. UNCHANGED <<x3.list, x3.count>> /\ AdminPageOK'
  <2>1. DialogOK(AD!NoDialog)
    BY DEF DialogOK, AD!NoDialog
  <2>2. DialogOK(d)' /\ Told(p.list)'
    BY <1>1, <1>6, <1>7, <2>1, CallsKnown
  <2>3. /\ x3'.list = p.list /\ x3'.count = p.count /\ x3'.dialog = d
        /\ x3' = [list |-> x3'.list, loading |-> x3'.loading, picked |-> x3'.picked, dialog |-> x3'.dialog,
                  count |-> x3'.count]
    BY <1>8
  <2> QED BY <1>6, <2>2, <2>3 DEF AdminPageOK
<1>10. SequenceOK(x4)
    BY DEF AdminInv, AdminOK, AskedOK, QueueOK
<1>11. x6 => x6'
    BY <1>5
<1>12. CASE R = <<>> /\ c.kind \notin AD!Bulk \cup {"role"} /\ c.outcome # "ok"
  <2>1. x4' = x4
    BY <1>5, <1>10, <1>12, Concatenated
  <2>2. ~x6' => ~Awaited(c)
    BY <1>3, <1>5, <1>12 DEF CallOK, Awaited
  <2> QED BY <1>1, <1>2, <1>3, <1>9, <1>11, <2>1, <2>2, AdminStays
<1>13. CASE R = <<[what |-> "list", answer |-> NotServed, late |-> FALSE]>> /\ c.kind \notin Recounted
  <2>1. x4' = Append(x4, [what |-> "list", answer |-> NotServed, late |-> FALSE])
    BY <1>5, <1>10, <1>13, Concatenated
  <2>2. "count" \notin {"list"} /\ {"list"} # {"count"} /\ {"list"} # {"list", "count"} /\ "list" \in {"list"}
    OBVIOUS
  <2>3. CountOwed => CountOwed'
    BY <1>2, <1>3, <1>13
  <2> QED BY <1>1, <1>2, <1>9, <1>11, <2>1, <2>2, <2>3, AdminFetchesMore
<1>14. CASE R = <<[what |-> "list", answer |-> NotServed, late |-> FALSE],
                  [what |-> "count", answer |-> NotServed, late |-> FALSE]>>
  <2>0. PICK a, b : /\ a = [what |-> "list", answer |-> NotServed, late |-> FALSE]
                    /\ b = [what |-> "count", answer |-> NotServed, late |-> FALSE]
    OBVIOUS
  <2>1. x4' = Append(Append(x4, a), b)
    <3>1. x4' = x4 \o <<a, b>>
      BY <1>5, <1>14, <2>0
    <3> QED BY <1>10, <3>1, Concatenated
  <2>2. /\ "list" \in {"list", "count"} /\ "count" \in {"list", "count"}
        /\ {"list", "count"} # {"list"} /\ {"list", "count"} # {"count"}
    OBVIOUS
  <2> QED BY <1>1, <1>2, <1>9, <1>11, <2>0, <2>1, <2>2, AdminFetchesMore
<1> QED BY <1>4, <1>12, <1>13, <1>14, AdminRefetched

\* What the route gives is what is known of the accounts.
LEMMA ListedIsTold == Told(AD!Listed)
<1>1. CASE x2
  <2>1. AD!Listed = [i \in {j \in 1 .. MaxAccount : AD!Exists(j)} |-> x1[i]]
    BY <1>1 DEF AD!Listed
  <2>2. ASSUME NEW i \in DOMAIN AD!Listed, AD!Listed[i].approved PROVE Admitted(i)
    <3>1. i \in 1 .. MaxAccount /\ AD!Exists(i) /\ AD!Listed[i] = x1[i]
      BY <2>1
    <3> QED BY <2>2, <3>1 DEF Admitted
  <2> QED BY <2>2 DEF Told
<1>2. CASE ~x2
  <2>1. AD!Listed = <<>>
    BY <1>2 DEF AD!Listed
  <2> QED BY <2>1 DEF Told
<1> QED BY <1>1, <1>2

LEMMA AdminServe ==
    ASSUME AdminInv, NEW i \in DOMAIN x4, AD!Serve(i)
    PROVE  AdminInv'
<1>1. UNCHANGED <<x1, x2, x3, x5, x6>>
    BY DEF AD!Serve
<1>2. AskedOK(x4) /\ QueueOK(x4) /\ Kinds(x4, {"list", "count"}) /\ LateAreFirst(x4, "list") /\ LateAreFirst(x4, "count")
    BY DEF AdminInv, AdminOK, AskedOK
<1>3. PICK n \in Nat : n = Len(x4) /\ i \in 1 .. n /\ x4 = [k \in 1 .. n |-> x4[k]]
    BY <1>2, QueueLength DEF QueueOK, SequenceOK
<1>4. x4[i].what \in {"list", "count"}
    BY <1>2, <1>3 DEF Kinds
<1>5. PICK a : a = IF x4[i].what = "list" THEN ListNow ELSE CountNow
    OBVIOUS
<1>6. x4' = [x4 EXCEPT ![i].answer = a]
    BY <1>5 DEF AD!Serve, ListNow, CountNow
<1>7. /\ QueueOK(x4') /\ Kinds(x4', {"list", "count"})
      /\ LateAreFirst(x4', "list") /\ LateAreFirst(x4', "count")
      /\ \A t : Current(x4, "list", ListNow, t) => Current(x4', "list", ListNow, t)
      /\ \A t : Current(x4, "count", CountNow, t) => Current(x4', "count", CountNow, t)
    BY <1>2, <1>3, <1>4, <1>5, <1>6, Served
<1>8. Len(x4') = n /\ \A k \in 1 .. n : x4'[k].what = x4[k].what /\ x4'[k].answer = IF k = i THEN a ELSE x4[k].answer
  <2>1. PICK c : /\ c = x4[i] /\ c = [what |-> c.what, answer |-> c.answer, late |-> c.late]
    BY <1>2, <1>3 DEF QueueOK
  <2>2. PICK d : d = [c EXCEPT !.answer = a]
    OBVIOUS
  <2>3. d = [what |-> c.what, answer |-> a, late |-> c.late]
    BY <2>1, <2>2
  <2>4. x4' = [x4 EXCEPT ![i] = d]
    BY <1>6, <2>1, <2>2
  <2>5. x4' = [k \in 1 .. n |-> x4'[k]] /\ \A k \in 1 .. n : x4'[k] = IF k = i THEN d ELSE x4[k]
    BY <1>3, <2>4
  <2>6. Len(x4') = n
    BY <2>5, QueueLength
  <2> QED BY <2>1, <2>3, <2>5, <2>6
<1>9. ASSUME NEW k \in 1 .. n, x4'[k].what = "list", x4'[k].answer # NotServed PROVE Told(x4'[k].answer.list)
  <2>1. CASE k = i
    <3>1. x4'[k].answer = ListNow
      BY <1>5, <1>8, <1>9, <2>1
    <3> QED BY <3>1, ListedIsTold DEF ListNow
  <2>2. CASE k # i
    BY <1>2, <1>3, <1>8, <1>9, <2>2 DEF AskedOK
  <2> QED BY <2>1, <2>2
<1>10. AskedOK(x4)'
  <2>1. AskedOK(x4')
    BY <1>7, <1>8, <1>9 DEF AskedOK
  <2> QED BY <1>1, <2>1, CallsKnown
<1>11. AccountsOK' /\ AdminPageOK' /\ AdminCallsOK'
    BY <1>1, CallsKnown DEF AdminInv, AdminOK, AdminPageOK, AdminCallsOK, SequenceOK
<1>12. ListOwed' = ListOwed /\ CountOwed' = CountOwed
    BY <1>1 DEF ListOwed, CountOwed, Awaited, Recounted, AD!Bulk
<1>13. ListNow' = ListNow /\ CountNow' = CountNow
    BY <1>1 DEF ListNow, CountNow, AD!Listed, AD!Counted, AD!Exists, AD!Waiting
<1> QED BY <1>1, <1>7, <1>10, <1>11, <1>12, <1>13 DEF AdminInv, AdminOK

LEMMA AdminArrive ==
    ASSUME AdminInv, NEW i \in DOMAIN x4, AD!Arrive(i) \/ AD!ArriveNot(i)
    PROVE  AdminInv'
<1>1. UNCHANGED <<x1, x2, x5>>
    BY DEF AD!Arrive, AD!ArriveNot
<1>2. AskedOK(x4) /\ QueueOK(x4) /\ Kinds(x4, {"list", "count"}) /\ LateAreFirst(x4, "list") /\ LateAreFirst(x4, "count")
    BY DEF AdminInv, AdminOK, AskedOK
<1>3. PICK n \in Nat : n = Len(x4) /\ i \in 1 .. n /\ n - 1 \in Nat
    BY <1>2, QueueLength DEF QueueOK, SequenceOK
<1>4. x4[i].what \in {"list", "count"}
    BY <1>2, <1>3 DEF Kinds
<1>5. PICK p : /\ p = x3
               /\ p = [list |-> p.list, loading |-> p.loading, picked |-> p.picked, dialog |-> p.dialog,
                       count |-> p.count]
               /\ DialogOK(p.dialog) /\ Told(p.list)
    BY DEF AdminInv, AdminOK, AdminPageOK
<1>6. AccountsOK' /\ AdminCallsOK' /\ x2' \in BOOLEAN /\ Told(p.list)' /\ DialogOK(p.dialog)'
    BY <1>1, <1>5, CallsKnown DEF AdminInv, AdminOK, AdminCallsOK, SequenceOK
<1>7. ListOwed' = ListOwed /\ CountOwed' = CountOwed /\ ListNow' = ListNow /\ CountNow' = CountNow
    BY <1>1 DEF ListOwed, CountOwed, Awaited, Recounted, AD!Bulk,
                ListNow, CountNow, AD!Listed, AD!Counted, AD!Exists, AD!Waiting
<1>8. ASSUME QueueOK(x4'), Kinds(x4', {"list", "count"}), LateAreFirst(x4', "list"), LateAreFirst(x4', "count"),
             Len(x4') = n - 1,
             \A k \in 1 .. n - 1 : \E j \in 1 .. n : x4'[k].what = x4[j].what /\ x4'[k].answer = x4[j].answer
      PROVE  AskedOK(x4)'
  <2>1. ASSUME NEW k \in 1 .. n - 1, x4'[k].what = "list", x4'[k].answer # NotServed PROVE Told(x4'[k].answer.list)
    <3>1. PICK j \in 1 .. n : x4'[k].what = x4[j].what /\ x4'[k].answer = x4[j].answer
      BY <1>8
    <3> QED BY <1>2, <1>3, <2>1, <3>1 DEF AskedOK
  <2>2. AskedOK(x4')
    BY <1>8, <2>1 DEF AskedOK
  <2> QED BY <1>1, <2>2, CallsKnown
<1>9. CASE AD!Arrive(i)
  <2>1. PICK a : a = x4[i].answer
    OBVIOUS
  <2>2. /\ a # NotServed /\ x6' = (x6 \/ x4[i].late)
        /\ x3' = IF x4[i].what = "count" THEN [p EXCEPT !.count = a.count]
                 ELSE [p EXCEPT !.list = a.list, !.loading = FALSE]
    BY <1>5, <1>9, <2>1 DEF AD!Arrive, AD!NoAnswer, NotServed
  <2>3. x4' = [k \in 1 .. n - 1 |-> IF k < i THEN [x4[k] EXCEPT !.late = @ \/ x4[k].what = x4[i].what]
                                             ELSE x4[k + 1]]
    BY <1>3, <1>9 DEF AD!Arrive
  <2>4. /\ QueueOK(x4') /\ Kinds(x4', {"list", "count"})
        /\ LateAreFirst(x4', "list") /\ LateAreFirst(x4', "count")
        /\ x4[i].what # "list" => \A v, t : Current(x4, "list", v, t) => Current(x4', "list", v, t)
        /\ x4[i].what # "count" => \A v, t : Current(x4, "count", v, t) => Current(x4', "count", v, t)
        /\ ~x4[i].late => \A v, t : Current(x4, x4[i].what, v, t) => Current(x4', x4[i].what, v, a)
    BY <1>2, <1>3, <1>4, <2>1, <2>2, <2>3, Arrived
  <2>5. AskedOK(x4)'
    <3>1. x4' = [k \in 1 .. n - 1 |-> x4'[k]]
      BY <2>3
    <3>2. Len(x4') = n - 1
      BY <1>3, <3>1, QueueLength
    <3>3. ASSUME NEW k \in 1 .. n - 1
          PROVE  \E j \in 1 .. n : x4'[k].what = x4[j].what /\ x4'[k].answer = x4[j].answer
      <4>1. k \in 1 .. n /\ k + 1 \in 1 .. n
        BY <1>3
      <4>2. CASE k < i
        <5>1. PICK c : c = x4[k] /\ c = [what |-> c.what, answer |-> c.answer, late |-> c.late]
          BY <1>2, <1>3, <4>1 DEF QueueOK
        <5>2. PICK l : l = (c.late \/ c.what = x4[i].what)
          OBVIOUS
        <5>3. x4'[k] = [c EXCEPT !.late = l]
          BY <2>3, <4>2, <5>1, <5>2
        <5>4. x4'[k] = [what |-> c.what, answer |-> c.answer, late |-> l]
          BY <5>1, <5>3
        <5>5. x4'[k].what = c.what /\ x4'[k].answer = c.answer
          BY <5>4
        <5> QED BY <4>1, <5>1, <5>5
      <4>3. CASE ~(k < i)
        BY <2>3, <4>1, <4>3
      <4> QED BY <4>2, <4>3
    <3> QED BY <1>8, <2>4, <3>2, <3>3
  <2>6. CASE x4[i].what = "count"
    <3>1. x3' = [list |-> p.list, loading |-> p.loading, picked |-> p.picked, dialog |-> p.dialog, count |-> a.count]
      BY <1>5, <2>2, <2>6
    <3>2. /\ x3'.list = p.list /\ x3'.count = a.count /\ x3'.dialog = p.dialog
          /\ x3' = [list |-> x3'.list, loading |-> x3'.loading, picked |-> x3'.picked, dialog |-> x3'.dialog,
                    count |-> x3'.count]
      BY <3>1
    <3>3. AdminPageOK'
      BY <1>6, <3>2 DEF AdminPageOK
    <3>4. ASSUME Current(x4', "count", CountNow, a) PROVE Current(x4', "count", CountNow, [count |-> a.count])
      <4>1. a = CountNow => [count |-> a.count] = CountNow
        BY DEF CountNow
      <4> QED BY <3>4, <4>1, ShownAs
    <3>5. ~x6' => ~x6 /\ ~x4[i].late
      BY <2>2
    <3> QED BY <1>1, <1>5, <1>6, <1>7, <2>4, <2>5, <2>6, <3>2, <3>3, <3>4, <3>5 DEF AdminInv, AdminOK
  <2>7. CASE x4[i].what = "list"
    <3>1. x3' = [list |-> a.list, loading |-> FALSE, picked |-> p.picked, dialog |-> p.dialog, count |-> p.count]
      <4>1. PICK q : q = [p EXCEPT !.list = a.list]
        OBVIOUS
      <4>2. q = [list |-> a.list, loading |-> p.loading, picked |-> p.picked, dialog |-> p.dialog, count |-> p.count]
        BY <1>5, <4>1
      <4>3. x3' = [q EXCEPT !.loading = FALSE]
        BY <2>2, <2>7, <4>1
      <4> QED BY <4>2, <4>3
    <3>2. /\ x3'.list = a.list /\ x3'.count = p.count /\ x3'.dialog = p.dialog
          /\ x3' = [list |-> x3'.list, loading |-> x3'.loading, picked |-> x3'.picked, dialog |-> x3'.dialog,
                    count |-> x3'.count]
      BY <3>1
    <3>3. AdminPageOK'
      <4>1. Told(a.list)
        BY <1>2, <1>3, <2>1, <2>2, <2>7 DEF AskedOK
      <4>2. PICK l : l = a.list
        OBVIOUS
      <4>3. Told(l)'
        BY <1>1, <4>1, <4>2, CallsKnown
      <4>4. Told(x3.list)'
        BY <3>2, <4>2, <4>3
      <4> QED BY <1>6, <3>2, <4>4 DEF AdminPageOK
    <3>4. ASSUME Current(x4', "list", ListNow, a) PROVE Current(x4', "list", ListNow, [list |-> a.list])
      <4>1. a = ListNow => [list |-> a.list] = ListNow
        BY DEF ListNow
      <4> QED BY <3>4, <4>1, ShownAs
    <3>5. ~x6' => ~x6 /\ ~x4[i].late
      BY <2>2
    <3> QED BY <1>1, <1>5, <1>6, <1>7, <2>4, <2>5, <2>7, <3>2, <3>3, <3>4, <3>5 DEF AdminInv, AdminOK
  <2> QED BY <1>4, <2>6, <2>7
<1>10. CASE AD!ArriveNot(i)
  <2>1. x6' /\ x4' = SubSeq(x4, 1, i - 1) \o SubSeq(x4, i + 1, Len(x4))
    BY <1>10 DEF AD!ArriveNot, AD!RemoveAt
  <2>2. /\ QueueOK(x4') /\ Kinds(x4', {"list", "count"})
        /\ LateAreFirst(x4', "list") /\ LateAreFirst(x4', "count")
    BY <1>2, <1>3, <2>1, Failed
  <2>3. /\ Len(x4') = n - 1
        /\ \A k \in 1 .. n - 1 : x4'[k] = IF k < i THEN x4[k] ELSE x4[k + 1]
    BY <1>2, <1>3, <2>1, Removed DEF QueueOK
  <2>4. AskedOK(x4)'
    <3>1. \A k \in 1 .. n - 1 : k \in 1 .. n /\ k + 1 \in 1 .. n
      BY <1>3
    <3> QED BY <1>8, <2>2, <2>3, <3>1
  <2>5. x3' = p \/ x3' = [p EXCEPT !.list = <<>>, !.loading = FALSE]
    BY <1>5, <1>10 DEF AD!ArriveNot
  <2>6. AdminPageOK'
    <3>1. CASE x3' = p
      BY <1>5, <1>6, <3>1 DEF AdminPageOK
    <3>2. CASE x3' = [p EXCEPT !.list = <<>>, !.loading = FALSE]
      <4>1. PICK q : q = [p EXCEPT !.list = <<>>]
        OBVIOUS
      <4>2. q = [list |-> <<>>, loading |-> p.loading, picked |-> p.picked, dialog |-> p.dialog, count |-> p.count]
        BY <1>5, <4>1
      <4>3. x3' = [q EXCEPT !.loading = FALSE]
        BY <3>2, <4>1
      <4>4. x3' = [list |-> <<>>, loading |-> FALSE, picked |-> p.picked, dialog |-> p.dialog, count |-> p.count]
        BY <4>2, <4>3
      <4>5. /\ x3'.list = <<>> /\ x3'.dialog = p.dialog
            /\ x3' = [list |-> x3'.list, loading |-> x3'.loading, picked |-> x3'.picked, dialog |-> x3'.dialog,
                      count |-> x3'.count]
        BY <4>4
      <4>6. Told(x3.list)'
        BY <4>5 DEF Told
      <4> QED BY <1>6, <4>5, <4>6 DEF AdminPageOK
    <3> QED BY <2>5, <3>1, <3>2
  <2> QED BY <1>6, <2>1, <2>4, <2>6 DEF AdminInv, AdminOK
<1> QED BY <1>9, <1>10

\* One account of a call is done with: what the call has changed is owed.
LEMMA CallProgress ==
    ASSUME AdminCallsOK, NEW k \in DOMAIN x5, NEW i \in x5[k].left, NEW outcome \in {"ok", "refused", "half"},
           AD!Over(k, i, outcome), \A j : Admitted(j) => Admitted(j)'
    PROVE  /\ AdminCallsOK'
           /\ (\A m \in 1 .. Len(x5) : x5[m].heard) => \A m \in 1 .. Len(x5') : x5'[m].heard
           /\ (ListOwed => ListOwed') /\ (CountOwed => CountOwed')
           /\ outcome # "refused" => ListOwed' /\ (x5[k].kind \in Recounted => CountOwed')
<1>1. PICK n \in Nat : /\ n = Len(x5) /\ SequenceOK(x5) /\ x5 = [m \in 1 .. n |-> x5[m]] /\ k \in 1 .. n
                       /\ \A m \in 1 .. n : CallOK(x5[m])
    BY QueueLength DEF AdminCallsOK, SequenceOK
<1>2. PICK c : /\ c = x5[k] /\ CallOK(c) /\ i \in c.left
               /\ c = [kind |-> c.kind, ids |-> c.ids, role |-> c.role, left |-> c.left, outcome |-> c.outcome,
                       heard |-> c.heard]
    BY <1>1 DEF CallOK
<1>3. PICK b : b = [c EXCEPT !.left = c.left \ {i}]
    OBVIOUS
<1>4. b = [kind |-> c.kind, ids |-> c.ids, role |-> c.role, left |-> c.left \ {i}, outcome |-> c.outcome,
           heard |-> c.heard]
    BY <1>2, <1>3
<1>5. PICK r : r = IF outcome = "ok" THEN c.outcome ELSE outcome
    OBVIOUS
<1>6. PICK d : d = [b EXCEPT !.outcome = r]
    OBVIOUS
<1>7. d = [kind |-> c.kind, ids |-> c.ids, role |-> c.role, left |-> c.left \ {i}, outcome |-> r, heard |-> c.heard]
    BY <1>4, <1>6
<1>8. x5' = [m \in 1 .. n |-> x5'[m]] /\ \A m \in 1 .. n : x5'[m] = IF m = k THEN d ELSE x5[m]
  <2>1. PICK g : g = [x5 EXCEPT ![k].left = @ \ {i}]
    OBVIOUS
  <2>2. g = [x5 EXCEPT ![k] = b]
    BY <1>2, <1>3, <2>1
  <2>3. g = [m \in 1 .. n |-> g[m]] /\ \A m \in 1 .. n : g[m] = IF m = k THEN b ELSE x5[m]
    BY <1>1, <2>2
  <2>4. x5' = [g EXCEPT ![k].outcome = IF outcome = "ok" THEN @ ELSE outcome]
    BY <2>1 DEF AD!Over
  <2>5. g[k] = b /\ b.outcome = c.outcome
    BY <1>1, <1>4, <2>3
  <2>6. x5' = [g EXCEPT ![k] = d]
    BY <1>5, <1>6, <2>4, <2>5
  <2> QED BY <2>3, <2>6
<1>9. SequenceOK(x5') /\ Len(x5') = n
    BY <1>8, QueueLength DEF SequenceOK
<1>10. /\ d.kind = c.kind /\ d.ids = c.ids /\ d.left = c.left \ {i} /\ d.outcome = r /\ d.heard = c.heard
       /\ i \in d.ids /\ d.left # d.ids
    BY <1>2, <1>7 DEF CallOK
<1>11. CallOK(d)
  <2>1. d = [kind |-> d.kind, ids |-> d.ids, role |-> d.role, left |-> d.left, outcome |-> d.outcome,
             heard |-> d.heard]
    BY <1>7
  <2> QED BY <1>2, <1>5, <1>10, <2>1 DEF CallOK
<1>12. AdminCallsOK'
  <2>1. ASSUME NEW e, CallOK(e) PROVE CallOK(e)'
    BY <2>1 DEF CallOK, AD!Bulk
  <2>2. \A m \in 1 .. n : CallOK(x5'[m])
    BY <1>1, <1>8, <1>11
  <2> QED BY <1>9, <2>1, <2>2 DEF AdminCallsOK
<1>13. (\A m \in 1 .. n : x5[m].heard) => \A m \in 1 .. n : x5'[m].heard
    BY <1>1, <1>2, <1>8, <1>10
\* Only a bulk action is not over yet after its first account.
<1>14. Awaited(c) => c.kind \in AD!Bulk \cup {"role"}
    BY <1>2 DEF Awaited, CallOK
<1>15. Awaited(c) => Awaited(d)
    BY <1>10, <1>14 DEF Awaited
<1>16. outcome # "refused" => Awaited(d)
  <2> SUFFICES ASSUME outcome # "refused", c.kind \notin AD!Bulk \cup {"role"} PROVE Awaited(d)
    BY <1>10 DEF Awaited
  <2>1. c.left = c.ids
    BY <1>2 DEF CallOK
  <2>2. r # "refused"
    BY <1>2, <1>5, <2>1 DEF CallOK
  <2> QED BY <1>10, <2>2 DEF Awaited
<1>17. ASSUME NEW m \in 1 .. n, Awaited(x5'[m]) PROVE ListOwed' /\ (x5'[m].kind \in Recounted => CountOwed')
    BY <1>9, <1>17 DEF ListOwed, CountOwed, Awaited, Recounted, AD!Bulk
<1>18. ASSUME NEW m \in 1 .. n, Awaited(x5[m]) PROVE Awaited(x5'[m]) /\ x5'[m].kind = x5[m].kind
    BY <1>2, <1>8, <1>10, <1>15, <1>18
<1>19. (ListOwed => ListOwed') /\ (CountOwed => CountOwed')
    BY <1>1, <1>17, <1>18 DEF ListOwed, CountOwed
<1>20. outcome # "refused" => ListOwed' /\ (c.kind \in Recounted => CountOwed')
    BY <1>1, <1>8, <1>10, <1>16, <1>17
<1> QED BY <1>1, <1>2, <1>9, <1>12, <1>13, <1>19, <1>20

\* A route ends, with or without a change of accounts.
LEMMA AdminChanges ==
    ASSUME AdminInv, NEW k \in DOMAIN x5, NEW i \in x5[k].left, NEW outcome \in {"ok", "refused", "half"},
           AD!Over(k, i, outcome), UNCHANGED <<x3, x4, x6>>, AccountsOK', x2' \in BOOLEAN,
           \A j : Admitted(j) => Admitted(j)',
           (x1' = x1 /\ x2' = x2) \/ outcome # "refused",
           x2' => x2 /\ (AD!Waiting' = AD!Waiting \/ (outcome # "refused" /\ x5[k].kind \in Recounted))
    PROVE  AdminInv'
<1>1. /\ AdminCallsOK'
      /\ (\A m \in 1 .. Len(x5) : x5[m].heard) => \A m \in 1 .. Len(x5') : x5'[m].heard
      /\ (ListOwed => ListOwed') /\ (CountOwed => CountOwed')
      /\ outcome # "refused" => ListOwed' /\ (x5[k].kind \in Recounted => CountOwed')
    BY CallProgress DEF AdminInv, AdminOK
<1>2. ASSUME NEW l, Told(l) PROVE Told(l)'
    BY <1>2 DEF Told
<1>3. AskedOK(x4)'
  <2>1. AskedOK(x4)
    BY DEF AdminInv, AdminOK
  <2>2. ASSUME NEW m \in 1 .. Len(x4), x4[m].what = "list", x4[m].answer # NotServed PROVE Told(x4[m].answer.list)'
    <3>1. PICK l : l = x4[m].answer.list /\ Told(l)
      BY <2>1, <2>2 DEF AskedOK
    <3>2. Told(l)' /\ l = x4'[m].answer.list
      BY <1>2, <3>1
    <3> QED BY <3>2
  <2> QED BY <2>1, <2>2 DEF AskedOK, QueueOK, SequenceOK, Kinds, LateAreFirst
<1>4. AdminPageOK'
  <2>1. PICK p : /\ p = x3
                 /\ p = [list |-> p.list, loading |-> p.loading, picked |-> p.picked, dialog |-> p.dialog,
                         count |-> p.count]
                 /\ DialogOK(p.dialog) /\ Told(p.list)
    BY DEF AdminInv, AdminOK, AdminPageOK
  <2>2. DialogOK(p.dialog)'
    BY <2>1 DEF DialogOK, AD!NoDialog, AD!Bulk
  <2>3. Told(p.list)'
    <3>1. PICK l : l = p.list
      OBVIOUS
    <3> QED BY <1>2, <2>1, <3>1
  <2> QED BY <2>1, <2>2, <2>3 DEF AdminPageOK
<1>5. ListOwed' \/ ListNow' = ListNow
    BY <1>1 DEF ListNow, AD!Listed, AD!Exists
<1>6. x2' => CountOwed' \/ CountNow' = CountNow
    BY <1>1 DEF CountNow, AD!Counted
<1>7. ListNow' = ListNow =>
        Current(x4, "list", ListNow, [list |-> x3.list])' = Current(x4, "list", ListNow, [list |-> x3.list])
    BY DEF Current, Youngest
<1>8. CountNow' = CountNow =>
        Current(x4, "count", CountNow, [count |-> x3.count])' = Current(x4, "count", CountNow, [count |-> x3.count])
    BY DEF Current, Youngest
<1> QED BY <1>1, <1>3, <1>4, <1>5, <1>6, <1>7, <1>8 DEF AdminInv, AdminOK

\* A row is written.
LEMMA AccountWritten ==
    ASSUME AccountsOK, NEW i, NEW a, AccountOK(a), x1' = [x1 EXCEPT ![i] = a],
           Admitted(i) => a = AD!Gone \/ (a \notin {AD!Unborn, AD!Gone} /\ a.approved)
    PROVE  /\ AccountsOK' /\ \A j : Admitted(j) => Admitted(j)'
           /\ (i \in AD!Waiting <=> a \notin {AD!Unborn, AD!Gone} /\ ~a.approved) => AD!Waiting' = AD!Waiting
<1>1. /\ x1' = [j \in 1 .. MaxAccount |-> x1'[j]]
      /\ \A j \in 1 .. MaxAccount : x1'[j] = IF j = i THEN a ELSE x1[j]
    BY DEF AccountsOK
<1>2. \A j \in 1 .. MaxAccount : AccountOK(x1'[j])
    BY <1>1 DEF AccountsOK
<1>3. AccountsOK'
    BY <1>1, <1>2 DEF AccountsOK, AccountOK, AD!Unborn, AD!Gone
<1>4. ASSUME NEW j, Admitted(j) PROVE Admitted(j)'
  <2>1. CASE j = i
    BY <1>1, <1>4, <2>1 DEF Admitted, AD!Exists, AD!Unborn, AD!Gone
  <2>2. CASE j # i
    BY <1>1, <1>4, <2>2 DEF Admitted, AD!Exists, AD!Unborn, AD!Gone
  <2> QED BY <2>1, <2>2
<1>5. ASSUME i \in AD!Waiting <=> a \notin {AD!Unborn, AD!Gone} /\ ~a.approved
      PROVE  AD!Waiting' = AD!Waiting
  <2>1. ASSUME NEW j \in 1 .. MaxAccount PROVE j \in AD!Waiting' <=> j \in AD!Waiting
    <3>1. CASE j = i
      BY <1>1, <1>5, <3>1 DEF AD!Waiting, AD!Exists, AD!Unborn, AD!Gone
    <3>2. CASE j # i
      BY <1>1, <3>2 DEF AD!Waiting, AD!Exists, AD!Unborn, AD!Gone
    <3> QED BY <3>1, <3>2
  <2>2. AD!Waiting \subseteq 1 .. MaxAccount /\ AD!Waiting' \subseteq 1 .. MaxAccount
    BY DEF AD!Waiting
  <2> QED BY <2>1, <2>2
<1> QED BY <1>3, <1>4, <1>5

LEMMA AccountRoutes ==
    ASSUME AccountsOK, NEW i, AD!Exists(i), NEW v,
           \/ x1' = [x1 EXCEPT ![i].role = v] \/ x1' = [x1 EXCEPT ![i].mfa = v]
           \/ x1' = [x1 EXCEPT ![i].approved = TRUE] \/ x1' = [x1 EXCEPT ![i] = AD!Gone]
    PROVE  /\ AccountsOK' /\ \A j : Admitted(j) => Admitted(j)'
           /\ x1' = [x1 EXCEPT ![i].role = v] \/ x1' = [x1 EXCEPT ![i].mfa = v] => AD!Waiting' = AD!Waiting
           /\ x1' = [x1 EXCEPT ![i] = AD!Gone] /\ Admitted(i) => AD!Waiting' = AD!Waiting
<1>1. CASE i \notin 1 .. MaxAccount
  <2>1. x1' = x1
    BY <1>1 DEF AccountsOK
  <2>2. AD!Waiting' = AD!Waiting /\ AccountsOK'
    BY <2>1 DEF AD!Waiting, AD!Exists, AD!Unborn, AD!Gone, AccountsOK, AccountOK
  <2>3. \A j : Admitted(j) => Admitted(j)'
    BY <2>1 DEF Admitted, AD!Exists, AD!Unborn, AD!Gone
  <2> QED BY <2>2, <2>3
<1>2. CASE i \in 1 .. MaxAccount
  <2>1. PICK b : /\ b = x1[i] /\ b.approved \in BOOLEAN
                 /\ b = [approved |-> b.approved, role |-> b.role, mfa |-> b.mfa]
    BY <1>2 DEF AccountsOK, AccountOK, AD!Exists
  <2>2. ASSUME NEW a, a = [approved |-> a.approved, role |-> a.role, mfa |-> a.mfa], a.approved \in BOOLEAN
        PROVE  a \notin {AD!Unborn, AD!Gone} /\ AccountOK(a)
    <3>1. "role" \in DOMAIN a
      BY <2>2
    <3>2. "role" \notin DOMAIN AD!Unborn /\ "role" \notin DOMAIN AD!Gone
      BY DEF AD!Unborn, AD!Gone
    <3> QED BY <2>2, <3>1, <3>2 DEF AccountOK
  <2>3. i \in AD!Waiting <=> ~b.approved
    BY <1>2, <2>1 DEF AD!Waiting
  <2>4. Admitted(i) => b.approved
    BY <2>1 DEF Admitted, AD!Exists
  <2>5. ASSUME NEW a, a = [b EXCEPT !.role = v] \/ a = [b EXCEPT !.mfa = v], x1' = [x1 EXCEPT ![i] = a]
        PROVE  AccountsOK' /\ (\A j : Admitted(j) => Admitted(j)') /\ AD!Waiting' = AD!Waiting
    <3>1. \/ a = [approved |-> b.approved, role |-> v, mfa |-> b.mfa]
          \/ a = [approved |-> b.approved, role |-> b.role, mfa |-> v]
      BY <2>1, <2>5
    <3>2. a = [approved |-> a.approved, role |-> a.role, mfa |-> a.mfa] /\ a.approved = b.approved
      BY <3>1
    <3>3. a \notin {AD!Unborn, AD!Gone} /\ AccountOK(a)
      BY <2>1, <2>2, <3>2
    <3> QED BY <2>3, <2>4, <2>5, <3>2, <3>3, AccountWritten
  <2>6. ASSUME x1' = [x1 EXCEPT ![i].role = v] \/ x1' = [x1 EXCEPT ![i].mfa = v]
        PROVE  AccountsOK' /\ (\A j : Admitted(j) => Admitted(j)') /\ AD!Waiting' = AD!Waiting
    <3>1. PICK a : (a = [b EXCEPT !.role = v] \/ a = [b EXCEPT !.mfa = v]) /\ x1' = [x1 EXCEPT ![i] = a]
      BY <2>1, <2>6
    <3> QED BY <2>5, <3>1
  <2>7. ASSUME x1' = [x1 EXCEPT ![i].approved = TRUE]
        PROVE  AccountsOK' /\ \A j : Admitted(j) => Admitted(j)'
    <3>1. PICK a : a = [b EXCEPT !.approved = TRUE]
      OBVIOUS
    <3>2. x1' = [x1 EXCEPT ![i] = a]
      BY <2>1, <2>7, <3>1
    <3>3. a = [approved |-> TRUE, role |-> b.role, mfa |-> b.mfa]
      BY <2>1, <3>1
    <3>4. a = [approved |-> a.approved, role |-> a.role, mfa |-> a.mfa] /\ a.approved = TRUE
      BY <3>3
    <3>5. a \notin {AD!Unborn, AD!Gone} /\ AccountOK(a)
      BY <2>2, <3>4
    <3> QED BY <3>2, <3>4, <3>5, AccountWritten
  <2>8. ASSUME x1' = [x1 EXCEPT ![i] = AD!Gone]
        PROVE  /\ AccountsOK' /\ \A j : Admitted(j) => Admitted(j)'
               /\ Admitted(i) => AD!Waiting' = AD!Waiting
    <3>1. AccountOK(AD!Gone)
      BY DEF AccountOK
    <3>2. /\ AccountsOK' /\ \A j : Admitted(j) => Admitted(j)'
          /\ i \notin AD!Waiting => AD!Waiting' = AD!Waiting
      BY <2>8, <3>1, AccountWritten
    <3>3. Admitted(i) => i \notin AD!Waiting
      BY <2>3, <2>4
    <3> QED BY <3>2, <3>3
  <2> QED BY <2>6, <2>7, <2>8
<1> QED BY <1>1, <1>2

LEMMA AdminRoutes ==
    ASSUME AdminInv, NEW k \in DOMAIN x5, NEW i \in x5[k].left,
           AD!Refuse(k, i) \/ AD!Update(k, i) \/ AD!Delete(k, i) \/ AD!ResetMfa(k, i) \/ (i = 0 /\ AD!Create(k))
    PROVE  AdminInv'
<1>1. UNCHANGED <<x3, x4, x6>>
    BY DEF AD!Refuse, AD!Update, AD!Delete, AD!ResetMfa, AD!Create, AD!Commit
<1>2. AccountsOK /\ x2 \in BOOLEAN
    BY DEF AdminInv, AdminOK
<1>3. CallOK(x5[k]) /\ i \in x5[k].ids
  <2>1. k \in 1 .. Len(x5) /\ AdminCallsOK
    BY QueueLength DEF AdminInv, AdminOK, AdminCallsOK, SequenceOK
  <2> QED BY <2>1 DEF AdminCallsOK, CallOK
<1>4. ASSUME UNCHANGED x1 PROVE AccountsOK' /\ (\A j : Admitted(j) => Admitted(j)') /\ AD!Waiting' = AD!Waiting
    BY <1>2, <1>4 DEF AccountsOK, AccountOK, Admitted, AD!Waiting, AD!Exists, AD!Unborn, AD!Gone
<1>5. CASE AD!Refuse(k, i)
  <2>1. UNCHANGED <<x1, x2>> /\ AD!Over(k, i, "refused") /\ x2' \in BOOLEAN
    BY <1>2, <1>5 DEF AD!Refuse
  <2>2. AccountsOK' /\ (\A j : Admitted(j) => Admitted(j)') /\ AD!Waiting' = AD!Waiting
    BY <1>4, <2>1
  <2> QED BY <1>1, <2>1, <2>2, AdminChanges
<1>6. ASSUME AD!Update(k, i) \/ AD!Delete(k, i) \/ AD!ResetMfa(k, i) \/ (i = 0 /\ AD!Create(k))
      PROVE  x2 /\ \E outcome \in {"ok", "half"} : AD!Over(k, i, outcome)
    BY <1>6 DEF AD!Update, AD!Delete, AD!ResetMfa, AD!Create, AD!Commit
<1>7. CASE AD!Update(k, i)
  <2>1. x2 /\ x2' = x2 /\ x2' \in BOOLEAN /\ AD!Exists(i)
    BY <1>2, <1>6, <1>7 DEF AD!Update
  <2>2. PICK outcome \in {"ok", "half"} : AD!Over(k, i, outcome)
    BY <1>6, <1>7
  <2>3. /\ AccountsOK' /\ \A j : Admitted(j) => Admitted(j)'
        /\ AD!Waiting' = AD!Waiting \/ x5[k].kind \in Recounted
    <3>1. CASE x5[k].kind = "role"
      <4>1. x1' = [x1 EXCEPT ![i].role = x5[k].role]
        BY <1>7, <3>1 DEF AD!Update
      <4>2. PICK v : v = x5[k].role
        OBVIOUS
      <4>3. x1' = [x1 EXCEPT ![i].role = v]
        BY <4>1, <4>2
      <4> QED BY <1>2, <2>1, <4>3, AccountRoutes
    <3>2. CASE x5[k].kind = "password"
      BY <1>4, <1>7, <3>2 DEF AD!Update
    <3>3. CASE x5[k].kind \in {"approve", "approve all"}
      <4>1. x1' = [x1 EXCEPT ![i].approved = TRUE]
        BY <1>7, <3>3 DEF AD!Update
      <4> QED BY <1>2, <2>1, <3>3, <4>1, AccountRoutes DEF Recounted, AD!Bulk
    <3> QED BY <1>7, <3>1, <3>2, <3>3 DEF AD!Update
  <2> QED BY <1>1, <2>1, <2>2, <2>3, AdminChanges
<1>8. CASE AD!Delete(k, i)
  <2>1. x2 /\ x2' = x2 /\ x2' \in BOOLEAN /\ AD!Exists(i) /\ x1' = [x1 EXCEPT ![i] = AD!Gone]
    BY <1>2, <1>6, <1>8 DEF AD!Delete
  <2>2. PICK outcome \in {"ok", "half"} : AD!Over(k, i, outcome)
    BY <1>6, <1>8
  <2>3. x5[k].kind \in Recounted \/ Admitted(i)
    BY <1>3, <1>8 DEF AD!Delete, CallOK, Recounted, AD!Bulk
  <2>4. /\ AccountsOK' /\ \A j : Admitted(j) => Admitted(j)'
        /\ Admitted(i) => AD!Waiting' = AD!Waiting
    BY <1>2, <2>1, AccountRoutes
  <2> QED BY <1>1, <2>1, <2>2, <2>3, <2>4, AdminChanges
<1>9. CASE AD!ResetMfa(k, i)
  <2>1. x2 /\ x2' \in BOOLEAN /\ AD!Exists(i) /\ x1' = [x1 EXCEPT ![i].mfa = FALSE]
    BY <1>6, <1>9 DEF AD!ResetMfa
  <2>2. PICK outcome \in {"ok", "half"} : AD!Over(k, i, outcome)
    BY <1>6, <1>9
  <2>3. AccountsOK' /\ (\A j : Admitted(j) => Admitted(j)') /\ AD!Waiting' = AD!Waiting
    BY <1>2, <2>1, AccountRoutes
  <2> QED BY <1>1, <2>1, <2>2, <2>3, AdminChanges
<1>10. CASE i = 0 /\ AD!Create(k)
  <2>1. x2 /\ x2' = x2 /\ x2' \in BOOLEAN
    BY <1>2, <1>6, <1>10 DEF AD!Create
  <2>2. PICK outcome \in {"ok", "half"} : AD!Over(k, i, outcome)
    BY <1>6, <1>10
  <2>3. PICK j \in 1 .. MaxAccount :
          /\ x1[j] = AD!Unborn
          /\ x1' = [x1 EXCEPT ![j] = [approved |-> TRUE, role |-> x5[k].role, mfa |-> FALSE]]
    BY <1>10 DEF AD!Create
  <2>4. PICK a : a = [approved |-> TRUE, role |-> x5[k].role, mfa |-> FALSE]
    OBVIOUS
  <2>5. a = [approved |-> a.approved, role |-> a.role, mfa |-> a.mfa] /\ a.approved = TRUE
    BY <2>4
  <2>6. AccountOK(a) /\ a \notin {AD!Unborn, AD!Gone}
    <3>1. "role" \in DOMAIN a
      BY <2>4
    <3>2. "role" \notin DOMAIN AD!Unborn /\ "role" \notin DOMAIN AD!Gone
      BY DEF AD!Unborn, AD!Gone
    <3> QED BY <2>5, <3>1, <3>2 DEF AccountOK
  <2>7. x1' = [x1 EXCEPT ![j] = a]
    BY <2>3, <2>4
  <2>8. j \notin AD!Waiting
    BY <2>3 DEF AD!Waiting, AD!Exists
  <2>9. AccountsOK' /\ (\A m : Admitted(m) => Admitted(m)') /\ AD!Waiting' = AD!Waiting
    BY <1>2, <2>5, <2>6, <2>7, <2>8, AccountWritten
  <2> QED BY <1>1, <2>1, <2>2, <2>9, AdminChanges
<1> QED BY <1>5, <1>7, <1>8, <1>9, <1>10

LEMMA AdminStep == AdminInv /\ [AD!Next]_(AD!vars) => AdminInv'
<1> SUFFICES ASSUME AdminInv, [AD!Next]_(AD!vars) PROVE AdminInv'
    OBVIOUS
<1>1. CASE UNCHANGED AD!vars
  <2>1. UNCHANGED <<x1, x2, x3, x4, x5, x6>>
    BY <1>1 DEF AD!vars
  <2>2. AdminPageOK' /\ AdminCallsOK'
    BY <2>1, CallsKnown DEF AdminInv, AdminOK, AdminPageOK, AdminCallsOK, SequenceOK
  <2>3. ListOwed' = ListOwed /\ CountOwed' = CountOwed
    BY <2>1 DEF ListOwed, CountOwed, Awaited, Recounted, AD!Bulk
  <2> QED BY <2>1, <2>2, <2>3, AdminStays
<1>2. CASE AD!Next
  <2>1. CASE AD!OpenDialog \/ AD!Cancel \/ AD!Tick \/ AD!TickAll \/ AD!Send \/ AD!Interval
    BY <2>1, AdminPresses, AdminSend, AdminInterval
  <2>2. ASSUME NEW n \in DOMAIN x4, AD!Serve(n) \/ AD!Arrive(n) \/ AD!ArriveNot(n) PROVE AdminInv'
    BY <2>2, AdminServe, AdminArrive
  <2>3. ASSUME NEW k \in DOMAIN x5, AD!Answered(k) \/ AD!Lost(k) \/ AD!Forgotten(k) PROVE AdminInv'
    BY <2>3, AdminAnswered, AdminLost
  <2>4. ASSUME NEW k \in DOMAIN x5, NEW i \in x5[k].left,
               AD!Refuse(k, i) \/ AD!Update(k, i) \/ AD!Delete(k, i) \/ AD!ResetMfa(k, i) \/ (i = 0 /\ AD!Create(k))
        PROVE  AdminInv'
    BY <2>4, AdminRoutes
  <2> QED BY <1>2, <2>1, <2>2, <2>3, <2>4 DEF AD!Next
<1> QED BY <1>1, <1>2

LEMMA AdminProperty == AdminInv => AD!ShownIsCurrent
<1> SUFFICES ASSUME AdminInv, x4 = <<>>, x5 = <<>>, ~x6
             PROVE  x3.list = AD!Listed /\ (x2 => x3.count = AD!Counted)
    BY DEF AD!ShownIsCurrent, AD!Quiet, AD!Counted
<1>1. Len(x4) = 0 /\ Len(x5) = 0 /\ 1 .. 0 = {}
    OBVIOUS
<1>2. ~ListOwed /\ ~CountOwed
    BY <1>1 DEF ListOwed, CountOwed
<1>3. [list |-> x3.list] = ListNow
    BY <1>1, <1>2 DEF AdminInv, Current
<1>4. x2 => [count |-> x3.count] = CountNow
    BY <1>1, <1>2 DEF AdminInv, Current
<1>5. x3.list = AD!Listed
    BY <1>3 DEF ListNow
<1>6. x2 => x3.count = AD!Counted
    BY <1>4 DEF CountNow
<1> QED BY <1>5, <1>6

-----------------------------------------------------------------------------
\* The four pages of which ShownIsCurrent speaks.
FourInv ==
    /\ tab = "user" => OneUserInv
    /\ tab = "admin" => AdminInv
    /\ tab = "profile" => ProfileInv
    /\ tab = "group" => GroupInv

LEMMA FourStep == FourInv /\ [PagesNext]_pageVars => FourInv'
<1> SUFFICES ASSUME FourInv, [PagesNext]_pageVars PROVE FourInv'
    OBVIOUS
<1>1. tab' = tab
    BY DEF PagesNext, RequestAccess, Users, OneUser, SyncJobs, ServerNetwork, Accounts, SigningIn, OwnProfile, OneGroup,
           pageVars
<1>2. CASE tab = "user"
  <2>1. UR!Next \/ UNCHANGED UR!vars
    BY <1>2 DEF PagesNext, RequestAccess, Users, OneUser, SyncJobs, ServerNetwork, Accounts, SigningIn, OwnProfile,
                OneGroup, pageVars, UR!vars
  <2>2. OneUserInv'
    BY <1>2, <2>1, OneUserStep DEF FourInv
  <2> QED BY <1>1, <1>2, <2>2 DEF FourInv
<1>3. CASE tab = "admin"
  <2>1. AD!Next \/ UNCHANGED AD!vars
    BY <1>3 DEF PagesNext, RequestAccess, Users, OneUser, SyncJobs, ServerNetwork, Accounts, SigningIn, OwnProfile,
                OneGroup, pageVars, AD!vars
  <2>2. AdminInv'
    BY <1>3, <2>1, AdminStep DEF FourInv
  <2> QED BY <1>1, <1>3, <2>2 DEF FourInv
<1>4. CASE tab = "profile"
  <2>1. PF!Next \/ UNCHANGED PF!vars
    BY <1>4 DEF PagesNext, RequestAccess, Users, OneUser, SyncJobs, ServerNetwork, Accounts, SigningIn, OwnProfile,
                OneGroup, pageVars, PF!vars
  <2>2. ProfileInv'
    BY <1>4, <2>1, ProfileStep DEF FourInv
  <2> QED BY <1>1, <1>4, <2>2 DEF FourInv
<1>5. CASE tab = "group"
  <2>1. GP!Next \/ UNCHANGED GP!vars
    BY <1>5 DEF PagesNext, RequestAccess, Users, OneUser, SyncJobs, ServerNetwork, Accounts, SigningIn, OwnProfile,
                OneGroup, pageVars, GP!vars
  <2>2. GroupInv'
    BY <1>5, <2>1, GroupStep DEF FourInv
  <2> QED BY <1>1, <1>5, <2>2 DEF FourInv
<1> QED BY <1>1, <1>2, <1>3, <1>4, <1>5 DEF FourInv

\* What is shown of a user, the accounts, one's second factor and a group is what
\* is in the database as soon as nothing is under way: in whatever order buttons
\* are pressed, calls end and answers arrive, each change is followed by a fetch
\* whose answer is shown, unless an older answer arrives after a younger one, an
\* answer is lost or a change is hidden behind a failure.
THEOREM PagesAreCurrent == PagesSpec => []ShownIsCurrent
<1>1. PagesInit => FourInv
    BY OneUserInit, AdminInit, ProfileInit, GroupInit DEF PagesInit, FourInv
<1>2. FourInv => ShownIsCurrent
    BY OneUserProperty, AdminProperty, ProfileProperty, GroupProperty DEF FourInv, ShownIsCurrent
<1> QED BY <1>1, <1>2, FourStep, PTL DEF PagesSpec
=============================================================================
