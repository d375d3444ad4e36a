-------------------------------- MODULE Totp --------------------------------
(***************************************************************************)
(* The shared secret of two-step sign-in as the authenticator reads it and *)
(* as the server reads it back (auth/totp.util.ts).                        *)
(*                                                                         *)
(* encodeBase32() and decodeBase32() shift bits through a 32-bit integer:  *)
(* JavaScript's << and >>> keep 32 bits, so what was shifted out on the    *)
(* left is lost, and only the low bits are read.  Characters are their     *)
(* index in the alphabet; counters stand for the codes made from them.     *)
(***************************************************************************)
EXTENDS Integers, Sequences, SequencesExt

CONSTANTS
  Bytes,       \* bytes of a secret
  Length,      \* bytes of a secret at most
  Period,      \* seconds a code is shown
  Window,      \* periods a code is accepted before and after its own
  Skew,        \* seconds the authenticator's clock may be off
  Horizon      \* the last second of the run

VARIABLES
  secret,      \* the random bytes drawn so far
  now,         \* the server's clock, in seconds
  clock        \* what the authenticator's clock is ahead of the server's

vars == <<secret, now, clock>>

\* value << n drops what leaves the register.  Thirteen bits at most are read again;
\* twenty of the 32 are modelled.
Register == 2 ^ 20

Out(acc, n) == (acc.value \div 2 ^ (acc.bits - n)) % 2 ^ n

\* encodeBase32(): five bits at a time, the last group filled up with zeros.
EncodeBase32(input) ==
  LET digits(acc) == IF acc.bits < 5 THEN acc
                     ELSE LET one == [acc EXCEPT !.output = Append(@, Out(acc, 5)), !.bits = @ - 5]
                          IN IF one.bits < 5 THEN one
                             ELSE [one EXCEPT !.output = Append(@, Out(one, 5)), !.bits = @ - 5]
      step(acc, byte) == digits([acc EXCEPT !.value = (@ * 256 + byte) % Register, !.bits = @ + 8])
      last == FoldLeft(step, [value |-> 0, bits |-> 0, output |-> <<>>], input)
  IN IF last.bits > 0 THEN Append(last.output, (last.value * 2 ^ (5 - last.bits)) % 32) ELSE last.output

\* decodeBase32(): eight bits at a time, what is left over at the end is dropped.
DecodeBase32(input) ==
  LET step(acc, index) ==
        LET in == [acc EXCEPT !.value = (@ * 32 + index) % Register, !.bits = @ + 5]
        IN IF in.bits >= 8 THEN [in EXCEPT !.output = Append(@, Out(in, 8)), !.bits = @ - 8] ELSE in
  IN FoldLeft(step, [value |-> 0, bits |-> 0, output |-> <<>>], input).output

CounterAt(seconds) == seconds \div Period

\* Mutant: only the current period's code is accepted.
FaultyVerifyTotp(counter) == counter = CounterAt(now)
\* verifyTotp(): the code of the current period, or of Window periods around it.
VerifyTotp(counter) == \E offset \in -Window..Window : counter = CounterAt(now) + offset

-----------------------------------------------------------------------------
Init ==
  /\ secret = <<>>
  /\ now = Period
  /\ clock \in -Skew..Skew

\* generateTotpSecret(): one more random byte.
DrawByte ==
  /\ Len(secret) < Length
  /\ \E b \in Bytes : secret' = Append(secret, b)
  /\ UNCHANGED <<now, clock>>

Tick ==
  /\ now < Horizon
  /\ now' = now + 1
  /\ UNCHANGED <<secret, clock>>

Next == DrawByte \/ Tick
Spec == Init /\ [][Next]_vars

-----------------------------------------------------------------------------
(* Properties.                                                             *)

\* The server computes its codes from the very bytes it drew: nothing is lost or made
\* up between encoding the secret for the authenticator and decoding it again.
SecretReadsBack == DecodeBase32(EncodeBase32(secret)) = secret

\* A code is accepted all the time an authenticator shows it, though its clock is off by
\* up to a period, and no longer than one period more than the window after it was shown.
CodeAcceptedWhileShown ==
  \A counter \in 0..CounterAt(Horizon + Skew) :
    /\ CounterAt(now + clock) = counter => VerifyTotp(counter)
    /\ VerifyTotp(counter) => now - (counter + 1) * Period < Window * Period
=============================================================================
