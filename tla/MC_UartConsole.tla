---------------------------- MODULE MC_UartConsole ----------------------------
\* A console of two-bit bytes: Ask is '?', Cr is Enter, the others are letters.
EXTENDS UartConsole

Ask == <<1, 0>>
Cr  == <<1, 1>>
A   == <<0, 0>>
B   == <<0, 1>>

MCTyped    == {A, Ask, Cr}
MCEnter    == {Cr}
MCResponse == (<<Ask, A>> :> <<B, A>>) @@ (<<Ask, A, A>> :> <<A, Cr>>)
MCFallback == <<Ask>>
===============================================================================
