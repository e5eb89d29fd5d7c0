------------------------------ MODULE MC_Followups ------------------------------
(* Two threads, one title that both have, and an utterance of each form.     *)
EXTENDS Followups

CONSTANTS a, b, m, n

Say(form, names, text) == [form |-> form, names |-> names, text |-> text]
Phrases == {
    Say("explicit", {a}, m), Say("explicit", {a, b}, m), Say("explicit", {b}, NoText),
    Say("incomplete", {a}, NoText),
    Say("cancel", {}, NoText), Say("topic", {a}, NoText),
    Say("send", {}, m), Say("declare", {}, m), Say("confirm", {}, NoText),
    Say("plain", {a}, n)}
=============================================================================
