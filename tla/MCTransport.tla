------------------------------ MODULE MCTransport ------------------------------
EXTENDS Transport

CONSTANTS a1, a2, ble1, prompt, cr

(* Three answers, the middle one without content, the last one of two      *)
(* texts; then the beginning of a fourth.                                  *)
LongStream == <<1, cr, prompt, cr, prompt, 2, 3, cr, prompt, 4>>

(* An answer of two texts, one without content and one of one text.        *)
ShortStream == <<1, 2, prompt, prompt, 3, prompt>>
=============================================================================
