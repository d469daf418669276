----------------------------- MODULE MCQualcomm -----------------------------
EXTENDS Qualcomm

\* Two frames, one with an escaped byte.
MCStream ==
  <<"byte", "byte", "byte", "end", "byte", "esc", "masked", "byte", "end">>
=============================================================================
