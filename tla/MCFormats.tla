----------------------------- MODULE MCFormats -----------------------------
EXTENDS Formats
MCIdLens == <<20, 32, 48, 64>>
=============================================================================
