---------------------------- MODULE MCVoiceTest ----------------------------
EXTENDS VoiceTest
=============================================================================
