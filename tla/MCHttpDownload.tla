--------------------------- MODULE MCHttpDownload ---------------------------
EXTENDS HttpDownload
=============================================================================
