-------------------------- MODULE MCRoadDataThread --------------------------
EXTENDS GetDataCall
=============================================================================
