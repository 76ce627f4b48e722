------------------------- MODULE MCBackupCatalogue -------------------------
EXTENDS BackupCatalogue, TLC
CONSTANTS b1, b2, h, tm
=============================================================================
