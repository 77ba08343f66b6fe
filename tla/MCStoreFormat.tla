--------------------------- MODULE MCStoreFormat ---------------------------
EXTENDS StoreFormatProperties
============================================================================
