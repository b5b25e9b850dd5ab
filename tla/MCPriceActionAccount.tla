------------------------ MODULE MCPriceActionAccount ------------------------
EXTENDS PriceActionAccount
=============================================================================
