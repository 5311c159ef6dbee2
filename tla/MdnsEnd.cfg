SPECIFICATION SpecMdns
CONSTANT MaxForks = 2
PROPERTY EndWithdraws
CHECK_DEADLOCK FALSE
