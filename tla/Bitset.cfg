CONSTANTS
    W = 3
    len = 2
    Asked = {0, 1, 2, 3, 4, 5, 6, 7, 8, 9, 10, 11}
SPECIFICATION BitsetSpec
PROPERTIES IsNumberSet
